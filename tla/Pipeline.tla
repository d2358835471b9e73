------------------------------ MODULE Pipeline ------------------------------
(***************************************************************************)
(* The pipeline of filters the documents pass through, as                  *)
(* Training_Execution_Strategy and Testing_Execution_Strategy put it       *)
(* together from TBB_Pipeline's filters, and the filters' work on the      *)
(* documents (Unigram_Model_Trainer, _Tester, _Streamer) and on the        *)
(* word-topic table (TypeTopicCounts).                                     *)
(*                                                                         *)
(* A token of the pipeline points into a ring of livetokens documents that *)
(* Filter_Reader reads into one after the other.  Tokens are numbered as   *)
(* they are read, so token k is document k.  TBB passes at most livetokens *)
(* tokens at a time, through a serial filter one by one in that order,     *)
(* through a parallel filter in any order (external: tbb::pipeline).       *)
(***************************************************************************)
EXTENDS Documents, FiniteSets, Functions

CONSTANTS
  Words, Topics,
  Body,            \* the words of each document
  livetokens,      \* flag: length of the ring, and bound on the live tokens
  Modes,           \* subset of train, online, test and stream
  Iters,           \* flag iter: iterations of training
  burnin, optimizestats, printloglikelihood,   \* flags
  tau              \* Unigram_Model_Trainer's tau: 100

ASSUME PipelineAssumption ==
  /\ Body \in Seq(Seq(Words))
  /\ livetokens \in Nat \ {0}
  /\ Modes \subseteq {"train", "online", "test", "stream"}
  /\ IsFiniteSet(Words)
  /\ IsFiniteSet(Topics) /\ Topics = 1..Cardinality(Topics)
  /\ {Iters, burnin, optimizestats, printloglikelihood, tau} \subseteq Nat \ {0}

VARIABLES
  mode, pc, iter,
  ignore_old_topic,
  ring,       \* docs: the document in each buffer
  next_doc,   \* where the reader reads next
  read,       \* documents read in this iteration
  eof,        \* the reader has found the end of input_w
  token,      \* per document: its token, or NoToken
  input_t,    \* file of the assignments the iteration starts from
  output_t,   \* file of those it has written
  wt,         \* counts of words and topics
  tokens_per_topic,
  inferred,   \* topics test() found for each document
  doc_index,  \* documents the optimizer has seen, less one
  part_grads, \* documents that are in the partial gradients
  alphas      \* updates of alpha

fileVars == <<input_t, output_t>>
tableVars == <<wt, tokens_per_topic>>
gradVars == <<doc_index, part_grads, alphas>>
readerVars == <<next_doc, read, eof>>
controlVars == <<mode, pc, iter, ignore_old_topic>>
vars == <<controlVars, ring, readerVars, token, fileVars, tableVars, inferred,
          gradVars>>

Docs == DOMAIN Body
Slots == 0..livetokens - 1
NoToken == [at |-> 0]
Live == {k \in Docs : token[k] # NoToken}
Testing == mode \in {"test", "stream"}
Lasting == IF Testing THEN 1 ELSE Iters

-----------------------------------------------------------------------------
(***************************************************************************)
(* The filters of the iteration, in their order, and the serial ones.      *)
(***************************************************************************)
optimize == iter > burnin /\ iter % optimizestats = 0
compute_loglikelihood == iter = 1 \/ iter % printloglikelihood = 0

Filters ==
  IF Testing
  THEN <<"reader", "tester", "eval", "writer">>
  ELSE <<"reader">>
       \o (IF optimize THEN <<"optimizer">> ELSE <<"sampler", "updater">>)
       \o (IF compute_loglikelihood THEN <<"eval">> ELSE <<>>)
       \o <<"writer">>

\* Fault: the writer is made parallel.
serialButWriter == {"reader", "optimizer", "eval"}

serial == {"reader", "optimizer", "eval", "writer"}

\* Fault: a serial filter waits for the later documents, too.
InAfterAll(filter, k) ==
  /\ pc = "run" /\ k \in Live /\ Filters[token[k].at] = filter
  /\ filter \in serial => \A j \in Live \ {k} : token[j].at > token[k].at

\* The filter may take document k: the earlier ones have left a serial filter.
In(filter, k) ==
  /\ pc = "run" /\ k \in Live /\ Filters[token[k].at] = filter
  /\ filter \in serial => \A j \in Live : j < k => token[j].at > token[k].at

Passed(k) == [token[k] EXCEPT !.at = @ + 1]

Buffer(k) == ring[token[k].slot]
BodyOf(k) == Buffer(k).body
TopicsIn(k) == Buffer(k).topic_assignment
Positions(k) == DOMAIN Body[k]

-----------------------------------------------------------------------------
\* Pairs of document and position with word w and topic t.
Occurrences(topics, w, t) ==
  UNION {{<<k, i>> : i \in {n \in Positions(k) : Body[k][n] = w /\ topics[k][n] = t}}
           : k \in Docs}

CountsOf(topics) ==
  [w \in Words |-> [t \in Topics |-> Cardinality(Occurrences(topics, w, t))]]

TotalsOf(counts) ==
  [t \in Topics |-> SumFunction([w \in Words |-> counts[w][t]])]

\* Every way to give each token of the corpus a topic.
Assignments ==
  {f \in [Docs -> UNION {[Positions(k) -> Topics] : k \in Docs}] :
     \A k \in Docs : DOMAIN f[k] = Positions(k)}

\* What the formatter has written of document k.
Formatted(k) == [Clear EXCEPT !.docid = k, !.body = Body[k]]

input_w == [k \in Docs |-> SerializeToString(Formatted(k))]

\* The file of the first assignments.
AssignmentFile(topics) ==
  [k \in Docs |-> SerializeToString([Clear EXCEPT !.topic_assignment = topics[k]])]

Init ==
  /\ mode \in Modes
  /\ pc = "init" /\ iter = 1
  /\ ignore_old_topic = (mode = "online")
  /\ \E topics \in Assignments :
       IF mode = "train"
       THEN /\ input_t = AssignmentFile(topics)
            /\ wt = CountsOf(topics)
       ELSE /\ input_t = <<>>
            /\ wt = [w \in Words |-> [t \in Topics |-> 0]]
  /\ tokens_per_topic = TotalsOf(wt)
  /\ ring = [s \in Slots |-> Clear]
  /\ next_doc = 0 /\ read = 0 /\ eof = FALSE
  /\ token = [k \in Docs |-> NoToken]
  /\ output_t = <<>>
  /\ inferred = [k \in Docs |-> <<>>]
  /\ doc_index = -1 /\ part_grads = 0 /\ alphas = 0

-----------------------------------------------------------------------------
\* A new pipeline with its filters, a fresh ring and fresh readers and writers.
Assemble ==
  /\ pc = "init" /\ iter <= Lasting
  /\ pc' = "run"
  /\ ring' = [s \in Slots |-> Clear]
  /\ next_doc' = 0 /\ read' = 0 /\ eof' = FALSE
  /\ UNCHANGED <<mode, iter, ignore_old_topic, token, fileVars, tableVars,
                 inferred, gradVars>>

(***************************************************************************)
(* Filter_Reader takes the next buffer of the ring, and the refiner reads  *)
(* the next document into it: the trainer merges its topics into it, which *)
(* input_t has (whether it could read them is not looked at); the streamer *)
(* reads the text of the document and draws topics at random.              *)
(***************************************************************************)
Streamed(k) ==
  {[Formatted(k) EXCEPT !.topic_assignment = topics] :
     topics \in [Positions(k) -> Topics]}

Document(k) ==
  LET wdoc == ReadRecord(input_w, k, Clear)
      tdoc == ReadRecord(input_t, k, Clear) IN
  IF mode = "stream" THEN Streamed(k)
  ELSE {IF mode = "test" \/ ignore_old_topic THEN wdoc ELSE MergeFrom(wdoc, tdoc)}

\* Fault: the pipeline is run with one token more than the ring is long.
MayReadOneMore == pc = "run" /\ ~eof /\ Cardinality(Live) <= livetokens

MayRead == pc = "run" /\ ~eof /\ Cardinality(Live) < livetokens

Advance == next_doc' = (next_doc + 1) % livetokens

Read ==
  /\ MayRead /\ read < Len(Body)
  /\ Advance
  /\ read' = read + 1
  /\ \E doc \in Document(read + 1) : ring' = [ring EXCEPT ![next_doc] = doc]
  /\ token' = [token EXCEPT ![read + 1] =
                 [at |-> 2, slot |-> next_doc, nt |-> <<>>, changes |-> <<>>,
                  n |-> 1, step |-> "ready"]]
  /\ UNCHANGED <<controlVars, eof, fileVars, tableVars, inferred, gradVars>>

ReadEnd ==
  /\ MayRead /\ read = Len(Body)
  /\ Advance
  /\ eof' = TRUE
  /\ UNCHANGED <<controlVars, ring, read, token, fileVars, tableVars, inferred,
                 gradVars>>

(***************************************************************************)
(* sample_topics(): the totals are copied topic after topic while other    *)
(* tokens are in the updater; then every word gets a new topic, noted in   *)
(* the document and in the list of changes.  In online mode the old topic  *)
(* is 0.                                                                   *)
(***************************************************************************)
CopyTotal(k) ==
  /\ In("sampler", k)
  /\ Len(token[k].nt) < Cardinality(Topics)
  /\ token' = [token EXCEPT ![k].nt =
                 Append(@, tokens_per_topic[Len(token[k].nt) + 1])]
  /\ UNCHANGED <<controlVars, ring, readerVars, fileVars, tableVars, inferred,
                 gradVars>>

OldTopic(k, i) == IF ignore_old_topic THEN 0 ELSE TopicsIn(k)[i]

\* sampler::sample(): a topic the word has, one the document has, or, with the
\* smoothing mass, any; so that any is possible for every word.
sample(k) == [DOMAIN BodyOf(k) -> Topics]

Sample(k) ==
  /\ In("sampler", k)
  /\ Len(token[k].nt) = Cardinality(Topics)
  /\ \E new \in sample(k) :
       /\ ring' = [ring EXCEPT ![token[k].slot].topic_assignment = new]
       /\ token' = [token EXCEPT ![k] =
            [Passed(k) EXCEPT !.nt = <<>>, !.changes =
               [i \in DOMAIN new |-> [word |-> BodyOf(k)[i],
                                      old |-> OldTopic(k, i), new |-> new[i]]]]]
  /\ UNCHANGED <<controlVars, readerVars, fileVars, tableVars, inferred, gradVars>>

(***************************************************************************)
(* update(): one change after the other, each under the word's lock.  The  *)
(* counts and the totals of the two topics are changed one at a time.      *)
(***************************************************************************)
Change(k) == token[k].changes[token[k].n]

Updating(k) == In("updater", k) /\ token[k].n <= Len(token[k].changes)

Locked(w) == \E j \in Live : token[j].step # "ready" /\ Change(j).word = w

At(k, step) == Updating(k) /\ token[k].step = step

Step(k, step) == token' = [token EXCEPT ![k].step = step]

NextChange(k) == token' = [token EXCEPT ![k].n = @ + 1, ![k].step = "ready"]

UpdateFrame ==
  UNCHANGED <<mode, iter, ignore_old_topic, ring, readerVars, fileVars,
              inferred, gradVars>>

\* Training without assignments: only the new topic is counted.
CountNew(k) ==
  /\ At(k, "ready") /\ ignore_old_topic /\ ~Locked(Change(k).word)
  /\ wt' = [wt EXCEPT ![Change(k).word][Change(k).new] = @ + 1]
  /\ Step(k, "added")
  /\ UNCHANGED <<pc, tokens_per_topic>> /\ UpdateFrame

NoChange(k) ==
  /\ At(k, "ready") /\ ~ignore_old_topic /\ ~Locked(Change(k).word)
  /\ Change(k).old = Change(k).new
  /\ NextChange(k)
  /\ UNCHANGED <<pc, tableVars>> /\ UpdateFrame

\* A word without the old topic is fatal.
Decrement(k) ==
  /\ At(k, "ready") /\ ~ignore_old_topic /\ ~Locked(Change(k).word)
  /\ Change(k).old # Change(k).new
  /\ LET c == Change(k) IN
     IF wt[c.word][c.old] = 0
     THEN pc' = "aborted" /\ UNCHANGED <<wt, token>>
     ELSE /\ wt' = [wt EXCEPT ![c.word][c.old] = @ - 1]
          /\ Step(k, "removed")
          /\ UNCHANGED pc
  /\ UNCHANGED tokens_per_topic /\ UpdateFrame

\* Fault: the total of the new topic is taken down.
DecrementTotalOfNew(k) ==
  /\ At(k, "removed")
  /\ tokens_per_topic' = [tokens_per_topic EXCEPT ![Change(k).new] = @ - 1]
  /\ Step(k, "dropped")
  /\ UNCHANGED <<pc, wt>> /\ UpdateFrame

DecrementTotal(k) ==
  /\ At(k, "removed")
  /\ tokens_per_topic' = [tokens_per_topic EXCEPT ![Change(k).old] = @ - 1]
  /\ Step(k, "dropped")
  /\ UNCHANGED <<pc, wt>> /\ UpdateFrame

Increment(k) ==
  /\ At(k, "dropped")
  /\ wt' = [wt EXCEPT ![Change(k).word][Change(k).new] = @ + 1]
  /\ Step(k, "added")
  /\ UNCHANGED <<pc, tokens_per_topic>> /\ UpdateFrame

\* Fault: the total of the new topic is not taken up.
IncrementTotalForgotten(k) ==
  /\ At(k, "added") /\ NextChange(k)
  /\ UNCHANGED <<pc, tableVars>> /\ UpdateFrame

IncrementTotal(k) ==
  /\ At(k, "added")
  /\ tokens_per_topic' = [tokens_per_topic EXCEPT ![Change(k).new] = @ + 1]
  /\ NextChange(k)
  /\ UNCHANGED <<pc, wt>> /\ UpdateFrame

Updated(k) ==
  /\ In("updater", k) /\ token[k].n > Len(token[k].changes)
  /\ token' = [token EXCEPT ![k] = [Passed(k) EXCEPT !.changes = <<>>]]
  /\ UNCHANGED <<pc, tableVars>> /\ UpdateFrame

-----------------------------------------------------------------------------
(***************************************************************************)
(* optimize(): every tau documents alpha takes a step along the partial    *)
(* gradients, which start anew; then this document's share is added.       *)
(***************************************************************************)
\* Fault: the first document makes a step, too.
StepDueAtOnce == doc_index' % tau = 0

StepDue == doc_index' # 0 /\ doc_index' % tau = 0

Optimize(k) ==
  /\ In("optimizer", k)
  /\ doc_index' = doc_index + 1
  /\ alphas' = IF StepDue THEN alphas + 1 ELSE alphas
  /\ part_grads' = (IF StepDue THEN 0 ELSE part_grads) + 1
  /\ token' = [token EXCEPT ![k] = Passed(k)]
  /\ UNCHANGED <<controlVars, ring, readerVars, fileVars, tableVars, inferred>>

\* test() gives each distinct word a topic and appends the topic of each word.
Test(k) ==
  /\ In("tester", k)
  /\ \E top \in [Range(BodyOf(k)) -> Topics] :
       LET found == [i \in DOMAIN BodyOf(k) |-> top[BodyOf(k)[i]]] IN
       /\ ring' = [ring EXCEPT ![token[k].slot].topic_assignment = @ \o found]
       /\ inferred' = [inferred EXCEPT ![Buffer(k).docid] = found]
  /\ token' = [token EXCEPT ![k] = Passed(k)]
  /\ UNCHANGED <<controlVars, readerVars, fileVars, tableVars, gradVars>>

\* eval() only reads the document's topics and alpha.
Eval(k) ==
  /\ In("eval", k)
  /\ token' = [token EXCEPT ![k] = Passed(k)]
  /\ UNCHANGED <<controlVars, ring, readerVars, fileVars, tableVars, inferred,
                 gradVars>>

\* Fault: the words are left in the document.
WrittenWithWords(k) ==
  IF mode = "stream"
  THEN [Buffer(k) EXCEPT !.topic_assignment = SubSeq(@, 1, Len(BodyOf(k)))]
  ELSE SerializeToString(Buffer(k))

\* The streamer prints the first topics of the document, one for each word;
\* the others write the document without its words.
Written(k) ==
  IF mode = "stream"
  THEN [Buffer(k) EXCEPT !.topic_assignment = SubSeq(@, 1, Len(BodyOf(k)))]
  ELSE SerializeToString([Buffer(k) EXCEPT !.body = <<>>])

Write(k) ==
  /\ In("writer", k)
  /\ output_t' = Append(output_t, Written(k))
  /\ token' = [token EXCEPT ![k] = NoToken]
  /\ UNCHANGED <<controlVars, ring, readerVars, input_t, tableVars, inferred,
                 gradVars>>

-----------------------------------------------------------------------------
(***************************************************************************)
(* clear(): the pipeline has drained; iteration_done() moves output_t over *)
(* input_t when training, copies it when testing, and does nothing when    *)
(* streaming.                                                              *)
(***************************************************************************)
IterationDone ==
  /\ pc = "run" /\ eof /\ Live = {}
  /\ input_t' = IF mode = "stream" THEN input_t ELSE output_t
  /\ output_t' = IF Testing THEN output_t ELSE <<>>
  /\ ignore_old_topic' = FALSE
  /\ iter' = iter + 1
  /\ pc' = "init"
  /\ UNCHANGED <<mode, ring, readerVars, token, tableVars, inferred, gradVars>>

Finish ==
  /\ pc = "init" /\ iter > Lasting
  /\ pc' = "done"
  /\ UNCHANGED <<mode, iter, ignore_old_topic, ring, readerVars, token, fileVars,
                 tableVars, inferred, gradVars>>

Update(k) ==
  \/ CountNew(k) \/ NoChange(k) \/ Decrement(k) \/ DecrementTotal(k)
  \/ Increment(k) \/ IncrementTotal(k) \/ Updated(k)

Filter(k) ==
  \/ CopyTotal(k) \/ Sample(k) \/ Update(k)
  \/ Optimize(k) \/ Test(k) \/ Eval(k) \/ Write(k)

Next ==
  \/ Assemble \/ Read \/ ReadEnd \/ IterationDone \/ Finish
  \/ \E k \in Docs : Filter(k)

Spec == Init /\ [][Next]_vars

\* TBB runs a filter that has a token to work on.
FairSpec == Spec /\ WF_vars(Next)

-----------------------------------------------------------------------------
(***************************************************************************)
(* Two documents in the pipeline never share a buffer of the ring          *)
(* (Filter_Reader counts on TBB letting through no more tokens than the    *)
(* ring is long, and on the writer releasing them in order).               *)
(***************************************************************************)
RingIsExclusive ==
  /\ \A j, k \in Live : j # k => token[j].slot # token[k].slot
  /\ \A k \in Live : Buffer(k).docid = k

\* The updater or the tester is behind document k in this iteration.
Settled(k) ==
  /\ pc = "run" /\ k <= read
  /\ \E f \in DOMAIN Filters :
        Filters[f] \in {"updater", "tester"} /\ (k \in Live => token[k].at > f)

StoredTopics(file, k) == ReadRecord(file, k, Clear).topic_assignment

TopicsOf(k) ==
  CASE Settled(k) /\ k \in Live            -> TopicsIn(k)
    [] Settled(k) /\ k \in DOMAIN output_t -> StoredTopics(output_t, k)
    [] OTHER                               -> StoredTopics(input_t, k)

(***************************************************************************)
(* The documents in the pipeline have the words they were formatted with,  *)
(* and one topic for each or, before the first are found, none, whatever   *)
(* iteration it is: what read() merges into a buffer is what write() has   *)
(* left out of the file of topics, and each file goes on one document      *)
(* after the other, so that the n-th topics are merged to the n-th words.  *)
(* (The streamer adds its topics to random ones: WrittenTopicsAreInferred.)*)
(***************************************************************************)
DocumentsKeepTheirWords ==
  mode # "stream" => \A k \in Live :
    /\ BodyOf(k) = Body[k]
    /\ \/ Len(TopicsIn(k)) = Len(Body[k])
       \/ TopicsIn(k) = <<>> /\ (mode = "test" \/ (mode = "online" /\ iter = 1))

(***************************************************************************)
(* The table counts each token of the corpus under exactly the topic its   *)
(* document has, or, in a change that is under way, under none or already  *)
(* under the new one; and so do the totals (TypeTopicCounts::upd_count).   *)
(* So the words' counts and n(t) agree whenever no change is under way.    *)
(***************************************************************************)
\* The topics of document k, with a change that is under way counted under no
\* topic in the steps none, and under the new one in the steps new.
CountedTopics(k, none, new) ==
  LET t == token[k]
      changing == k \in Live /\ In("updater", k)
      topics == TopicsOf(k) IN
  [i \in Positions(k) |->
     CASE changing /\ (i < t.n \/ (i = t.n /\ t.step \in new)) -> t.changes[i].new
       [] changing /\ i = t.n /\ t.step \in none             -> 0
       [] OTHER -> IF i \in DOMAIN topics THEN topics[i] ELSE 0]

CountsFollowAssignments ==
  mode \in {"train", "online"} =>
    /\ wt = CountsOf([k \in Docs |->
              CountedTopics(k, {"removed", "dropped"}, {"added"})])
    /\ tokens_per_topic = TotalsOf(CountsOf([k \in Docs |->
              CountedTopics(k, {"dropped", "added"}, {})]))

(***************************************************************************)
(* The totals a document is sampled with, copied without a lock while      *)
(* other documents are updated, count at least the document's own tokens:  *)
(* the sampler takes them off the copy (do_one_doc) and must not get below *)
(* zero.                                                                   *)
(***************************************************************************)
TotalsCoverTheDocument ==
  \A k \in Live : \A t \in DOMAIN token[k].nt :
    token[k].nt[t] >= Cardinality({i \in DOMAIN TopicsIn(k) : TopicsIn(k)[i] = t})

(***************************************************************************)
(* The optimizer moves alpha along the gradients of tau documents, no more *)
(* and no fewer (Unigram_Model_Trainer::optimize divides by tau).          *)
(***************************************************************************)
BatchesOfTau == [][alphas' # alphas => part_grads = tau]_vars

(***************************************************************************)
(* Every iteration comes to its end, and so does the run: no filter waits  *)
(* for a document that waits for it, and no update finds its old topic     *)
(* gone.                                                                   *)
(***************************************************************************)
EveryIterationEnds == <>(pc = "done")

(***************************************************************************)
(* What is written for a document are the topics test() found for its      *)
(* words: "The topic assignments are dumped back to stdout"                *)
(* (single_machine_usage.h:876).                                           *)
(***************************************************************************)
WrittenTopicsAreInferred ==
  Testing => \A k \in DOMAIN output_t : StoredTopics(output_t, k) = inferred[k]

\* The pipeline implements the sweep over the documents.
Swept == INSTANCE Sweep WITH
  N <- Len(Body),
  Topicings <- LAMBDA k : {<<>>} \cup [Positions(k) -> Topics],
  assignment <- [k \in Docs |-> TopicsOf(k)],
  resampled <- {k \in Docs : Settled(k)},
  written <- IF pc = "run"
             THEN [k \in DOMAIN output_t |-> StoredTopics(output_t, k)] ELSE <<>>,
  resampling <- Testing \/ ~optimize

(***************************************************************************)
(* Documents may overtake each other in the sampler and the updater, but   *)
(* each is resampled once and written once, after that and in the order it *)
(* was read: input_w and input_t stay aligned.                             *)
(***************************************************************************)
ImplementsSweep == Swept!Spec
=============================================================================
