# TLA+ models of Yahoo! LDA

Yahoo! LDA learns topics from documents on one machine or on many. Each learner
passes its documents through a pipeline of threads that sample topics against a
local table of word-topic counts; on many machines a background thread keeps the
tables in step through a distributed map of counts served by the machines
themselves, and shell scripts under Hadoop start, meet and restart the learners.
The sampling itself is random arithmetic; what can go wrong silently is the
machinery around it: queues, windows of asynchronous calls, callbacks, barriers,
rings of buffers, an array that is updated in place while pointers into it are
held, files put together by position, and words that are renamed on their way from
one dictionary to the next. These models are about that machinery.

Paths below are relative to the repository's `src/` directory of C++ sources;
`*.sh` are the scripts above it.

## The system

| Component | State | Operations | Module |
|---|---|---|---|
| `DM_Server` queue (`commons/Server/DM_Server.cpp:78-153`) | `_png_jobs`, `_num_consumers`, `_waiting_thrds`, the dispatch threads of Ice | `putNget_async` | `DMServer` |
| `DM_Server` table (`DM_Server.cpp:41-76`, `Hashmap_Array.h`) | `_tc_table`, one read/write lock per bucket | `put`, `set`, `get`, `remove`, `combine` | `DMServer`, `CountTable` |
| the interface (`DistributedMap.ice`) | the map, calls in progress | the same, as atomic steps | `DistributedMap` |
| `DM_Server` barrier (`DM_Server.cpp:155-167`) | `_clients_done`, `_cbs` | `waitForAllClients` | `ClientBarrier` |
| `DM_Client`, `PNGCallback` (`commons/TopicLearner/DM_Client.{h,cpp}`) | `_cur_msg_id`, `_status[]`, `_waiting` | `begin_putNget`, `wait_till_done`, `finished` | `DMClient` |
| `Synchronizer` (`Synchronizer.cpp`) | `_all_iters_done` | passes over the words | `DMClient` |
| `Unigram_Model_Synchronizer_Helper` | `_ttc`, `_prev_ttc`, `_cur_word` | `initialize`, `synchronize`, `end_putNget` | `GlobalSync` |
| `TopicCounts` (packed counts of one word) | `items`, `length`, `origLength` | `increment`, `decrement`, `upd_count`, `addNewTop`, `compact` | `TopicCounts` |
| `TypeTopicCounts` (the table) | `wt[]`, `tokens_per_topic`, word locks | `upd_count`, `get_counts`, `dump`, `initialize_*`, `estimate_fit` | `TopicCounts`, `Pipeline`, `GlobalSync`, `ModelFiles` |
| `TBB_Pipeline` and its filters, trainer, tester, streamer | the ring of documents, the tokens in flight, the changes each carries, the files of words and of topics | read, sample, update, optimize, test, evaluate, write, `iteration_done` | `Pipeline`, `Sweep` |
| iterations and checkpoints (`Training_Execution_Strategy`, `Local_Checkpointer`, `Hadoop_Checkpointer`, the builder's `initialize_topics`) | iteration number, `lda.top`, `lda.top.tmp`, `lda.chk`, their copies on HDFS | run, `iteration_done`, `save_metadata`, `load_metadata`, `checkpoint`, restart | `Checkpoints` |
| documents and their files (`document.pb`, `DocumentReader`, `DocumentWriter`) | a buffer's fields, the records of a file | clear, merge, read, write | `Documents` |
| formatter (`commons/Formatter`) | dictionary, documents written | `format`, in training and in test mode | `Formatter` |
| `WordIndexDictionary` | `word_ind_map`, `ind_word_map`, `frequencies`, its file | insert, dump, load, merge, sort | `WordIndexDictionary` |
| merging and loading of models (`Merge_Dictionaries`, `Merge_Topic_Counts`, streaming and testing builders, `TypeTopicCounts::dump`, `GenericTopKList`) | dictionaries, dumps, parts, lists of top words | merge, fetch a part, estimate what fits, load, list | `ModelFiles` |
| job scripts (`LDA.sh`, `functions.sh`, `runLDA.sh`) | the files of each barrier, servers alive, outputs, attempts | wait for all, start, learn, put, merge, fail, retry | `Job` |

How they interact. The documents of a learner pass a pipeline whose reader fills a
ring of buffers, whose samplers and updaters take documents in any order, and whose
writer puts the topics out in the order the words were read. The updater changes
`_ttc` under the word's lock. The synchronizer thread of
`Synchronized_Training_Execution_Strategy` goes over the words, pass after pass: it
computes what changed since the map was last heard of, adds that to `_prev_ttc`, and
sends it with an asynchronous `putNget`. A dispatch thread of the server queues the
call; a consumer adds the difference to the table and answers with the global counts.
A callback thread of the client applies answer minus `_prev_ttc` to both tables and
frees the call's slot. So three kinds of client threads work on the two tables under
word locks only, two of them with values read earlier. Around this, `LDA.sh` on each
machine starts a server and a learner and meets the other machines at barriers made
of files; at the end it merges the dictionaries, and each machine fetches a part of
the counts by name. A tester or a streaming learner has a dictionary of its own and
loads the parts under its own indexes.

What makes each part correct:

* queue: a queued job is never forgotten while all consumers sleep; each job is
  done once; the queue stays below its limit; the pool never runs out of threads;
  seen from outside it is an atomic map.
* barrier of the servers: nobody passes early, in any round.
* window: a slot belongs to one message; no wakeup is lost; no two messages for
  the same word are under way.
* synchronization: no update of the map or the tables is forgotten or made twice; a
  learner's count is never
  below its own tokens (otherwise the updater aborts); the tables come to agree.
* packed counts: sorted, positive, unique, within the allocation; a pointer held
  across a decrement still finds its topic.
* pipeline: a buffer is never read into while in use; words and topics of a document
  stay together through files matched by position; the table counts every token under
  the topic its document has; the optimizer's batches have their size; seen from
  outside an iteration is a plain sweep over the documents, and it ends.
* iterations and checkpoints: a restart resumes after an iteration whose
  assignments are there; no iteration is lost, few are repeated.
* job: no script passes a barrier of files early; learners start on counts everybody
  has put once; servers outlive their clients; success means a complete result; the
  job ends, unless the file of a barrier is lost.
* dictionaries and models: a merged dictionary has every word with its frequency,
  under one index; a word keeps its counts through dump, cut, merge and reload; what
  is loaded fits, and as much as fits is loaded; the words listed for a topic are its
  most frequent ones, however many likelihoods came before.

The hazards behind these, line by line, are listed in `PROJECT.json`.

## Modules

* `CountTable` - the values: a table is a partial function from words to
  counts. The code keeps all topics' counts of a word in one string and
  `combine` works topic by topic, so one topic stands for all.
* `DistributedMap` - what the interface promises: `Put`, `Set`, `Remove`
  are atomic; a `putNget` is `Invoke`d, at some later moment `Combine`d in one
  step whose result is its answer, and `Receive`d in any order. The map's calls are not
  marked idempotent, so Ice does not repeat one that was sent, and a call is
  never carried out twice. The proxies and the dispatch that Ice generates only carry
  the calls; the map of `PROJECT.json` names the code at their two ends.
* `DMServer` - the server. A step is one critical section of the monitor or of
  a bucket lock, or one `ice_response`. The handler's three ways through the
  monitor are `QueueJob`, `HelpOut` and `BecomeConsumer`; a consumer's loop is
  `NextChunk`, `ProcessJob`, `Respond`, `Sleep`. `notify()` picks any sleeper; a
  woken consumer stays on `_waiting_thrds` until it has the monitor again, and may
  wake for no reason. `remove()` is two steps, because it holds the lock for
  reading only. `Map` is the refinement mapping onto `DistributedMap`.
* `ClientBarrier` - `waitForAllClients_async`, one step per call. It is checked
  inside `GlobalSync` and `Job`, which call it.
* `DMClient` - window and synchronizer thread. `_status` and `_waiting` change
  as in `PNGCallback`; `Block` is `wait()` entered under the monitor,
  `FinishCallback` the critical section at the end of `finished()`,
  `CallbackThrows` its early exit when `end_putNget` throws.
* `GlobalSync` - composes all of these: the steps of `DMClient` are conjoined
  with what the helper does to `_ttc` and `_prev_ttc` under each word lock,
  messages go through `DistributedMap`, `initialize()` through `ClientBarrier`.
  That the server may be replaced by `DistributedMap` is what `ImplementsMap`
  shows of `DMServer`. What a client has told the map of a word (`Told`) is its
  own tokens less what it has yet to send and what is on its way; the count of the map
  is the sum of that over the clients. Left out of this composition are an answer that
  throws (the learner then comes to wait for it and sends no more) and spurious wakeups;
  `DMClient` alone has both.
* `TopicCounts` - the array of one word. A pointer is an allocation and an
  index, so that a pointer into freed memory differs from every valid one. The
  orders `std::sort` may leave among equal counts are all explored. Between the two
  halves of `upd_count(word, old, new)` the state is visible to the model, as
  `tokens_per_topic`, which has no lock, is in the code.
* `Documents` - the protobuf message and the files of such records: what
  `Clear`, `MergeFrom`, writing and reading do to the fields, with fields left out of
  a record when they are empty.
* `Pipeline` (with `Documents`) - a learner's iterations. A token is numbered by the
  document it carries, since the reader is serial. `In(filter, k)` is TBB's
  scheduling (external): a serial filter takes the tokens in the order they were
  made, a parallel one in any. The filters are put together per iteration, as the
  strategies do: `Filters` depends on the mode and on the flags that say which
  iterations optimize and which evaluate. The sampler copies n(t) topic after topic
  (`CopyTotal`); each change of the updater is up to four steps, two of the word's
  counts under its lock and two of n(t) under none. `Sample`, `Test` choose any
  topics, as the arithmetic gives each a positive probability. An iteration ends when
  the pipeline has drained, and its output becomes the next one's input.
* `Sweep` - what an iteration promises without pipeline, ring and table: each
  document gets new topics once, then all are written in their order.
* `Checkpoints` - one learner from `main()` to its output, again and again. A
  file of assignments is abstracted to the number of iterations that made it and
  whether it is complete; metadata to the iteration they name, with the newline
  that cuts the raw int short. A step is one command: one file opened, one `mv`,
  the beginning and the end of one `hadoop dfs -put`. `Crash` is enabled between any
  two; with Hadoop it takes the machine's files and the restart copies `chkptdir`
  (`LDA.sh:40`), otherwise the files stay. The death of any other learner ends the
  job too (`map.max.attempts=1`) and is the same step. An iteration that optimizes
  writes the assignments it read and counts as an iteration. What HDFS does (a put
  refuses to replace a file, a cut-off put leaves a part, a move is atomic) is taken
  from how the commands are used; a command that fails for other reasons is not
  modelled here, nor is the part of the job after `learntopics`, which is `Job`'s.
* `Job` (EXTENDS `ClientBarrier`) - the training job. A task is one partition's
  `LDA.sh`, its place an index into `Script`; Hadoop (external) runs each task once,
  kills the others when one fails (`AttemptFails`, followed by `Retry` or `GiveUp`),
  and fails a silent one (`Timeout`). `Mark` and `Pass` are `wait_for_all`. Two puts are
  not checked by the code: that of a barrier's file, which may be `lost`, and that of a
  learner's output (`PutOutput`), without which `Merge` fails. That of `client-<p>`
  (`LDA.sh:62`) is taken to succeed. `Fail` is
  a command with a checked exit code or the whole machine, with or without its server;
  `Abort` is `learntopics` alone, after which the script carries on. `Leftovers` says
  whether a server may survive the attempt that started it.
* `Formatter` - lines of words to documents and dictionary. In test mode the words
  the model does not know are left out.
* `WordIndexDictionary` - operators from dictionaries to dictionaries. Its file has
  a header and records of `BATCH` words. The orders a hash map or `std::sort` leaves
  open make the results sets, all of whose members are explored.
* `ModelFiles` (EXTENDS `Formatter`, which EXTENDS the two others) - the way of a
  model from the corpora through the machines' dictionaries, the counts, the dumps (a
  header, one record per word, n(t) last) and parts, to the table of a tester or a
  streaming learner with other indexes; and the lists of top words, which the model
  keeps from one likelihood (`Evaluate`, `get_eval`) to the next. Learning is one
  step to any counts, and a likelihood is of any counts, as `Pipeline` and `GlobalSync`
  are about them. `FitInDumps` is the loop of the streaming builder over the dumps, with
  the memory used carried from one to the next.
* `MC*` modules give TLC its constants; `*Proofs` modules hold the theorems, and
  `SumTheorems` the lemmas on sums over finite sets that several of them need.

Operators with a comment `Fault:` are not part of the models. Each is a plausible
slip in the operator that follows it, and `PROJECT.json` ("mutants") names
the property that finds it.

## Runs

| Run | Instance | What it shows |
|---|---|---|
| `queue` | 2 consumers, 3 threads, queue limit 2, chunk 2; 4 jobs on 2 words, or each operation of the map once on one word | `TypeOK`, `NoStrandedJobs`, `QueueBelowFull`, `EachJobOnce`, `ImplementsMap`; with fairness `EveryJobAnswered`, `PoolRecovers` |
| `client` | 5 words, window of 3, 2 callback threads, 1 failing call | `SlotsAreExclusive`, `OneMessagePerEntity`, `NoLostWakeup`, `SynchronizerReturns` |
| `sync` | 2 learners, 3 words, window of 2, 1 change of topic | `TokensConserved`, `OldTopicFound`, `InitialCountsComplete` |
| `sync_live` | 2 learners, 1 word, 2 changes | `EventuallyAgree` |
| `sync_small` | 2 words, `MAX_MSGS` 3 | finding: `OldTopicFound` fails for a tiny vocabulary |
| `topic_counts` | 4 topics, counts to 3, blocks of 1 | `WellFormed`, `NewTopFollows`, `CountsValidate` |
| `pipeline` | 3 documents `<<a,b>>, <<a>>, <<b>>`, 2 topics, ring of 2, train, online and test mode, 3 iterations of which the first samples and evaluates, the second optimizes, the third samples; tau 2 | `RingIsExclusive`, `CountsFollowAssignments`, `TotalsCoverTheDocument`, `DocumentsKeepTheirWords`, `BatchesOfTau`, `ImplementsSweep`, `EveryIterationEnds` |
| `pipeline_stream` | the same documents, streaming mode | finding: `WrittenTopicsAreInferred` |
| `checkpoints` | both set-ups, interval 3, 4 or 7 iterations, 4 starts | `MetadataBacked`, `DoneMeansAllIterations`, `ReworkIsBounded`, `AssignmentsOnlyAdvance` on one machine; `SomeCopyRemains` on HDFS |
| `checkpoints_newline` | one machine, interval 5, 12 iterations | finding: `StartsFromCheckpoint`, the restart after iteration 10 starts over |
| `job` | 3 machines, 2 attempts, failures anywhere, lost puts | `BarriersHold`, `NobodyPassesEarly`, `CountsAreComplete`, `ServersOutliveClients`, `SuccessIsComplete`, `JobEnds` |
| `model_files` | corpora of 1, 2 and 3 machines, test and stream mode, 2 topics, batches of 2 words, memory 3, 2 top words | `GlobalDictionaryIsRight`, `LoadedCountsAreTheLearnt`, `LoadedWordsFit`, `TopWordsRank` |

Four more configurations, not in `PROJECT.json`, show a property violated; each is
explained under "What the runs found": `MCCheckpointsHadoop.cfg`,
`MCCheckpointsFirst.cfg` (both with `MCCheckpoints`), `MCModelFilesTotals.cfg`
(`MCModelFiles`) and `MCJobLeftover.cfg` (`MCJob`).

Bounds and why they suffice.

* Four jobs with limits of two: two handlers become consumers, a third thread
  queues a job, notifies, finds the queue full and helps; a consumer sleeps while a
  job is pushed. The second set of requests puts every operation beside the two steps of
  a remove. `OneTraffic` keeps the two sets apart. Every step and every branch of the
  handler is taken. Larger constants are covered by the proofs.
* Five words and a window of three: a pass is a full window and a partial one,
  so both ways of waiting occur, and messages of one pass reach into the next.
* The synchronization runs have one callback thread per client; `client` has two,
  as the code (`SizeMax=2`), and shows that two callbacks never work on the same
  word. With one topic change there is already a difference in every place it can
  be: local, sent, in the map, in an answer, half applied. Sampling only the
  first word costs nothing, as the tables of different words are independent; the
  other two keep the window busy. With three words round a window of two the
  hypothesis of `EntitiesAreExclusive` holds; `sync_small` is the case where it does not.
* Four topics and blocks of one are the smallest sizes at which `compact()`
  reallocates; runs of equal counts up to four long occur.
* Three documents round a ring of two: a buffer is used again while the document
  after it is still under way; two documents share each word, so updates meet at word
  locks and at n(t), and a copy of n(t) can be torn between two updates. Three
  iterations hand topics from one to the next twice, once through an iteration that
  only optimizes; in batches of two the optimizer passes a multiple of tau within the
  three documents, and what is left of a batch stays.
* Seven iterations with a checkpoint every three: two checkpoints, so that the
  second replaces one, and a last iteration without any. Four starts: a crash in a
  checkpoint, one in the checkpoint that meets what the first left behind, one
  more, or an incremental run. The newline's iteration is out of reach there and has
  a run of its own.
* Three machines: at a barrier one has passed, one waits and one has not come. Two
  attempts: everything a failed attempt leaves meets a second one; the third would
  start from the same states. More of both are covered by the proofs.
* The corpora have words on one, two and all machines, equal frequencies, numbers of
  words the machines do not divide, dictionaries of more than one batch, lines of stop
  words only, words the model does not know, and a last line without a newline.
* `MaxAttempts`, `MaxLost`, `MaxChanges`, `MaxCount` and
  `max_attempts`, `Iters` (which are flags of the code) bound what would be unbounded;
  each stands in the guard of the action it bounds.

Deadlock checking is off where the program really stops: learners that have
returned (`client`, `sync`), a learner that is done and not started again
(`checkpoints`), a pipeline or a job at its end, a model that is loaded.

## Fairness

* `DMServer!Fairness`: a dispatch thread that can go on does. There is no fairness
  of clients and none of spurious wakeups, so liveness may not rest on a later
  request or on luck.
* `DMClient!ClientFairness`: the synchronizer thread runs, and callback threads
  pick up answers. That every call is answered is `EveryJobAnswered` of the server.
* `GlobalSync!Fairness`: the same for both clients, and the map serves every
  call. The sampler is never forced to act. `EventuallyAgree` assumes that the
  iterations run on: after `set_all_iters_done` the pass under way may be past a word
  that has just changed, and the code does not send it.
* `Pipeline!FairSpec`: some step is taken while one is possible - TBB runs a filter
  that has a token. Weak fairness of `Next` as a whole is enough, because every step
  brings the iteration nearer its end; no filter needs to be favoured.
* `Job!Fairness`: a script that can go on does; Hadoop ends an attempt with a failed
  task; and a task that waits silently in the servers' barrier is failed in the end
  (`mapred.task.timeout`, `runLDA.sh:136`). A script that sleeps at a barrier of files
  prints as it does, so it is never silent: once a file is lost, nothing but a failure
  ends the job, and `JobEnds` says that this is the only such case. Failures themselves
  have no fairness, and
  so has no success. The output of `top -n 2000` (`LDA.sh`) may keep a waiting task
  alive, but for some 17 hours at most.

## What the runs found

* `DM_Client::wait_till_done` waits for the last message only, against
  `Client.h:67-68`. With a vocabulary smaller than `MAX_MSGS` this is not harmless
  (`sync_small`): the next pass reads a word whose answer is half applied, sends its
  difference twice, and a count drops below the learner's own tokens, which
  `TypeTopicCounts.cpp:503` answers with a FATAL. For 2 * MaxMsgs - 1 words or more
  `EntitiesAreExclusive` excludes it.
* The state of iteration 10 is read back as empty, because its first byte is a
  newline (`Local_Checkpointer.cpp:53`, `checkpoints_newline`). The default interval
  of 25 first meets such an iteration at 3850; intervals of 1, 2, 5 and 10 at 10.
* In streaming mode the printed topics are the random ones `read()` drew
  (`Unigram_Model_Streamer.cpp:103,121`, `pipeline_stream`): `test()` appends the
  topics it infers behind them, and `write()` prints the first ones.

Violations that are reproducible with the other configurations:

* Between `-rmr` and `-mv` of the assignments (`Hadoop_Checkpointer.cpp:49-54`) a
  crash leaves metadata without assignments: the restart makes random ones and goes
  on with the iteration after the checkpoint (`MCCheckpointsHadoop.cfg`,
  `CheckpointIsComplete`). The same two commands for the metadata lose the iteration
  instead, and a `.tmp` file that a crash left is not replaced by the next put but
  becomes the next checkpoint. The new copy is always there, though
  (`SomeCopyIsKept`), under the name the restart does not look for.
* A learner that dies in `initialize_topics` leaves a part of `lda.top`, which the
  next start takes for the whole (`MCCheckpointsFirst.cfg`, `FirstAssignmentsAreComplete`).
* Loading a dump adds every word's counts to n(t) and then the stored n(t) as well
  (`TypeTopicCounts.cpp:310,315`): the totals of a tester are those of all words plus
  those of the words it knows (`MCModelFilesTotals.cfg`, `TotalsAreTheDumped`). The
  validation that would tell is commented out (322-325).
* `LDA.sh:86` looks at the exit code of a command put in the background with `&`,
  which is always 0. If a server of a failed attempt survives, the new one cannot have
  its port, ends unnoticed, and learning goes on with the old counts and the old
  number of clients at the barrier (`MCJobLeftover.cfg`, `CountsAreComplete`).

Seen on the way and not given a run, because the models abstract from it or because
no text of the repository says otherwise:

* `DM_Server::remove` takes its lock for reading (`DM_Server.cpp:71`): two removes may
  both return the entry, and `erase` changes the bucket under a read lock (no code of
  the repository calls `remove` concurrently).
* `wait_till_done` ends a pass with messages under way for any vocabulary.
* If `end_putNget` throws (`DM_Client.h:128`), the status of the message is never set:
  the synchronizer thread comes to wait for it for ever, and `pthread_join` with it.
  `NoLostWakeup` and `SynchronizerReturns` say that it sleeps for ever on nothing else.
* The put of a barrier's file is not checked (`functions.sh:7`): if it fails, all tasks
  wait without end (`BarrierBroken` in `Job`). Nor is that of a learner's output
  (`LDA.sh:108`); the merge of the dictionaries, a barrier later, fails then.
* The formatter drops a last line without a newline (`DocumentLines` in `ModelFiles`).
* For a single dump the streaming builder counts how many words fit in the order of
  frequencies, but loads those with the first indexes; so `LoadedWordsFit` speaks of
  several dumps only.
* The optimizer and the evaluator share alpha without a lock
  (`Unigram_Model_Trainer.cpp:416`), samplers the index of the random generator (238).
  Online mode takes topic 0 off for each word, whatever its topic (244).
* `read()` does not look at whether the topics of a document could be read
  (`Unigram_Model_Trainer.cpp:136`); a first iteration that optimizes in online mode
  would write documents without topics (`Training_Execution_Strategy.cpp:60`).
* When the probabilities underflow, the tester leaves an ordinal where a topic should
  be (`Unigram_Model_Tester.cpp:246`) and the sampler an index of -1
  (`sampler.cpp:105`).

## Proofs

Eight modules hold theorems, checked by TLAPS for every value of the constants that
satisfies the named assumptions (`ServerAssumption`, `PoolAssumption`,
`BarrierAssumption`, `ClientAssumption`, `SyncAssumption`, `CheckpointAssumption`,
`JobAssumption`, `PipelineAssumption`, `TopicCountsAssumption`,
`ModelFilesAssumption`). They ask for finite sets
of threads, clients, words, topics and machines, for limits above zero, for topics
numbered from 1 where there are totals of them, and for blocks of a word's counts that
are not longer than the first (`SUBSEQ_ALLOCS <= INIT_TC_SIZE`, where the code says half,
`TopicCounts.cpp:217`: with longer ones `compact()` would cut off items).

* `DMServerProofs`: `TypeCorrect`, `NoJobIsStranded`, `QueueNeverFull`,
  `EachJobOnceCorrect`, `ServerImplementsMap`. None is inductive
  alone. The invariant `Inv` adds `Counters` (`_num_consumers` is the number of
  threads in a consumer's state and `_waiting_thrds` that of sleeping or just
  notified ones, as cardinalities) and `InHand` (what each thread holds in each
  state). A job is never stranded because a handler that queues one while somebody
  sleeps notifies, a handler that finds nobody counted as waiting leaves the job
  to a consumer that is awake, and a consumer sleeps only on an empty queue. `OnceInv`
  adds where each job is - with a handler, in the queue, in a consumer's chunk,
  answered - and that the places exclude each other. It is what the refinement needs:
  a job in none of these has not been combined, one that was is not combined again, so
  each step of the server is one of the map or a stutter.
* `JobProofs`, the barrier: `BarrierHolds`, `BarrierOpens`. The invariant relates the
  count to the set of waiting calls, and says that whoever waits has called once more
  than it was answered and that all clients are in the same round.
* `SumTheorems`: what a sum over a finite set becomes when one summand changes, that
  sums add, and how a sum relates to one summand. The induction is over the strict
  subsets of a finite set, a well-founded order (`SubsetInduction`), as the library's
  induction rules take operators.
* `GlobalSyncProofs`, the window: `SlotsCorrect`, `NoWakeupIsLost`, `EntitiesAreExclusive`,
  theorems of `DMClient` whatever its messages carry. `ClientInv`
  follows one client (a step never changes another, `OneClientSteps`): where the
  thread can be (`Position`), that a slot is false exactly while one message has
  it (`SlotStatus`), that a message is in one place, and that a sleeper's slot is
  false. `PlacedInv` says which word a message under way has: slot by slot, that of
  this window or of the one before. `EntitiesAreExclusive` follows by arithmetic,
  under `NumEntities >= 2 * MaxMsgs - 1`.
* `GlobalSyncProofs`, the composition: `LearnersUseTheWindow`, `NoTokenIsLost`,
  `InitialCountsAreComplete`, `OldTopicIsFound`. `LearnersUseTheWindow` says that each
  step of the composition is one of the window or leaves it alone, so the
  theorems of the window hold here. `SyncInv` is inductive: types; `LinksInv`
  (where the helper is in `synchronize()`, given where the window's thread is); the
  barrier (`Met`: who has arrived and left); `CallsInFlight` (the calls and answers of
  the map are the messages in flight); `TokensConserved`; and `Quiet` (before topics
  first change only initial counts and zeros travel). `OldTopicIsFound` adds
  `Announced`, what a learner has told of its own tokens or is about to tell: the
  entry of the map is never below it, so neither is an answer, and the callback
  leaves the count at least at the learner's own tokens. This needs that a word has
  one message under way, hence `NumEntities >= 2 * MaxMsgs - 1`; `sync_small` shows that
  without it the theorem is false.
* `TopicCountsProofs`: `TableIsWellFormed`, `PointerFollows`, `CountsAreTokens`. The
  invariant is one relation, `Holds(q, f)`: the array is sorted, has each topic once, and
  counts what f says and nothing else; with it that the array fits and that the pointer
  of an update under way is what a search would find. Each operation has a lemma saying
  which counts its result holds. `increment` and `decrement` move an item within
  its run of equal counts (`Fits`, found by `FirstAtMost`); an item that is removed had
  the least count, so the last item may take its place; `compact()` leaves room. The
  loop of `upd_count(delta)` has its own invariant (`LoopedAs`: items before `ind` have the
  new counts, the others the old ones, and the delta has what is still needed), by
  induction over the recursive function that models it, and what `std::sort` leaves is
  only known to be sorted.
* `CheckpointsProofs`: `MetadataIsBacked`, `AllIterationsAreDone`, `ProgressIsKept`,
  `ReworkBounded` for one machine, `SomeCopyIsKept` for HDFS. `lda.chk` does not say how
  far the
  assignments are, so `LocalInv` adds at every place of the loop what the count owes to
  them: `ReaderInv` that the trainer reads what is on disk, `LoopInv` that this, or
  the output about to replace it, covers the iterations counted. They speak of
  assignments that were complete once; the incomplete first ones above are the other
  case. `CopyInv` adds to `SomeCopyRemains` that there is something to put, and that it
  is put before the old copy goes and before the metadata's turn.
  `ReworkBounded` has a hypothesis, `StatesAreRead`: no iteration that is saved has a
  newline as its low byte, or a restart after it starts over (`checkpoints_newline`). The
  default interval meets it up to iteration 3849, interval 3 up to 65. `ReworkInv` keeps the
  assignments within an interval of `lda.chk` for every start, and the loop between two
  saves.
* `JobProofs`, the job: `ScriptBarriersHold`, `ServersOutlive`, `SuccessComplete`
  whether or not
  servers are left over, `LearnersMeet` and `CountsComplete` under `~Leftovers`. A
  task's place in the script says little of the other tasks; the invariant adds it:
  `Marked` (a task past a barrier has left its file, and nobody has one at a barrier it
  has not reached), `Served` (past the start the server runs, unless the attempt is
  lost), `Delivered` (whose dictionary and part exist, and that, once task 0 is past
  the merge, all outputs do and are in the merged dictionary: a put of an output may
  have failed before), and for the second pair
  `StoredOnce` (a server that runs was sent a partition's counts once or not yet, as the
  partition's place says) and `Met` (the barrier of a server that runs counts the calls
  of this attempt only). A full barrier then
  means that all have reached it, by cardinality.
* `PipelineProofs`: `RingExclusive`, `WordsKept`, `CountsFollow`, `TotalsCover`,
  `SweepImplemented`, `BatchesComplete`, for any corpus, ring, mode and number of
  iterations (`WordsKept` and `SweepImplemented`: but streaming, where `read()` appends
  topics to those of the file; the counts only change in training). `RingInv`
  says that the documents in the
  pipeline are the last ones read, a run without gaps since the serial writer is the
  last filter, no more than the ring is long, and that document k lies in the buffer
  as far behind the reader as it is behind the last one read; so two never share one.
  `FilesInv` says that the files of topics have one record per document in their
  order, without words and with as many topics, so that the merge by position gives
  each document its own. `TopicsInv` says where the topics of a document are: in the
  file read until the sampler or tester is done with it, then in its buffer, then in
  the file written. `ChangesInv` says that the changes on its token lead from the
  old of these to the new and how far the updater has come. With them `TableInv`,
  the table of the counts, is inductive: a step changes the topic one
  word is counted under, or none (`Tally`), and the sums with it; and since the old
  topic is still counted when the updater takes it off, no update aborts. `CopiesInv`
  says of each topic whose total the sampler has copied that the copy covers the
  document: other
  documents' updates move the totals, but never below what this document holds.
  `SweepImplemented` reads off `View` which topics each step leaves to each document.
  `BatchesComplete` relates the documents in the gradients to
  the optimizer's index modulo tau.

* `ModelFilesProofs`: `GlobalDictionaryRight`, `TopWordsAreRanked`, `LoadedAsLearnt` and
  `StreamFits`, for any corpora.
  The first rests on the theorems of the dictionary's operations: `InsertWordCounts`,
  `FormatCounts`,
  `DumpCountsTheWords`, `MergeAddsUp`, `DictionariesAddUp`, `LoadedAsDumped`. A
  dictionary is told by what it counts, `Lists(d, f)`: the two maps are inverse, the
  indexes have no gaps, the array is by index and counts `f`. A word that is inserted or
  an entry that is merged counts one word more often (`More`); after sorting the array
  is in another order and `Of(d, f)` still holds; a file's records, however many entries
  fill one, read back as the entries in the order written. The operations are folds,
  and the installed induction rules take operators, so each fold is unfolded by the
  recursion that defines it: `FoldExists` shows once for all of them that it has a
  solution, `FoldUnfolds` follows it from one place of the sequence to the next.
  The second needs that the learner has a count of each word of machine 1's dictionary,
  of which `get_eval()` makes the lists: the documents a formatter writes name every word
  of its dictionary (`FormatNames`; later words change no index), so `Learn` counts them
  all. Of the lists, `Ranks` says what a push preserves whichever smallest entry it
  replaces: a list has the greatest entries counted so far, and no room for the others;
  an entry without a count, of the first pass, is replaced before any other
  (`TopWordsRanked`). `FilesInv` adds to `GlobalDictionaryIsRight` that each machine's
  dictionary is empty or, with its documents, what its formatter makes of its lines,
  that none is empty after `Learn`, that the last likelihood has counts of every word,
  and
  that the lists kept are what the pushes make of emptied lists and these counts.
  The last two need a second invariant on top of it, `LoadInv`: after `Learn` the counts
  are of just the words of the corpus (`LearntAll`); every part's dump has the counts of
  its words (`AllDumped`; `PartsAdjoin`: the parts cover the dictionary without gap or
  overlap, the last takes the remainder); and while parts are loaded the table has the
  counts of all the tester's words with an index, in the dumps' dictionary, below the end
  of the last part loaded, at the tester's own indexes (`TableLoaded`, preserved by the
  fold over a part's records: `PartLoaded`). A record goes to one index only because both
  dictionaries give an index to one word (`KnownWords`). That the tester knows no word the
  model does not have is why no count is left at zero. For the test documents,
  `FormatSpells` follows the formatter word by word: a document's body has the indexes of
  the words of its line that count, in their order, and later lines change no index
  (`Keeps`). For a stream, `FittingWords` shows that the number of prefixes of a dump
  that fit is
  the length of the longest, as memory only grows with the words. `DumpFits` and
  `DumpsFit` carry this from dump to dump (`SumBeside`: the memory of a part adds to that
  of the parts before): the words counted are the first ones of the whole dictionary, they
  fit, and the next one would not. The builder takes just
  these words (`FittingTaken`), and the table's sum, by the tester's indexes from 0, is
  that of the words in the dumps' order (`SumFromZero`).

`ClientTypeCorrect`, `CheckpointTypeCorrect` and `BarrierOpens` state what no run
needs to repeat.

Only model-checked: all liveness, and with it fairness and ENABLED (beyond the prover).
Every invariant of the passing runs is stated by a theorem.

## Not modelled, and why

* Arithmetic on real numbers: the sampler's and the tester's masses, the Dirichlet
  parameters and their optimization, likelihoods. Where they decide something, the
  models choose freely.
* Most of the generated code of protobuf and all of Ice's (about a third of the repository's
  lines): delegates, streams, accessors, descriptors, the messages of parameters and of
  unigram counts. What the program does through protobuf - the merging and clearing of
  documents, dictionary records - is modelled. The same holds for the
  headers that are documentation, for licence headers, logging, printing and
  destructors. These together are why the map cannot name much more of the sources'
  lines: what it leaves out is generated, numeric, or sets up the parts once
  before any of them runs.
* The alignment of a word's counts to blocks in the estimate of what fits in memory.
* Splitting of lines, lower case, urls, records cut short (`DocumentReader.h`), and the
  checks of the headers' versions: files are of the right version and whole.
* Connecting to servers, several servers: `get_server` fixes one server per word, so
  each word lives on one server; the window is shared, and answers in any order
  cover several servers.
* `LDA.sh` when testing, which has no barrier of counts, and the formatting job.
* `TopicCounts::replace` (which adds the first item again and again beyond
  `origLength`, `TopicCounts.cpp:433`) and `findAndDecrement` have no caller;
  `TopKList` keeps statistics nobody prints; `eff_small_map` is not used.

## Plan

Done: the map and its server, the window, the barrier, the synchronization, the
packed counts, iterations and checkpoints, the pipeline with trainer, tester and
streamer, the dictionaries and the files of a model, the job; the invariants of server,
barrier, window, synchronization, packed counts, checkpoints, pipeline, job and the
files of a model proved, and both refinements. What is left is liveness, and the totals
of a loaded model once the code settles which sum they are.
