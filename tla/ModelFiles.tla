------------------------------ MODULE ModelFiles ------------------------------
(***************************************************************************)
(* The way of a model from the corpus through its files to the learner     *)
(* that tests with it.  Each machine's formatter makes a dictionary, the   *)
(* learners count the topics of its words, and a part of the counts is     *)
(* dumped on each machine: one machine dumps its table in the order of its *)
(* own dictionary, several merge their dictionaries (Merge_Dictionaries),  *)
(* cut the merged one into parts and fetch the words' counts from the      *)
(* servers by name (Merge_Topic_Counts).  The tester has a dictionary of   *)
(* its own, and puts the dumps together under its own indexes.             *)
(***************************************************************************)
EXTENDS Formatter

CONSTANTS
  Corpora,     \* each a corpus: the lines of every machine
  TestCorpus,  \* the lines to be tested
  num_topics,
  Modes,       \* subset of test and stream
  MaxMemory,   \* 0.9 * maxmemory, in items of a word's counts
  NUM_WORDS_PER_TOP

\* A corpus is a sequence of machines' sequences of lines of words.
IsList(s) == Len(s) \in Nat /\ DOMAIN s = 1..Len(s)

IsLines(lines) == IsList(lines) /\ \A n \in DOMAIN lines : IsList(lines[n].words)

IsCorpus(machines) ==
  IsList(machines) /\ Len(machines) > 0 /\ \A m \in DOMAIN machines : IsLines(machines[m])

ASSUME ModelFilesAssumption ==
  /\ num_topics \in Nat \ {0} /\ Modes \subseteq {"test", "stream"}
  /\ MaxMemory \in Nat /\ NUM_WORDS_PER_TOP \in Nat \ {0}
  /\ \A machines \in Corpora : IsCorpus(machines)
  /\ IsLines(TestCorpus)

VARIABLES
  corpus, mode,
  pc,
  dict,          \* per machine: its formatter's dictionary
  input_w,       \* per machine: the documents its formatter has written
  counts,        \* topic counts of every word, in the servers or the learner
  evaluated,     \* the counts at the last likelihood
  top_words,     \* per topic: its list of words
  top_words_empty,  \* no likelihood yet
  global_dict,   \* the dictionary the dumps are in the order of
  dump,          \* per part: what dump() has written
  local_dict,    \* the tester's dictionary
  test_w,        \* the documents to be tested
  wt, tokens_per_topic,  \* the tester's table
  loaded         \* parts that are in it

statistics == <<evaluated, top_words, top_words_empty>>
trainVars == <<counts, statistics>>
tableVars == <<wt, tokens_per_topic, loaded>>
modelFiles == <<global_dict, dump>>
formatVars == <<corpus, mode, dict, input_w>>
testVars == <<local_dict, test_w>>
vars == <<formatVars, pc, trainVars, modelFiles, testVars, tableVars>>

Topics == 1..num_topics
Machines == DOMAIN corpus
numdumps == Cardinality(Machines)
Zero == [t \in Topics |-> 0]
Plus(m, n) == [t \in Topics |-> m[t] + n[t]]
Total(table) == [t \in Topics |-> FoldFunction(+, 0, [w \in DOMAIN table |-> table[w][t]])]

\* The places of the documents that have been written, and the word each has by
\* its machine's dictionary.
FormattedPlaces ==
  UNION {UNION {{<<m, n, i>> : i \in DOMAIN BodyOf(input_w[m], n)} :
                  n \in DOMAIN input_w[m]} : m \in Machines}

FormattedWord(p) == dict[p[1]].ind_word_map[BodyOf(input_w[p[1]], p[2])[p[3]]]

Frequency(w) == Cardinality({p \in FormattedPlaces : FormattedWord(p) = w})

\* Every way to spread the occurrences of the words over the topics.
Countings ==
  LET words == {FormattedWord(p) : p \in FormattedPlaces}
      spread(n) == {c \in [Topics -> 0..n] : FoldFunction(+, 0, c) = n} IN
  {f \in [words -> UNION {spread(Frequency(w)) : w \in words}] :
     \A w \in words : f[w] \in spread(Frequency(w))}

Init ==
  /\ corpus \in Corpora /\ mode \in Modes
  /\ pc = "format"
  /\ dict = [m \in Machines |-> Empty] /\ input_w = [m \in Machines |-> <<>>]
  /\ counts = <<>> /\ evaluated = <<>>
  /\ top_words = [t \in Topics |-> {}] /\ top_words_empty = TRUE
  /\ global_dict = Empty
  /\ dump = <<>>
  /\ local_dict = Empty /\ test_w = <<>>
  /\ wt = <<>> /\ tokens_per_topic = Zero /\ loaded = 0

-----------------------------------------------------------------------------
\* The formatter of a machine (which has found a word, as every corpus here has).
Format(m) ==
  /\ pc = "format" /\ dict[m] = Empty
  /\ LET formatted == format(corpus[m], {}) IN
     /\ dict' = [dict EXCEPT ![m] = formatted.dict]
     /\ input_w' = [input_w EXCEPT ![m] = formatted.output_w]
  /\ UNCHANGED <<corpus, mode, pc, trainVars, modelFiles, testVars, tableVars>>

(***************************************************************************)
(* GenericTopKList: while the list is full, a new entry replaces a         *)
(* smallest one if it is greater.  An entry is a word and its count; the   *)
(* probability grows with it.                                              *)
(***************************************************************************)
Push(lists, entry) ==
  UNION {IF Cardinality(list) < NUM_WORDS_PER_TOP
         THEN {list \cup {entry}}
         ELSE {IF entry.n > least.n THEN (list \ {least}) \cup {entry} ELSE list :
                 least \in {e \in list : \A f \in list : e.n <= f.n}} :
         list \in lists}

\* A word that is not in the topic has no count to be pushed.
PushCounted(lists, entry) == IF entry.n > 0 THEN Push(lists, entry) ELSE lists

\* Fault: the entries of the last likelihood stay.
NotCleared(list) == list

Cleared(list) == {}

\* A topic's list, which the model keeps, is emptied; then every word is pushed
\* without its count and those that have one with it.
TopWords(list, d, table, t) ==
  LET words == [i \in 1..num_words(d) |-> d.ind_word_map[i - 1]]
      smooth == [i \in DOMAIN words |-> [word |-> words[i], n |-> 0]]
      counted == [i \in DOMAIN words |-> [word |-> words[i], n |-> table[words[i]][t]]] IN
  FoldLeft(PushCounted, FoldLeft(Push, {Cleared(list)}, smooth), counted)

get_eval(table) ==
  /\ evaluated' = table /\ top_words_empty' = FALSE
  /\ LET lists == [t \in Topics |-> TopWords(top_words[t], dict[1], table, t)] IN
     top_words' \in {f \in [Topics -> UNION Range(lists)] : \A t \in Topics : f[t] \in lists[t]}

(***************************************************************************)
(* The iterations, abstracted to the counts they end with and those that   *)
(* likelihoods are computed of (training itself: Pipeline, GlobalSync).    *)
(***************************************************************************)
AllFormatted == \A m \in Machines : dict[m] # Empty

Evaluate ==
  /\ pc = "format" /\ AllFormatted
  /\ \E table \in Countings : get_eval(table)
  /\ UNCHANGED <<formatVars, pc, counts, modelFiles, testVars, tableVars>>

Learn ==
  /\ pc = "format" /\ AllFormatted
  /\ pc' = "learnt"
  /\ counts' \in Countings
  /\ UNCHANGED <<formatVars, statistics, modelFiles, testVars, tableVars>>

\* write_statistics() prints the lists as the last likelihood has left them.
WriteStatistics ==
  /\ pc = "learnt"
  /\ pc' = "written"
  /\ IF top_words_empty THEN get_eval(counts) ELSE UNCHANGED statistics
  /\ UNCHANGED <<formatVars, counts, modelFiles, testVars, tableVars>>

-----------------------------------------------------------------------------
\* dump() of a table: a header, the counts of the words, and n(t) at the end.
Dumped(table) ==
  LET num == Cardinality(DOMAIN table) IN
  <<Header(num)>> \o [n \in 1..num |-> [cnt_topics |-> table[n - 1]]]
                  \o <<[topic_counts |-> Total(table)]>>

\* The counts of the words with indexes from..to - 1, at the indexes of the part.
Table(d, from, to) == [k \in 0..to - from - 1 |-> counts[d.ind_word_map[from + k]]]

\* A single machine saves its table and keeps its dictionary.
Save ==
  /\ pc = "written" /\ numdumps = 1
  /\ pc' = "saved"
  /\ \E file \in Dumps(dict[1]) :
       global_dict' = initialize_from_dump(file, num_words(dict[1]))
  /\ dump' = <<Dumped(Table(global_dict', 0, num_words(global_dict')))>>
  /\ UNCHANGED <<formatVars, trainVars, testVars, tableVars>>

\* Merge_Dictionaries on one of several machines.
Merge ==
  /\ pc = "written" /\ numdumps > 1
  /\ pc' = "merged"
  /\ \E merged \in initialize_from_dumps([m \in Machines |-> Dumps(dict[m])]) :
       \E file \in Dumps(merged) :
         global_dict' = initialize_from_dump(file, num_words(merged))
  /\ UNCHANGED <<formatVars, trainVars, dump, testVars, tableVars>>

num_words_per_client == num_words(global_dict) \div numdumps

Offset(part) == (part - 1) * num_words_per_client

\* Fault: the last client takes no more words than the others.
EqualEnd(part) == Offset(part) + num_words_per_client

\* The last client's part takes the remainder.
End(part) == IF part < numdumps THEN Offset(part) + num_words_per_client
                                ELSE num_words(global_dict)

\* Merge_Topic_Counts on every machine.
GetCounts ==
  /\ pc = "merged"
  /\ pc' = "saved"
  /\ dump' = [part \in Machines |-> Dumped(Table(global_dict, Offset(part), End(part)))]
  /\ UNCHANGED <<formatVars, trainVars, global_dict, testVars, tableVars>>

-----------------------------------------------------------------------------
NewTable ==
  /\ wt' = [i \in 0..num_words(local_dict') - 1 |-> Zero]
  /\ tokens_per_topic' = Zero /\ loaded' = 0

\* The formatter in test mode: words the model does not know are left out.
FormatTest ==
  /\ pc = "saved" /\ mode = "test"
  /\ pc' = "load"
  /\ LET words == UNION {Range(line.words) : line \in Range(TestCorpus)}
         formatted == format(TestCorpus, {w \in words : ~Has(global_dict, w)}) IN
     /\ local_dict' = formatted.dict
     /\ test_w' = formatted.output_w
  /\ NewTable
  /\ UNCHANGED <<formatVars, trainVars, modelFiles>>

Length(c) == Cardinality({t \in Topics : c[t] > 0})

\* The memory that the first n words take, by their lengths.
Used(lengths, n) == SumFunctionOnSet(lengths, 1..n)

\* estimate_fit(): how many of the words, in this order, fit beside what is used.
Fit(lengths, used_memory) ==
  Cardinality({n \in DOMAIN lengths : used_memory + Used(lengths, n) < MaxMemory})

incoming_words(part) == Head(dump[part]).num_words

RecordLength(part, k) == Length(dump[part][k + 2].cnt_topics)

\* A single dump's records in the order of the words' frequencies.
SortedLengths(sorted) ==
  [i \in 1..incoming_words(1) |->
     RecordLength(1, global_dict.word_ind_map[sorted.ind_word_map[i - 1]])]

PartLengths(part) == [i \in 1..incoming_words(part) |-> RecordLength(part, i - 1)]

\* Fault: every dump is given the whole memory.
AddDumpAlone(fit, part) ==
  IF fit.full THEN fit
  ELSE LET n == Fit(PartLengths(part), 0) IN
       [num_words |-> fit.num_words + n, used_mem |-> Used(PartLengths(part), n),
        full |-> n < incoming_words(part)]

\* init_dict(): one dump more, until one does not fit as a whole.
AddDump(fit, part) ==
  IF fit.full THEN fit
  ELSE LET n == Fit(PartLengths(part), fit.used_mem) IN
       [num_words |-> fit.num_words + n,
        used_mem |-> fit.used_mem + Used(PartLengths(part), n),
        full |-> n < incoming_words(part)]

FitInDumps ==
  FoldLeft(AddDump, [num_words |-> 0, used_mem |-> 0, full |-> FALSE],
           [part \in Machines |-> part]).num_words

(***************************************************************************)
(* The streaming builder's dictionary: the words of the dumps that fit, in *)
(* the dumps' order if there are several.  For a single dump, how many fit *)
(* is found in the order of their frequencies.                             *)
(***************************************************************************)
InitDict ==
  /\ pc = "saved" /\ mode = "stream"
  /\ pc' = "load"
  /\ \E file \in Dumps(global_dict) :
       IF numdumps = 1
       THEN \E sorted \in sort_on_freq(global_dict) :
              local_dict' \in sort_on_freq(
                initialize_from_dump(file, Fit(SortedLengths(sorted), 0)))
       ELSE local_dict' = initialize_from_dump(file, FitInDumps)
  /\ NewTable
  /\ UNCHANGED <<formatVars, trainVars, modelFiles, test_w>>

(***************************************************************************)
(* initialize_from_dump() of the table, of one part: as many records as    *)
(* the header says are counts of words.  Those of the words the tester     *)
(* knows go to its own indexes and are added to the totals, and so are the *)
(* totals in the record after them.                                        *)
(***************************************************************************)
\* Record k of the part, from 0.
LoadRecord(part, table, k) ==
  LET record == dump[part][k + 2]
      word == global_dict.ind_word_map[k + Offset(part)] IN
  IF k >= incoming_words(part)
  THEN [table EXCEPT !.totals = Plus(@, record.topic_counts)]
  ELSE IF ~Has(local_dict, word) THEN table
  ELSE [table EXCEPT !.counts[local_dict.word_ind_map[word]] = record.cnt_topics,
                     !.totals = Plus(@, record.cnt_topics)]

Load(part) ==
  LET records == [n \in 1..Len(dump[part]) - 1 |-> n - 1]
      table == FoldLeft(LAMBDA t, k : LoadRecord(part, t, k),
                        [counts |-> wt, totals |-> tokens_per_topic], records) IN
  /\ pc = "load" /\ part = loaded + 1
  /\ loaded' = part
  /\ wt' = table.counts /\ tokens_per_topic' = table.totals
  /\ pc' = IF part < numdumps THEN pc ELSE "ready"
  /\ UNCHANGED <<formatVars, trainVars, modelFiles, testVars>>

Next ==
  \/ \E m \in Machines : Format(m)
  \/ Evaluate \/ Learn \/ WriteStatistics \/ Save \/ Merge \/ GetCounts
  \/ FormatTest \/ InitDict
  \/ \E part \in Machines : Load(part)

Spec == Init /\ [][Next]_vars

-----------------------------------------------------------------------------
\* The places of the corpus that have a word to be counted: each is a machine,
\* a line of its file and a position in the line.
WordAt(place) == corpus[place[1]][place[2]].words[place[3]]

PlacesOf(m) ==
  UNION {{<<m, n, i>> : i \in DOMAIN corpus[m][n].words} : n \in DOMAIN corpus[m]}

IsCounted(place) ==
  corpus[place[1]][place[2]].newline /\ WordAt(place) \notin Stopwords

CorpusPlaces == {p \in UNION {PlacesOf(m) : m \in Machines} : IsCounted(p)}

FrequencyAt(places) ==
  [w \in {WordAt(p) : p \in places} |-> Cardinality({p \in places : WordAt(p) = w})]

(***************************************************************************)
(* The dictionary of the dumps has every word of the corpus, under one     *)
(* index, with its frequency over all machines; a merged one is sorted, so *)
(* that leaving out the last words leaves out the rarest.                  *)
(***************************************************************************)
GlobalDictionaryIsRight ==
  global_dict # Empty =>
    /\ IsDictionaryOf(global_dict, FrequencyAt(CorpusPlaces))
    /\ numdumps > 1 => IsByFrequency(global_dict)

\* The words that count in a line, and the lines that are documents.
AddCounting(seq, w, words) == IF w \in words THEN Append(seq, w) ELSE seq

Counting(line, words) ==
  FoldLeft(LAMBDA seq, w : AddCounting(seq, w, words), <<>>, line.words)

AddDocument(seq, line, words) ==
  IF line.newline /\ Counting(line, words) # <<>> THEN Append(seq, line) ELSE seq

DocumentLines(lines, words) ==
  FoldLeft(LAMBDA seq, line : AddDocument(seq, line, words), <<>>, lines)

(***************************************************************************)
(* A model that is ready has for every word of its own dictionary exactly  *)
(* the counts it was learnt with, through two changes of indexes and the   *)
(* cut into parts; and the documents to be tested, which another formatter *)
(* run has made, name each of their words by the index of its counts.      *)
(***************************************************************************)
LoadedCountsAreTheLearnt ==
  pc = "ready" =>
    /\ IsDictionaryOf(local_dict, [w \in DOMAIN local_dict.word_ind_map |->
                                     Freq(local_dict, local_dict.word_ind_map[w])])
    /\ \A w \in DOMAIN local_dict.word_ind_map :
         wt[local_dict.word_ind_map[w]] = counts[w]
    /\ mode = "test" =>
         LET lines == DocumentLines(TestCorpus, DOMAIN counts)
             words(n) == Counting(lines[n], DOMAIN counts) IN
         /\ DOMAIN test_w = DOMAIN lines
         /\ \A n \in DOMAIN lines :
              /\ ReadRecord(test_w, n, Clear).docid = lines[n].docid
              /\ [i \in DOMAIN BodyOf(test_w, n) |-> wt[BodyOf(test_w, n)[i]]]
                 = [i \in DOMAIN words(n) |-> counts[words(n)[i]]]

(***************************************************************************)
(* A streaming learner that takes any words stays within the memory it was *)
(* given when it loads a model made by several machines, and takes as many *)
(* as fit in the dumps' order: the memory used is carried from dump to     *)
(* dump, the loop ends with the first that does not fit, and the limit on  *)
(* the indexes has to agree.                                               *)
(***************************************************************************)
LoadedWordsFit ==
  pc = "ready" /\ mode = "stream" /\ numdumps > 1 =>
    LET used == SumFunction([i \in DOMAIN wt |-> Length(wt[i])])
        next == num_words(local_dict) IN
    /\ DOMAIN wt # {} => used < MaxMemory
    /\ next < num_words(global_dict) =>
         used + Length(counts[global_dict.ind_word_map[next]]) >= MaxMemory

(***************************************************************************)
(* The words printed for a topic are those most often in it: as many as    *)
(* the list is long or the topic has, with no word left out that has more. *)
(***************************************************************************)
TopWordsRank ==
  pc = "written" => \A t \in Topics :
    LET has == {w \in DOMAIN dict[1].word_ind_map : evaluated[w][t] > 0}
        printed == {e \in top_words[t] : e.n > 0} IN
    /\ Cardinality(printed) = Min({Cardinality(has), NUM_WORDS_PER_TOP})
    /\ \A e \in printed : e.n = evaluated[e.word][t] /\ e.word \in has
    /\ \A w \in has \ {e.word : e \in printed} : \A e \in printed :
         evaluated[w][t] <= e.n

(***************************************************************************)
(* The totals of a loaded model are those it was dumped with: "There will  *)
(* be num_words entries in the dump for topicCounts and the last entry is  *)
(* the n(t)" (TypeTopicCounts.cpp:256-257).                                *)
(***************************************************************************)
TotalsAreTheDumped ==
  pc = "ready" => tokens_per_topic = Total(counts)
=============================================================================
