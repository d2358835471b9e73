------------------------ MODULE WordIndexDictionary ------------------------
(***************************************************************************)
(* The dictionary (commons/WordIndexDictionary.cpp): two maps between      *)
(* words and indexes, and the array of frequencies, whose entries also     *)
(* name the index a word had before the array was sorted.  Operations are  *)
(* operators from dictionaries to dictionaries; what std::sort or the      *)
(* order of a hash map leaves open makes their value a set.                *)
(***************************************************************************)
EXTENDS Integers, Sequences, FiniteSets, SequencesExt

CONSTANT BATCH   \* words in a record of a dictionary's file: 1000

Empty == [word_ind_map |-> <<>>, ind_word_map |-> <<>>, frequencies |-> <<>>,
          current_index |-> 0]

num_words(d) == Cardinality(DOMAIN d.word_ind_map)

Has(d, word) == word \in DOMAIN d.word_ind_map

Freq(d, index) == d.frequencies[index + 1].second

With(map, key, value) ==
  [k \in DOMAIN map \cup {key} |-> IF k \in DOMAIN map THEN map[k] ELSE value]

\* insert_word(word, index) of a word that is not there yet.
Bind(d, word, index) ==
  [d EXCEPT !.word_ind_map = With(@, word, index),
            !.ind_word_map = With(@, index, word)]

Counted(d, index, n) ==
  [d EXCEPT !.frequencies[index + 1].second = @ + n]

\* insert_word(word): a new word gets the next index, a known one is counted.
insert_word(d, word) ==
  IF Has(d, word)
  THEN Counted(d, d.word_ind_map[word], 1)
  ELSE [Bind(d, word, d.current_index) EXCEPT
          !.frequencies = Append(@, [first |-> d.current_index, second |-> 1]),
          !.current_index = @ + 1]

-----------------------------------------------------------------------------
(***************************************************************************)
(* Its file: a header with the number of words, then the words with their  *)
(* indexes and frequencies, BATCH at a time, as a record of three lists.   *)
(***************************************************************************)
Header(num) == [num_words |-> num]

verify_header(header) ==
  IF "num_words" \in DOMAIN header THEN header.num_words ELSE -1

\* word_ind_pair, and its record without the empty lists.
ClearPair == [word |-> <<>>, index |-> <<>>, frequency |-> <<>>]

SerializePair(wipair) ==
  [f \in {g \in DOMAIN ClearPair : wipair[g] # <<>>} |-> wipair[f]]

MergePair(wipair, record) ==
  [f \in DOMAIN ClearPair |-> IF f \in DOMAIN record THEN wipair[f] \o record[f]
                              ELSE wipair[f]]

Added(wipair, e) ==
  [word      |-> Append(wipair.word, e.word),
   index     |-> Append(wipair.index, e.index),
   frequency |-> Append(wipair.frequency, e.frequency)]

Entries(d) ==
  {[word |-> w, index |-> d.word_ind_map[w], frequency |-> Freq(d, d.word_ind_map[w])] :
     w \in DOMAIN d.word_ind_map}

\* i counts the words, records are those in the file.
NoBatch == [i |-> 0, records |-> <<>>, wipair |-> ClearPair]

WriteBatch(out) ==
  [out EXCEPT !.records = Append(@, SerializePair(out.wipair)), !.wipair = ClearPair]

\* A full record is written and cleared, and so is what is left at the end.
AddEntry(out, e) ==
  LET next == [out EXCEPT !.i = @ + 1, !.wipair = Added(@, e)] IN
  IF next.i % BATCH = 0 THEN WriteBatch(next) ELSE next

Batches(order) ==
  LET out == FoldLeft(AddEntry, NoBatch, order) IN
  IF out.wipair.word = <<>> THEN out.records ELSE WriteBatch(out).records

\* dump(): the files it may write, as the hash map has its words in any order.
Dumps(d) ==
  {<<Header(num_words(d))>> \o Batches(order) : order \in SetToSeqs(Entries(d))}

EntriesIn(record) ==
  LET wipair == MergePair(ClearPair, record) IN
  [i \in DOMAIN wipair.word |-> [word      |-> wipair.word[i],
                                 index     |-> wipair.index[i],
                                 frequency |-> wipair.frequency[i]]]

ReadPair(entries, record) == entries \o EntriesIn(record)

\* Record after record behind the header.
EntriesOf(file) == FoldLeft(ReadPair, <<>>, Tail(file))

\* initialize_from_dump(): the entries with an index below limit.
initialize_from_dump(file, limit) ==
  LET kept == {e \in Range(EntriesOf(file)) : e.index < limit}
      entry(i) == CHOOSE e \in kept : e.index = i IN
  [word_ind_map  |-> [w \in {e.word : e \in kept} |->
                        (CHOOSE e \in kept : e.word = w).index],
   ind_word_map  |-> [i \in {e.index : e \in kept} |-> entry(i).word],
   frequencies   |-> [n \in 1..Min({verify_header(file[1]), limit}) |->
                        [first |-> n - 1, second |-> entry(n - 1).frequency]],
   current_index |-> Max({-1} \cup {e.index : e \in kept}) + 1]

-----------------------------------------------------------------------------
\* The array of frequencies in the orders std::sort may leave it in.
SortedFrequencies(d) ==
  {f \in {[i \in DOMAIN d.frequencies |-> d.frequencies[p[i]]] :
            p \in Bijection(DOMAIN d.frequencies, DOMAIN d.frequencies)} :
     \A i, j \in DOMAIN f : i < j => f[i].second >= f[j].second}

\* Fault: the map from words to indexes is not brought up to date.
SortedHalfway(d, f) ==
  [d EXCEPT !.frequencies = f,
            !.ind_word_map = [i \in DOMAIN @ |-> d.ind_word_map[f[i + 1].first]]]

\* The words take the indexes their frequencies have got.
SortedWith(d, f) ==
  [d EXCEPT !.frequencies = f,
            !.word_ind_map = [w \in DOMAIN @ |->
               (CHOOSE i \in DOMAIN f : d.ind_word_map[f[i].first] = w) - 1],
            !.ind_word_map = [i \in DOMAIN @ |-> d.ind_word_map[f[i + 1].first]]]

sort_on_freq(d) == {SortedWith(d, f) : f \in SortedFrequencies(d)}

\* One entry of a dump: a new word takes the next index, frequencies add up.
MergeEntry(d, e) ==
  IF Has(d, e.word)
  THEN Counted(d, d.word_ind_map[e.word], e.frequency)
  ELSE LET index == Len(d.frequencies) IN
       [Bind(d, e.word, index) EXCEPT
          !.frequencies = Append(@, [first |-> index, second |-> e.frequency])]

\* The entries of a dump, into each of the dictionaries and from each of its files.
MergeFile(d, file) == FoldLeft(MergeEntry, d, EntriesOf(file))

MergeDump(ds, files) == {MergeFile(d, file) : d \in ds, file \in files}

\* initialize_from_dumps(): dump after dump, each a file it may be, then sorted.
initialize_from_dumps(dumps) ==
  UNION {sort_on_freq(d) : d \in FoldLeft(MergeDump, {Empty}, dumps)}

-----------------------------------------------------------------------------
(***************************************************************************)
(* The dictionary is one of words with these frequencies: the indexes run  *)
(* from 0 to the number of words without gaps, the two maps are inverse to *)
(* each other (match_word_index), and each index has its word's frequency. *)
(***************************************************************************)
IsDictionaryOf(d, freq) ==
  /\ DOMAIN d.word_ind_map = DOMAIN freq
  /\ DOMAIN d.ind_word_map = 0..num_words(d) - 1
  /\ \A w \in DOMAIN freq :
       /\ d.word_ind_map[w] \in DOMAIN d.ind_word_map
       /\ d.ind_word_map[d.word_ind_map[w]] = w
       /\ Freq(d, d.word_ind_map[w]) = freq[w]

IsByFrequency(d) ==
  \A i, j \in DOMAIN d.ind_word_map : i < j => Freq(d, i) >= Freq(d, j)
=============================================================================
