-------------------------- MODULE ModelFilesProofs --------------------------
(***************************************************************************)
(* Theorems of the dictionaries and the counts on their way through the    *)
(* model's files, and of the top words that are printed of a model, for    *)
(* any corpora, machines, topics, stop words and sizes of records, lists   *)
(* and the memory.                                                         *)
(*                                                                         *)
(* A dictionary is told by what it counts: Lists(d, f) says that d has the *)
(* words of f with these frequencies and an array by index, Of(d, f) the   *)
(* same of an array in any order.  Each operation has a lemma or a theorem *)
(* that says which f its result is of.  They are folds; each is unfolded   *)
(* by the recursion that defines it (Fold, FoldExists, FoldUnfolds) and    *)
(* followed from one place of its sequence to the next.                    *)
(***************************************************************************)
EXTENDS ModelFiles, SumTheorems

DictionaryFields ==
  {"word_ind_map", "ind_word_map", "frequencies", "current_index"}

Frequencies == [first : Nat, second : Int]

\* d has the words of f, counted f, and its array of frequencies is by index.
Lists(d, f) ==
  /\ DOMAIN d = DictionaryFields
  /\ IsFiniteSet(DOMAIN f) /\ \A w \in DOMAIN f : f[w] \in Int
  /\ IsDictionaryOf(d, f)
  /\ \A i \in DOMAIN d.ind_word_map :
       /\ d.ind_word_map[i] \in DOMAIN f
       /\ d.word_ind_map[d.ind_word_map[i]] = i
  /\ d.frequencies \in Seq(Frequencies)
  /\ Len(d.frequencies) = num_words(d)
  /\ \A n \in 1 .. Len(d.frequencies) : d.frequencies[n].first = n - 1

\* f with n more of the word w.
More(f, w, n) ==
  [v \in DOMAIN f \cup {w} |->
     (IF v \in DOMAIN f THEN f[v] ELSE 0) + (IF v = w THEN n ELSE 0)]

\* The parts of Lists, with the number of words named.
ListsAs(d, f, k) ==
  /\ k \in Nat /\ k = Cardinality(DOMAIN f) /\ num_words(d) = k
  /\ DOMAIN d.word_ind_map = DOMAIN f
  /\ DOMAIN d.ind_word_map = 0 .. k - 1
  /\ \A w \in DOMAIN f :
       /\ d.word_ind_map[w] \in 0 .. k - 1
       /\ d.ind_word_map[d.word_ind_map[w]] = w
       /\ d.frequencies[d.word_ind_map[w] + 1].second = f[w]
  /\ \A i \in 0 .. k - 1 :
       d.ind_word_map[i] \in DOMAIN f /\ d.word_ind_map[d.ind_word_map[i]] = i
  /\ d.frequencies \in Seq(Frequencies) /\ Len(d.frequencies) = k
  /\ \A n \in 1 .. k : d.frequencies[n].first = n - 1

LEMMA ListsParts ==
  ASSUME NEW d, NEW f
  PROVE  Lists(d, f) <=>
           /\ DOMAIN d = DictionaryFields
           /\ IsFiniteSet(DOMAIN f) /\ \A w \in DOMAIN f : f[w] \in Int
           /\ ListsAs(d, f, Cardinality(DOMAIN f))
<1>1. IsFiniteSet(DOMAIN f) => Cardinality(DOMAIN f) \in Nat
  BY FS_CardinalityType
<1>2. ASSUME Lists(d, f)
      PROVE  /\ DOMAIN d = DictionaryFields
             /\ IsFiniteSet(DOMAIN f) /\ \A w \in DOMAIN f : f[w] \in Int
             /\ ListsAs(d, f, Cardinality(DOMAIN f))
  BY <1>1, <1>2 DEF Lists, ListsAs, IsDictionaryOf, num_words,
     Freq
<1>3. ASSUME DOMAIN d = DictionaryFields, IsFiniteSet(DOMAIN f),
             \A w \in DOMAIN f : f[w] \in Int,
             ListsAs(d, f, Cardinality(DOMAIN f))
      PROVE  Lists(d, f)
  BY <1>1, <1>3 DEF Lists, ListsAs, IsDictionaryOf, num_words,
     Freq
<1> QED  BY <1>2, <1>3

LEMMA NoWords == Lists(Empty, <<>>)
<1>1. DOMAIN Empty = DictionaryFields
  BY DEF Empty, DictionaryFields
<1>2. DOMAIN <<>> = {} /\ IsFiniteSet(DOMAIN <<>>) /\ Cardinality(DOMAIN <<>>) = 0
  BY FS_EmptySet
<1>3. ListsAs(Empty, <<>>, 0)
  BY <1>2 DEF ListsAs, Empty, num_words, Frequencies
<1> QED  BY <1>1, <1>2, <1>3, ListsParts

\* What the operations on one word do to the parts of a dictionary.
Joins(e, d, w, n) ==
  LET k == num_words(d) IN
  /\ DOMAIN e = DictionaryFields
  /\ e.word_ind_map = With(d.word_ind_map, w, k)
  /\ e.ind_word_map = With(d.ind_word_map, k, w)
  /\ e.frequencies = Append(d.frequencies, [first |-> k, second |-> n])

Recounts(e, d, w, n) ==
  /\ DOMAIN e = DictionaryFields
  /\ e.word_ind_map = d.word_ind_map
  /\ e.ind_word_map = d.ind_word_map
  /\ e.frequencies = [d.frequencies EXCEPT ![d.word_ind_map[w] + 1].second = @ + n]

LEMMA JoinLists ==
  ASSUME NEW d, NEW f, NEW w, NEW n \in Int, NEW e,
         Lists(d, f), w \notin DOMAIN f, Joins(e, d, w, n)
  PROVE  Lists(e, More(f, w, n))
<1> SUFFICES ASSUME NEW g, g = More(f, w, n) PROVE Lists(e, g)
  OBVIOUS
<1>1. PICK k \in Nat : k = Cardinality(DOMAIN f)
  BY FS_CardinalityType DEF Lists
<1>2. ListsAs(d, f, k)
  BY <1>1, ListsParts
<1>3. /\ DOMAIN g = DOMAIN f \cup {w}
      /\ g[w] = n /\ \A v \in DOMAIN f : g[v] = f[v]
      /\ IsFiniteSet(DOMAIN g) /\ Cardinality(DOMAIN g) = k + 1
      /\ \A v \in DOMAIN g : g[v] \in Int
  <2>1. DOMAIN g = DOMAIN f \cup {w}
    BY DEF More
  <2>2. g[w] = n /\ \A v \in DOMAIN f : g[v] = f[v]
    BY DEF More, Lists
  <2>3. IsFiniteSet(DOMAIN g) /\ Cardinality(DOMAIN g) = k + 1
    BY <1>1, <2>1, FS_AddElement DEF Lists
  <2> QED  BY <2>1, <2>2, <2>3 DEF Lists
<1>4. /\ DOMAIN e.word_ind_map = DOMAIN f \cup {w}
      /\ e.word_ind_map[w] = k
      /\ \A v \in DOMAIN f : e.word_ind_map[v] = d.word_ind_map[v]
  BY <1>2 DEF Joins, ListsAs, With
<1>5. /\ DOMAIN e.ind_word_map = 0 .. k
      /\ e.ind_word_map[k] = w
      /\ \A i \in 0 .. k - 1 : e.ind_word_map[i] = d.ind_word_map[i]
  BY <1>2 DEF Joins, ListsAs, With
<1>6. /\ e.frequencies \in Seq(Frequencies) /\ Len(e.frequencies) = k + 1
      /\ e.frequencies[k + 1] = [first |-> k, second |-> n]
      /\ \A j \in 1 .. k : e.frequencies[j] = d.frequencies[j]
  <2>1. [first |-> k, second |-> n] \in Frequencies
    BY DEF Frequencies
  <2>2. d.frequencies \in Seq(Frequencies) /\ Len(d.frequencies) = k
    BY <1>2 DEF ListsAs
  <2>3. e.frequencies = Append(d.frequencies, [first |-> k, second |-> n])
    BY <1>2 DEF Joins, ListsAs
  <2> HIDE DEF Frequencies
  <2> QED  BY <2>1, <2>2, <2>3
<1>7. ListsAs(e, g, k + 1)
  <2>1. num_words(e) = k + 1
    BY <1>3, <1>4 DEF num_words
  <2>2. ASSUME NEW v \in DOMAIN g
        PROVE  /\ e.word_ind_map[v] \in 0 .. k
               /\ e.ind_word_map[e.word_ind_map[v]] = v
               /\ e.frequencies[e.word_ind_map[v] + 1].second = g[v]
    <3>1. CASE v = w
      BY <3>1, <1>3, <1>4, <1>5, <1>6
    <3>2. CASE v \in DOMAIN f
      <4>1. PICK i \in 0 .. k - 1 : i = d.word_ind_map[v]
        BY <3>2, <1>2 DEF ListsAs
      <4>2. e.word_ind_map[v] = i /\ e.ind_word_map[i] = v /\ g[v] = f[v]
        BY <3>2, <4>1, <1>2, <1>3, <1>4, <1>5 DEF ListsAs
      <4>3. i + 1 \in 1 .. k /\ d.frequencies[i + 1].second = f[v]
        <5>1. d.frequencies[d.word_ind_map[v] + 1].second = f[v]
          BY <3>2, <1>2 DEF ListsAs
        <5> QED  BY <4>1, <5>1
      <4> QED  BY <4>2, <4>3, <1>6
    <3> QED  BY <1>3, <3>1, <3>2
  <2>3. ASSUME NEW i \in 0 .. k
        PROVE  e.ind_word_map[i] \in DOMAIN g /\ e.word_ind_map[e.ind_word_map[i]] = i
    <3>1. CASE i = k
      BY <3>1, <1>3, <1>4, <1>5
    <3>2. CASE i \in 0 .. k - 1
      <4>1. PICK v \in DOMAIN f : v = d.ind_word_map[i]
        BY <3>2, <1>2 DEF ListsAs
      <4>2. d.word_ind_map[v] = i
        BY <3>2, <4>1, <1>2 DEF ListsAs
      <4> QED  BY <3>2, <4>1, <4>2, <1>3, <1>4, <1>5
    <3> QED  BY <3>1, <3>2
  <2>4. ASSUME NEW j \in 1 .. k + 1 PROVE e.frequencies[j].first = j - 1
    <3>1. CASE j = k + 1
      BY <3>1, <1>6
    <3>2. CASE j \in 1 .. k
      BY <3>2, <1>2, <1>6 DEF ListsAs
    <3> QED  BY <3>1, <3>2
  <2>5. k + 1 \in Nat /\ (k + 1) - 1 = k
    OBVIOUS
  <2> QED  BY <2>1, <2>2, <2>3, <2>4, <2>5, <1>3, <1>4, <1>5, <1>6 DEF ListsAs
<1>8. DOMAIN e = DictionaryFields
  BY DEF Joins
<1> QED  BY <1>3, <1>7, <1>8, ListsParts

LEMMA RecountLists ==
  ASSUME NEW d, NEW f, NEW w \in DOMAIN f, NEW n \in Int, NEW e,
         Lists(d, f), Recounts(e, d, w, n)
  PROVE  Lists(e, More(f, w, n))
<1> SUFFICES ASSUME NEW g, g = More(f, w, n) PROVE Lists(e, g)
  OBVIOUS
<1>1. PICK k \in Nat : k = Cardinality(DOMAIN f)
  BY FS_CardinalityType DEF Lists
<1>2. ListsAs(d, f, k)
  BY <1>1, ListsParts
<1>3. /\ DOMAIN g = DOMAIN f
      /\ g[w] = f[w] + n /\ \A v \in DOMAIN f \ {w} : g[v] = f[v]
      /\ \A v \in DOMAIN g : g[v] \in Int
  <2>1. DOMAIN f \cup {w} = DOMAIN f
    OBVIOUS
  <2>2. g = [v \in DOMAIN f |-> f[v] + (IF v = w THEN n ELSE 0)]
    BY <2>1 DEF More
  <2>3. \A v \in DOMAIN f : f[v] \in Int
    BY DEF Lists
  <2> QED  BY <2>2, <2>3
<1>4. PICK j \in 1 .. k : j = d.word_ind_map[w] + 1
  BY <1>2 DEF ListsAs
<1>5. /\ e.frequencies \in Seq(Frequencies) /\ Len(e.frequencies) = k
      /\ e.frequencies[j].second = f[w] + n
      /\ \A m \in 1 .. k : e.frequencies[m].first = d.frequencies[m].first
      /\ \A m \in (1 .. k) \ {j} : e.frequencies[m] = d.frequencies[m]
  <2>1. PICK x \in Frequencies : x = d.frequencies[j]
    BY <1>2 DEF ListsAs
  <2>2. [x EXCEPT !.second = @ + n] = [first |-> x.first, second |-> x.second + n]
    BY DEF Frequencies
  <2>3. e.frequencies = [d.frequencies EXCEPT ![j] = [x EXCEPT !.second = @ + n]]
    BY <1>4, <2>1, Zenon DEF Recounts
  <2>4. PICK y \in Frequencies : y = [first |-> x.first, second |-> x.second + n]
    <3>1. x.first \in Nat /\ x.second \in Int /\ x.second + n \in Int
      BY DEF Frequencies
    <3> QED  BY <3>1, Zenon DEF Frequencies
  <2>5. e.frequencies = [d.frequencies EXCEPT ![j] = y]
    BY <2>2, <2>3, <2>4, Zenon
  <2>6. d.frequencies \in Seq(Frequencies) /\ Len(d.frequencies) = k
    BY <1>2 DEF ListsAs
  <2>7. /\ e.frequencies \in Seq(Frequencies) /\ Len(e.frequencies) = k
        /\ e.frequencies[j] = y
        /\ \A m \in (1 .. k) \ {j} : e.frequencies[m] = d.frequencies[m]
    BY <2>5, <2>6
  <2>8. y.first = x.first /\ y.second = x.second + n /\ x.second = f[w]
    BY <1>2, <1>4, <2>1, <2>4 DEF ListsAs
  <2> QED  BY <2>1, <2>7, <2>8
<1>6. ListsAs(e, g, k)
  <2>1. /\ e.word_ind_map = d.word_ind_map /\ e.ind_word_map = d.ind_word_map
        /\ num_words(e) = k
    BY <1>2 DEF Recounts, ListsAs, num_words
  <2>2. ASSUME NEW v \in DOMAIN f
        PROVE  e.frequencies[e.word_ind_map[v] + 1].second = g[v]
    <3>1. CASE v = w
      BY <3>1, <2>1, <1>3, <1>4, <1>5
    <3>2. CASE v # w
      <4>1. PICK m \in 1 .. k : m = d.word_ind_map[v] + 1
        BY <1>2 DEF ListsAs
      <4>2. m # j
        <5>1. d.word_ind_map[v] # d.word_ind_map[w]
          BY <1>2, <3>2 DEF ListsAs
        <5> QED  BY <1>2, <1>4, <4>1, <5>1 DEF ListsAs
      <4>3. e.frequencies[m] = d.frequencies[m] /\ d.frequencies[m].second = f[v]
        BY <1>2, <1>5, <4>1, <4>2 DEF ListsAs
      <4> QED  BY <1>3, <2>1, <3>2, <4>1, <4>3
    <3> QED  BY <3>1, <3>2
  <2> QED  BY <2>1, <2>2, <1>1, <1>2, <1>3, <1>5, SMTT(20) DEF ListsAs
<1>7. DOMAIN e = DictionaryFields
  BY DEF Recounts
<1> QED  BY <1>1, <1>3, <1>6, <1>7, ListsParts DEF Lists

LEMMA CountedRecounts ==
  ASSUME NEW d, NEW w, NEW n, DOMAIN d = DictionaryFields
  PROVE  LET e == Counted(d, d.word_ind_map[w], n) IN
         Recounts(e, d, w, n) /\ e.current_index = d.current_index
BY Zenon DEF Counted, Recounts, DictionaryFields

LEMMA BoundParts ==
  ASSUME NEW d, NEW w, NEW k, DOMAIN d = DictionaryFields
  PROVE  LET e == Bind(d, w, k) IN
         /\ DOMAIN e = DictionaryFields
         /\ e.word_ind_map = With(d.word_ind_map, w, k)
         /\ e.ind_word_map = With(d.ind_word_map, k, w)
         /\ e.frequencies = d.frequencies
         /\ e.current_index = d.current_index
BY Zenon DEF Bind, DictionaryFields

\* A dictionary that is made word by word also knows the next index.
Grown(d, f) == Lists(d, f) /\ d.current_index = num_words(d)

(***************************************************************************)
(* insert_word() counts a word it knows and gives a new one the next index *)
(* (WordIndexDictionary.cpp): the two maps and the frequencies agree       *)
(* again, for any dictionary.                                              *)
(***************************************************************************)
THEOREM InsertWordCounts ==
  ASSUME NEW d, NEW f, NEW w, Grown(d, f)
  PROVE  Grown(insert_word(d, w), More(f, w, 1))
<1>1. /\ Lists(d, f) /\ DOMAIN d = DictionaryFields
      /\ d.current_index = num_words(d) /\ DOMAIN d.word_ind_map = DOMAIN f
  BY DEF Grown, Lists, IsDictionaryOf
<1>2. PICK e : e = insert_word(d, w)
  OBVIOUS
<1>3. CASE Has(d, w)
  <2>1. e = Counted(d, d.word_ind_map[w], 1)
    BY <1>2, <1>3 DEF insert_word
  <2>2. Recounts(e, d, w, 1) /\ e.current_index = d.current_index
    BY <1>1, <2>1, CountedRecounts
  <2>3. w \in DOMAIN f
    BY <1>1, <1>3 DEF Has
  <2>4. Lists(e, More(f, w, 1))
    BY <1>1, <2>2, <2>3, RecountLists
  <2>5. num_words(e) = num_words(d)
    BY <2>2 DEF Recounts, num_words
  <2> QED  BY <1>1, <1>2, <2>2, <2>4, <2>5 DEF Grown
<1>4. CASE ~Has(d, w)
  <2>1. PICK b : b = Bind(d, w, d.current_index)
    OBVIOUS
  <2>2. e = [b EXCEPT !.frequencies = Append(@, [first |-> d.current_index, second |-> 1]),
                      !.current_index = @ + 1]
    BY <1>2, <1>4, <2>1, Zenon DEF insert_word
  <2>3. /\ DOMAIN b = DictionaryFields
        /\ b.word_ind_map = With(d.word_ind_map, w, d.current_index)
        /\ b.ind_word_map = With(d.ind_word_map, d.current_index, w)
        /\ b.frequencies = d.frequencies
        /\ b.current_index = d.current_index
    BY <1>1, <2>1, BoundParts
  <2>4. /\ DOMAIN e = DOMAIN b
        /\ e.word_ind_map = b.word_ind_map /\ e.ind_word_map = b.ind_word_map
        /\ e.frequencies = Append(b.frequencies, [first |-> d.current_index, second |-> 1])
        /\ e.current_index = b.current_index + 1
    BY <2>2, <2>3, Zenon DEF DictionaryFields
  <2>5. Joins(e, d, w, 1)
    BY <1>1, <2>3, <2>4, Zenon DEF Joins
  <2>6. w \notin DOMAIN f
    BY <1>1, <1>4 DEF Has
  <2>7. Lists(e, More(f, w, 1))
    BY <1>1, <2>5, <2>6, JoinLists
  <2>8. num_words(e) = num_words(d) + 1
    <3>1. DOMAIN e.word_ind_map = DOMAIN f \cup {w}
      BY <1>1, <2>3, <2>4 DEF With
    <3>2. IsFiniteSet(DOMAIN f)
      BY <1>1 DEF Lists
    <3> QED  BY <1>1, <2>6, <3>1, <3>2, FS_AddElement DEF num_words
  <2> QED  BY <1>1, <1>2, <2>3, <2>4, <2>7, <2>8 DEF Grown
<1> QED  BY <1>3, <1>4

(***************************************************************************)
(* Merging an entry of a dump adds its frequency to the word's, or makes a *)
(* word of it that has the next index.                                     *)
(***************************************************************************)
LEMMA MergeEntryAdds ==
  ASSUME NEW d, NEW f, NEW e, Lists(d, f), e.frequency \in Int
  PROVE  Lists(MergeEntry(d, e), More(f, e.word, e.frequency))
<1>1. /\ DOMAIN d = DictionaryFields /\ DOMAIN d.word_ind_map = DOMAIN f
      /\ Len(d.frequencies) = num_words(d)
  BY DEF Lists, IsDictionaryOf
<1>2. PICK m : m = MergeEntry(d, e)
  OBVIOUS
<1>3. CASE Has(d, e.word)
  <2>1. m = Counted(d, d.word_ind_map[e.word], e.frequency)
    BY <1>2, <1>3 DEF MergeEntry
  <2>2. Recounts(m, d, e.word, e.frequency)
    BY <1>1, <2>1, CountedRecounts
  <2>3. e.word \in DOMAIN f
    BY <1>1, <1>3 DEF Has
  <2> QED  BY <1>2, <2>2, <2>3, RecountLists
<1>4. CASE ~Has(d, e.word)
  <2>1. PICK k : k = Len(d.frequencies)
    OBVIOUS
  <2>2. PICK b : b = Bind(d, e.word, k)
    OBVIOUS
  <2>3. m = [b EXCEPT !.frequencies = Append(@, [first |-> k, second |-> e.frequency])]
    BY <1>2, <1>4, <2>1, <2>2, Zenon DEF MergeEntry
  <2>4. /\ DOMAIN b = DictionaryFields
        /\ b.word_ind_map = With(d.word_ind_map, e.word, k)
        /\ b.ind_word_map = With(d.ind_word_map, k, e.word)
        /\ b.frequencies = d.frequencies
    BY <1>1, <2>2, BoundParts
  <2>5. /\ DOMAIN m = DOMAIN b
        /\ m.word_ind_map = b.word_ind_map /\ m.ind_word_map = b.ind_word_map
        /\ m.frequencies = Append(b.frequencies, [first |-> k, second |-> e.frequency])
    BY <2>3, <2>4, Zenon DEF DictionaryFields
  <2>6. Joins(m, d, e.word, e.frequency)
    BY <1>1, <2>1, <2>4, <2>5, Zenon DEF Joins
  <2>7. e.word \notin DOMAIN f
    BY <1>1, <1>4 DEF Has
  <2> QED  BY <1>2, <2>6, <2>7, JoinLists
<1> QED  BY <1>3, <1>4

(***************************************************************************)
(* Sorting by frequency gives each word another index and takes its        *)
(* frequency along, in whatever order words with equal ones end up         *)
(* (sort_on_freq()).                                                       *)
(***************************************************************************)
LEMMA SortKeepsWords ==
  ASSUME NEW d, NEW f, Lists(d, f), NEW e \in sort_on_freq(d)
  PROVE  IsDictionaryOf(e, f) /\ IsByFrequency(e)
<1>1. PICK q \in SortedFrequencies(d) : e = SortedWith(d, q)
  BY DEF sort_on_freq
<1>2. PICK k \in Nat : k = Cardinality(DOMAIN f)
  BY FS_CardinalityType DEF Lists
<1>3. ListsAs(d, f, k) /\ DOMAIN d = DictionaryFields
  BY <1>2, ListsParts
<1>4. DOMAIN d.frequencies = 1 .. k
  BY <1>3 DEF ListsAs
<1>5. PICK p \in Bijection(1 .. k, 1 .. k) :
        /\ q = [i \in 1 .. k |-> d.frequencies[p[i]]]
        /\ \A i, j \in 1 .. k : i < j => q[i].second >= q[j].second
  BY <1>4 DEF SortedFrequencies
<1>6. p \in [1 .. k -> 1 .. k] /\ \A j \in 1 .. k : \E i \in 1 .. k : p[i] = j
  BY DEF Bijection, Surjection, Injection
<1>7. \A i \in 1 .. k : q[i] = d.frequencies[p[i]] /\ q[i].first = p[i] - 1
  BY <1>3, <1>5, <1>6 DEF ListsAs
<1>8. /\ DOMAIN e.word_ind_map = DOMAIN f
      /\ \A w \in DOMAIN f :
           e.word_ind_map[w] = (CHOOSE i \in 1 .. k : d.ind_word_map[q[i].first] = w) - 1
      /\ e.ind_word_map = [i \in 0 .. k - 1 |-> d.ind_word_map[q[i + 1].first]]
      /\ e.frequencies = q
  <2>1. /\ DOMAIN d.word_ind_map = DOMAIN f /\ DOMAIN d.ind_word_map = 0 .. k - 1
        /\ DOMAIN q = 1 .. k
    BY <1>3, <1>5 DEF ListsAs
  <2>2. /\ e.frequencies = q
        /\ e.word_ind_map = [w \in DOMAIN d.word_ind_map |->
             (CHOOSE i \in DOMAIN q : d.ind_word_map[q[i].first] = w) - 1]
        /\ e.ind_word_map = [i \in DOMAIN d.ind_word_map |-> d.ind_word_map[q[i + 1].first]]
    BY <1>1, <1>3, Zenon DEF SortedWith, DictionaryFields
  <2> QED  BY <2>1, <2>2
<1>9. ASSUME NEW w \in DOMAIN f
      PROVE  \E i \in 1 .. k :
               /\ e.word_ind_map[w] = i - 1
               /\ d.ind_word_map[q[i].first] = w
               /\ q[i].second = f[w]
  <2>0. PICK b \in 0 .. k - 1 : d.ind_word_map[b] = w
    BY <1>3 DEF ListsAs
  <2>1. PICK j \in 1 .. k : j = b + 1 /\ j - 1 = b
    OBVIOUS
  <2>2. d.ind_word_map[j - 1] = w
    BY <2>0, <2>1
  <2>3. PICK i \in 1 .. k : p[i] = j
    BY <1>6
  <2>4. d.ind_word_map[q[i].first] = w
    BY <1>7, <2>2, <2>3
  <2>5. PICK c \in 1 .. k : /\ c = CHOOSE n \in 1 .. k : d.ind_word_map[q[n].first] = w
                            /\ d.ind_word_map[q[c].first] = w
    BY <2>4
  <2>6. PICK m \in 1 .. k : m = p[c]
    BY <1>6
  <2>7. q[c].first = m - 1 /\ q[c] = d.frequencies[m]
    BY <1>7, <2>6
  <2>8. m - 1 = d.word_ind_map[w]
    <3>1. m - 1 \in 0 .. k - 1 /\ d.ind_word_map[m - 1] = w
      BY <2>5, <2>7
    <3> QED  BY <1>3, <3>1 DEF ListsAs
  <2>9. d.frequencies[m].second = f[w]
    <3>1. d.frequencies[d.word_ind_map[w] + 1].second = f[w]
      BY <1>3 DEF ListsAs
    <3> QED  BY <2>8, <3>1
  <2> QED  BY <1>8, <2>5, <2>7, <2>9, SMTT(20)
<1>10. IsDictionaryOf(e, f)
  <2>1. num_words(e) = k
    BY <1>2, <1>8 DEF num_words
  <2>2. ASSUME NEW w \in DOMAIN f
        PROVE  /\ e.word_ind_map[w] \in DOMAIN e.ind_word_map
               /\ e.ind_word_map[e.word_ind_map[w]] = w
               /\ Freq(e, e.word_ind_map[w]) = f[w]
    BY <1>8, <1>9 DEF Freq
  <2> QED  BY <1>8, <2>1, <2>2 DEF IsDictionaryOf
<1>11. IsByFrequency(e)
  <2> SUFFICES ASSUME NEW i \in 0 .. k - 1, NEW j \in 0 .. k - 1, i < j
               PROVE  q[i + 1].second >= q[j + 1].second
    BY <1>8 DEF IsByFrequency, Freq
  <2>1. i + 1 \in 1 .. k /\ j + 1 \in 1 .. k /\ i + 1 < j + 1
    OBVIOUS
  <2> QED  BY <1>5, <2>1
<1> QED  BY <1>10, <1>11

-----------------------------------------------------------------------------
(***************************************************************************)
(* The folds.  Each is a recursion of its own; that it has a solution is   *)
(* shown once for all of them.                                             *)
(***************************************************************************)
Fold(of, with) == [of |-> of, with |-> with]

OneStep(kind, acc, x) ==
  IF kind.of = "entries" THEN MergeEntry(acc, x)
  ELSE IF kind.of = "dumps" THEN MergeDump(acc, x)
  ELSE IF kind.of = "batches" THEN AddEntry(acc, x)
  ELSE IF kind.of = "records" THEN ReadPair(acc, x)
  ELSE IF kind.of = "words" THEN AddWord(acc, x, kind.with)
  ELSE IF kind.of = "lines" THEN AddLine(acc, x, kind.with)
  ELSE IF kind.of = "tops" THEN Push(acc, x)
  ELSE IF kind.of = "counts" THEN PushCounted(acc, x)
  ELSE IF kind.of = "countings" THEN AddCounting(acc, x, kind.with)
  ELSE IF kind.of = "documents" THEN AddDocument(acc, x, kind.with)
  ELSE IF kind.of = "fits" THEN AddDump(acc, x)
  ELSE LoadRecord(kind.with, acc, x)

Unfolded(kind, base, s, g, t) ==
  IF t = {} THEN base ELSE OneStep(kind, g[t \ {Max(t)}], s[Max(t)])

Folds(kind, base, s, g) ==
  g = [t \in SUBSET DOMAIN s |-> Unfolded(kind, base, s, g, t)]

LEMMA MaxIsLargest ==
  ASSUME NEW t, IsFiniteSet(t), t # {}, t \subseteq Int
  PROVE  Max(t) \in t /\ \A y \in t : Max(t) >= y
<1> DEFINE Good == {u \in SUBSET t : u = {} \/ \E x \in u : \A y \in u : x >= y}
<1>1. {} \in Good
  OBVIOUS
<1>2. ASSUME NEW T \in SUBSET t, NEW x \in t, x \notin T, T \in Good
      PROVE  T \cup {x} \in Good
  <2>1. CASE T = {}
    BY <2>1
  <2>2. CASE T # {}
    <3>1. PICK m \in T : \A y \in T : m >= y
      BY <1>2, <2>2
    <3>2. CASE m >= x
      BY <3>1, <3>2
    <3>3. CASE ~(m >= x)
      <4>1. \A y \in T \cup {x} : x >= y
        BY <3>1, <3>3
      <4> QED  BY <4>1
    <3> QED  BY <3>2, <3>3
  <2> QED  BY <2>1, <2>2
<1>3. t \in Good
  <2> HIDE DEF Good
  <2>1. \A T \in SUBSET t, x \in t : x \notin T /\ T \in Good => T \cup {x} \in Good
    BY <1>2
  <2>2. SUBSET t \subseteq Good
    BY <1>1, <2>1, SubsetInduction
  <2> QED  BY <2>2
<1>4. \E x \in t : \A y \in t : x >= y
  BY <1>3
<1> QED  BY <1>4 DEF Max

\* The recursion holds for the sets of at most m places.
FoldsTo(kind, base, s, g, m) ==
  \A t \in SUBSET DOMAIN s : Cardinality(t) <= m => g[t] = Unfolded(kind, base, s, g, t)

LEMMA FoldExists ==
  ASSUME NEW kind, NEW base, NEW s, NEW n \in Nat, DOMAIN s = 1 .. n
  PROVE  \E g : Folds(kind, base, s, g)
<1> DEFINE S == DOMAIN s
           Good == {m \in Nat : \E g : FoldsTo(kind, base, s, g, m)}
<1>1. /\ IsFiniteSet(S) /\ S \subseteq Int
      /\ \A t \in SUBSET S : IsFiniteSet(t) /\ Cardinality(t) \in Nat
                               /\ Cardinality(t) <= Cardinality(S)
  <2>1. IsFiniteSet(1 .. n)
    BY FS_Interval
  <2>2. S = 1 .. n
    OBVIOUS
  <2> QED  BY <2>1, <2>2, FS_Subset, FS_CardinalityType
<1> HIDE DEF S
<1>2. ASSUME NEW t \in SUBSET S, t # {}
      PROVE  /\ Max(t) \in t /\ t \ {Max(t)} \in SUBSET S
             /\ Cardinality(t \ {Max(t)}) = Cardinality(t) - 1
  BY <1>1, <1>2, MaxIsLargest, FS_RemoveElement
<1>3. 0 \in Good
  <2>1. FoldsTo(kind, base, s, [t \in SUBSET S |-> base], 0)
    BY <1>1, FS_EmptySet DEF FoldsTo, Unfolded, S
  <2> QED  BY <2>1
<1>4. ASSUME NEW m \in Nat, m \in Good PROVE m + 1 \in Good
  <2>1. PICK g : FoldsTo(kind, base, s, g, m)
    BY <1>4
  <2> DEFINE h == [t \in SUBSET S |->
                     IF Cardinality(t) <= m THEN g[t] ELSE Unfolded(kind, base, s, g, t)]
  <2>2. ASSUME NEW t \in SUBSET S, Cardinality(t) <= m + 1
        PROVE  h[t] = Unfolded(kind, base, s, h, t)
    <3>1. h[t] = Unfolded(kind, base, s, g, t)
      BY <2>1 DEF FoldsTo, S
    <3>2. CASE t = {}
      BY <3>1, <3>2 DEF Unfolded
    <3>3. CASE t # {}
      <4>1. h[t \ {Max(t)}] = g[t \ {Max(t)}]
        BY <1>1, <1>2, <2>2, <3>3
      <4> HIDE DEF h
      <4> QED  BY <3>1, <3>3, <4>1 DEF Unfolded
    <3> QED  BY <3>2, <3>3
  <2>3. FoldsTo(kind, base, s, h, m + 1)
    BY <2>2 DEF FoldsTo, S
  <2> QED  BY <2>3
<1>5. Cardinality(S) \in Good
  BY <1>1, <1>3, <1>4, NatSetInduction
<1>6. PICK g : FoldsTo(kind, base, s, g, Cardinality(S))
  BY <1>5
<1> DEFINE h == [t \in SUBSET S |-> g[t]]
<1>7. ASSUME NEW t \in SUBSET S PROVE h[t] = Unfolded(kind, base, s, h, t)
  <2>1. g[t] = Unfolded(kind, base, s, g, t)
    BY <1>1, <1>6 DEF FoldsTo, S
  <2>2. t # {} => h[t \ {Max(t)}] = g[t \ {Max(t)}]
    BY <1>2
  <2>3. h[t] = g[t]
    OBVIOUS
  <2> HIDE DEF h
  <2> QED  BY <2>1, <2>2, <2>3 DEF Unfolded
<1>8. h = [t \in SUBSET S |-> Unfolded(kind, base, s, h, t)]
  BY <1>7
<1>9. Folds(kind, base, s, h)
  BY <1>8 DEF Folds, S
<1> QED  BY <1>9

\* A solution of the recursion, from one place to the next.
Runs(kind, base, s, n, g) ==
  /\ g[1 .. 0] = base
  /\ \A m \in 0 .. n - 1 : g[1 .. m + 1] = OneStep(kind, g[1 .. m], s[m + 1])

LEMMA FoldUnfolds ==
  ASSUME NEW kind, NEW base, NEW s, NEW n \in Nat, DOMAIN s = 1 .. n,
         NEW g, Folds(kind, base, s, g)
  PROVE  Runs(kind, base, s, n, g)
<1>1. \A t \in SUBSET (1 .. n) : g[t] = Unfolded(kind, base, s, g, t)
  BY DEF Folds
<1>2. g[1 .. 0] = base
  <2>1. 1 .. 0 = {} /\ {} \in SUBSET (1 .. n)
    OBVIOUS
  <2>2. Unfolded(kind, base, s, g, {}) = base
    BY DEF Unfolded
  <2> QED  BY <1>1, <2>1, <2>2
<1>3. ASSUME NEW m \in 0 .. n - 1
      PROVE  g[1 .. m + 1] = OneStep(kind, g[1 .. m], s[m + 1])
  <2>1. PICK t : t = 1 .. m + 1
    OBVIOUS
  <2>2. m + 1 \in t /\ t \in SUBSET (1 .. n) /\ \A y \in t : y \in Int /\ y <= m + 1
    BY <2>1
  <2>3. IsFiniteSet(t)
    BY <2>1, FS_Interval
  <2>4. Max(t) \in t /\ \A y \in t : Max(t) >= y
    BY <2>2, <2>3, MaxIsLargest
  <2>5. Max(t) = m + 1
    <3>1. PICK x \in t : x = Max(t)
      BY <2>4
    <3>2. x \in Int /\ x <= m + 1 /\ x >= m + 1
      BY <2>2, <2>4, <3>1
    <3> QED  BY <3>1, <3>2
  <2>6. t \ {m + 1} = 1 .. m
    BY <2>1
  <2>7. g[t] = OneStep(kind, g[t \ {Max(t)}], s[Max(t)])
    BY <1>1, <2>2 DEF Unfolded
  <2> QED  BY <2>1, <2>5, <2>6, <2>7
<1> QED  BY <1>2, <1>3 DEF Runs

\* The two folds of initialize_from_dumps().
Merged(d, s) == FoldLeft(MergeEntry, d, s)

MergedDumps(ds, s) == FoldLeft(MergeDump, ds, s)

Entering(d, s, g) ==
  g = [t \in SUBSET DOMAIN s |->
         IF t = {} THEN d ELSE MergeEntry(g[t \ {Max(t)}], s[Max(t)])]

Entered(d, s) == CHOOSE g : Entering(d, s, g)

Reading(ds, s, g) ==
  g = [t \in SUBSET DOMAIN s |->
         IF t = {} THEN ds
         ELSE MergeDump(g[t \ {Max(t)}], s[Max(t)])]

Read(ds, s) == CHOOSE g : Reading(ds, s, g)

LEMMA EntryFold ==
  ASSUME NEW d, NEW s, NEW n \in Nat, DOMAIN s = 1 .. n
  PROVE  /\ Merged(d, s) = Entered(d, s)[1 .. n]
         /\ Entered(d, s)[1 .. 0] = d
         /\ \A m \in 0 .. n - 1 :
              Entered(d, s)[1 .. m + 1] = MergeEntry(Entered(d, s)[1 .. m], s[m + 1])
<1>1. Merged(d, s) = Entered(d, s)[DOMAIN s]
  BY Zenon DEF Merged, FoldLeft, MapThenFoldSet, Entered, Entering
<1>2. \A g : Folds(Fold("entries", {}), d, s, g) <=> Entering(d, s, g)
  BY DEF Folds, Entering, Unfolded, OneStep, Fold
<1>3. Entering(d, s, Entered(d, s))
  BY <1>2, FoldExists, Zenon DEF Entered
<1>4. Folds(Fold("entries", {}), d, s, Entered(d, s))
  BY <1>2, <1>3
<1>5. \A acc, x : OneStep(Fold("entries", {}), acc, x) = MergeEntry(acc, x)
  BY DEF OneStep, Fold
<1>6. Runs(Fold("entries", {}), d, s, n, Entered(d, s))
  BY <1>4, FoldUnfolds
<1> QED  BY <1>1, <1>5, <1>6 DEF Runs

LEMMA FileFold ==
  ASSUME NEW ds, NEW s, NEW n \in Nat, DOMAIN s = 1 .. n
  PROVE  /\ MergedDumps(ds, s) = Read(ds, s)[1 .. n]
         /\ Read(ds, s)[1 .. 0] = ds
         /\ \A m \in 0 .. n - 1 :
              Read(ds, s)[1 .. m + 1] = MergeDump(Read(ds, s)[1 .. m], s[m + 1])
<1>1. MergedDumps(ds, s) = Read(ds, s)[DOMAIN s]
  BY Zenon DEF MergedDumps, FoldLeft, MapThenFoldSet, Read, Reading
<1>2. \A g : Folds(Fold("dumps", {}), ds, s, g) <=> Reading(ds, s, g)
  BY DEF Folds, Reading, Unfolded, OneStep, Fold
<1>3. Reading(ds, s, Read(ds, s))
  BY <1>2, FoldExists, Zenon DEF Read
<1>4. Folds(Fold("dumps", {}), ds, s, Read(ds, s))
  BY <1>2, <1>3
<1>5. \A acc, x : OneStep(Fold("dumps", {}), acc, x) = MergeDump(acc, x)
  BY DEF OneStep, Fold
<1>6. Runs(Fold("dumps", {}), ds, s, n, Read(ds, s))
  BY <1>4, FoldUnfolds
<1> QED  BY <1>1, <1>5, <1>6 DEF Runs

-----------------------------------------------------------------------------
(***************************************************************************)
(* How often the first n entries of s count the word w, and the            *)
(* frequencies f with these counted too.                                   *)
(***************************************************************************)
DumpEntry(W) == [word : W, index : Nat, frequency : Nat]

Occurs(s, w) == [i \in DOMAIN s |-> IF s[i].word = w THEN s[i].frequency ELSE 0]

Times(s, n, w) == SumFunctionOnSet(Occurs(s, w), 1 .. n)

WordsIn(s, n) == {s[i].word : i \in 1 .. n}

Grows(f, s, n) ==
  [w \in DOMAIN f \cup WordsIn(s, n) |->
     (IF w \in DOMAIN f THEN f[w] ELSE 0) + Times(s, n, w)]

\* Lists speaks of the values of f only.
LEMMA ListsSame ==
  ASSUME NEW d, NEW f, NEW g, Lists(d, f), DOMAIN g = DOMAIN f,
         \A w \in DOMAIN f : g[w] = f[w]
  PROVE  Lists(d, g)
BY DEF Lists, IsDictionaryOf

LEMMA EntryParts ==
  ASSUME NEW W, NEW s \in Seq(DumpEntry(W)), NEW i \in 1 .. Len(s)
  PROVE  s[i].word \in W /\ s[i].frequency \in Nat
<1>1. s[i] \in DumpEntry(W)
  OBVIOUS
<1> QED  BY <1>1 DEF DumpEntry

LEMMA TimesCount ==
  ASSUME NEW W, NEW s \in Seq(DumpEntry(W)), NEW w
  PROVE  /\ Times(s, 0, w) = 0
         /\ \A n \in 0 .. Len(s) : Times(s, n, w) \in Nat
         /\ \A n \in 0 .. Len(s) - 1 :
              Times(s, n + 1, w) =
                Times(s, n, w) + (IF s[n + 1].word = w THEN s[n + 1].frequency ELSE 0)
         /\ \A n \in 0 .. Len(s) : w \notin WordsIn(s, n) => Times(s, n, w) = 0
<1>1. PICK o : o = Occurs(s, w)
  OBVIOUS
<1>2. PICK k \in Nat : k = Len(s) /\ DOMAIN s = 1 .. k
  OBVIOUS
<1>3. \A i \in 1 .. k : s[i].frequency \in Nat
  BY <1>2, EntryParts
<1>4. \A i \in 1 .. k : /\ o[i] = (IF s[i].word = w THEN s[i].frequency ELSE 0)
                        /\ o[i] \in Nat
  BY <1>1, <1>2, <1>3 DEF Occurs
<1>5. \A n : Times(s, n, w) = SumFunctionOnSet(o, 1 .. n)
  BY <1>1 DEF Times
<1>6. 1 .. 0 = {}
  OBVIOUS
<1>7. \A n \in 0 .. k : IsFiniteSet(1 .. n) /\ \A i \in 1 .. n : i \in 1 .. k
  BY FS_Interval
<1>8. ASSUME NEW n \in 0 .. k PROVE SumFunctionOnSet(o, 1 .. n) \in Nat
  BY <1>4, <1>7, SumNat
<1>9. ASSUME NEW n \in 0 .. k - 1
      PROVE  SumFunctionOnSet(o, 1 .. n + 1) = SumFunctionOnSet(o, 1 .. n) + o[n + 1]
  <2>1. n \in 0 .. k /\ n + 1 \in 0 .. k /\ n + 1 \notin 1 .. n
          /\ (1 .. n) \cup {n + 1} = 1 .. n + 1
    OBVIOUS
  <2>2. IsFiniteSet(1 .. n) /\ \A i \in (1 .. n) \cup {n + 1} : o[i] \in Int
    BY <1>4, <1>7, <2>1
  <2>3. SumFunctionOnSet(o, (1 .. n) \cup {n + 1}) = o[n + 1] + SumFunctionOnSet(o, 1 .. n)
    BY <2>1, <2>2, SumAdd
  <2>4. SumFunctionOnSet(o, 1 .. n) \in Nat
    BY <1>8, <2>1
  <2>5. o[n + 1] \in Nat
    BY <1>4
  <2>6. PICK a \in Nat, b \in Nat : a = SumFunctionOnSet(o, 1 .. n) /\ b = o[n + 1]
    BY <2>4, <2>5
  <2>7. SumFunctionOnSet(o, 1 .. n + 1) = b + a
    BY <2>1, <2>3, <2>6, Zenon
  <2> QED  BY <2>6, <2>7
<1>10. ASSUME NEW n \in 0 .. k, w \notin WordsIn(s, n)
       PROVE  SumFunctionOnSet(o, 1 .. n) = 0
  <2>1. \A i \in 1 .. n : o[i] = 0
    BY <1>4, <1>7, <1>10 DEF WordsIn
  <2> QED  BY <1>7, <2>1, SumZero
<1>11. \A n \in 0 .. k - 1 :
         o[n + 1] = (IF s[n + 1].word = w THEN s[n + 1].frequency ELSE 0)
  <2>1. \A n \in 0 .. k - 1 : n + 1 \in 1 .. k
    OBVIOUS
  <2> QED  BY <1>4, <2>1
<1> QED  BY <1>2, <1>5, <1>6, <1>8, <1>9, <1>10, <1>11, SumEmpty

LEMMA GrowsByOne ==
  ASSUME NEW W, NEW s \in Seq(DumpEntry(W)), NEW n \in 0 .. Len(s) - 1,
         NEW f, \A w \in DOMAIN f : f[w] \in Int
  PROVE  Grows(f, s, n + 1) = More(Grows(f, s, n), s[n + 1].word, s[n + 1].frequency)
<1>1. PICK v, k : v = s[n + 1].word /\ k = s[n + 1].frequency
  OBVIOUS
<1>2. k \in Nat
  <2>1. n + 1 \in 1 .. Len(s)
    OBVIOUS
  <2> QED  BY <1>1, <2>1, EntryParts
<1>3. WordsIn(s, n + 1) = WordsIn(s, n) \cup {v}
  <2>1. 1 .. n + 1 = (1 .. n) \cup {n + 1}
    OBVIOUS
  <2> QED  BY <1>1, <2>1 DEF WordsIn
<1>4. PICK g : g = Grows(f, s, n)
  OBVIOUS
<1>5. PICK D : D = DOMAIN f \cup WordsIn(s, n)
  OBVIOUS
<1>6. DOMAIN g = D /\ \A w \in D : g[w] = (IF w \in DOMAIN f THEN f[w] ELSE 0) + Times(s, n, w)
  BY <1>4, <1>5 DEF Grows
<1>7. ASSUME NEW w
      PROVE  /\ Times(s, n, w) \in Nat
             /\ Times(s, n + 1, w) = Times(s, n, w) + (IF v = w THEN k ELSE 0)
             /\ w \notin D => Times(s, n, w) = 0
  <2>1. n \in 0 .. Len(s)
    OBVIOUS
  <2> QED  BY <1>1, <1>5, <2>1, TimesCount
<1>8. ASSUME NEW w \in D \cup {v}
      PROVE  (IF w \in DOMAIN f THEN f[w] ELSE 0) + Times(s, n + 1, w)
               = (IF w \in DOMAIN g THEN g[w] ELSE 0) + (IF w = v THEN k ELSE 0)
  <2>1. PICK x \in Int : x = IF w \in DOMAIN f THEN f[w] ELSE 0
    OBVIOUS
  <2>2. PICK y \in Nat : y = Times(s, n, w)
    BY <1>7
  <2>3. Times(s, n + 1, w) = y + (IF w = v THEN k ELSE 0)
    BY <1>7, <2>2
  <2>4. CASE w \in D
    <3>1. g[w] = x + y
      BY <1>6, <2>1, <2>2, <2>4
    <3> QED  BY <1>2, <1>6, <2>1, <2>3, <2>4, <3>1
  <2>5. CASE w \notin D
    <3>1. x = 0 /\ y = 0
      BY <1>5, <1>7, <2>1, <2>2, <2>5
    <3> QED  BY <1>2, <1>6, <2>1, <2>3, <2>5, <3>1
  <2> QED  BY <2>4, <2>5
<1>9. Grows(f, s, n + 1) = [w \in D \cup {v} |->
        (IF w \in DOMAIN f THEN f[w] ELSE 0) + Times(s, n + 1, w)]
  <2>1. DOMAIN f \cup WordsIn(s, n + 1) = D \cup {v}
    BY <1>3, <1>5
  <2> QED  BY <2>1 DEF Grows
<1>10. More(g, v, k) = [w \in D \cup {v} |->
         (IF w \in DOMAIN g THEN g[w] ELSE 0) + (IF w = v THEN k ELSE 0)]
  BY <1>6 DEF More
<1> QED  BY <1>1, <1>4, <1>8, <1>9, <1>10

\* Entry after entry, the words are counted.
LEMMA MergedEntries ==
  ASSUME NEW W, NEW s \in Seq(DumpEntry(W)), NEW d, NEW f, Lists(d, f)
  PROVE  Lists(Merged(d, s), Grows(f, s, Len(s)))
<1>1. PICK k \in Nat : k = Len(s) /\ DOMAIN s = 1 .. k
  OBVIOUS
<1>2. PICK g : g = Entered(d, s)
  OBVIOUS
<1>3. /\ Merged(d, s) = g[1 .. k] /\ g[1 .. 0] = d
      /\ \A m \in 0 .. k - 1 : g[1 .. m + 1] = MergeEntry(g[1 .. m], s[m + 1])
  <2>1. k \in Nat /\ DOMAIN s = 1 .. k
    BY <1>1
  <2>2. /\ Merged(d, s) = Entered(d, s)[1 .. k]
        /\ Entered(d, s)[1 .. 0] = d
        /\ \A m \in 0 .. k - 1 :
             Entered(d, s)[1 .. m + 1] = MergeEntry(Entered(d, s)[1 .. m], s[m + 1])
    BY <2>1, EntryFold
  <2> QED  BY <1>2, <2>2, Zenon
<1> DEFINE Good == {n \in Nat : n <= k => Lists(g[1 .. n], Grows(f, s, n))}
<1>4. 0 \in Good
  <2>1. WordsIn(s, 0) = {} /\ \A w : Times(s, 0, w) = 0
    BY TimesCount DEF WordsIn
  <2>2. Grows(f, s, 0) = [w \in DOMAIN f |-> f[w] + 0]
    BY <2>1 DEF Grows
  <2>3. DOMAIN Grows(f, s, 0) = DOMAIN f /\ \A w \in DOMAIN f : Grows(f, s, 0)[w] = f[w]
    BY <2>2 DEF Lists
  <2> QED  BY <1>3, <2>3, ListsSame
<1>5. ASSUME NEW n \in Nat, n \in Good PROVE n + 1 \in Good
  <2> SUFFICES ASSUME n + 1 <= k PROVE Lists(g[1 .. n + 1], Grows(f, s, n + 1))
    OBVIOUS
  <2>1. Lists(g[1 .. n], Grows(f, s, n)) /\ n \in 0 .. k - 1 /\ n \in 0 .. Len(s) - 1
    BY <1>1, <1>5
  <2>2. s[n + 1].frequency \in Int
    <3>1. n + 1 \in 1 .. Len(s)
      BY <2>1
    <3> QED  BY <3>1, EntryParts
  <2>3. g[1 .. n + 1] = MergeEntry(g[1 .. n], s[n + 1])
    BY <1>3, <2>1
  <2>4. Lists(g[1 .. n + 1], More(Grows(f, s, n), s[n + 1].word, s[n + 1].frequency))
    BY <2>1, <2>2, <2>3, MergeEntryAdds
  <2>5. \A w \in DOMAIN f : f[w] \in Int
    BY DEF Lists
  <2> QED  BY <2>1, <2>4, <2>5, GrowsByOne
<1> HIDE DEF Good
<1>6. k \in Good
  BY <1>4, <1>5, NatSetInduction
<1> QED  BY <1>1, <1>3, <1>6 DEF Good

-----------------------------------------------------------------------------
(***************************************************************************)
(* What one file counts, and what the first m of several count together.   *)
(***************************************************************************)
CountOf(file, w) == Times(EntriesOf(file), Len(EntriesOf(file)), w)

WordsOf(file) == WordsIn(EntriesOf(file), Len(EntriesOf(file)))

Counts(files, w) == [i \in DOMAIN files |-> CountOf(files[i], w)]

Together(files) ==
  [w \in UNION {WordsOf(files[i]) : i \in DOMAIN files} |->
     SumFunctionOnSet(Counts(files, w), DOMAIN files)]

\* A file of each of the first m dumps.
Picked(files, dumps, m) ==
  DOMAIN files = 1 .. m /\ \A i \in 1 .. m : files[i] \in dumps[i]

Legible(W, file) == EntriesOf(file) \in Seq(DumpEntry(W))

LEMMA CountOfFile ==
  ASSUME NEW W, NEW file, Legible(W, file), NEW w
  PROVE  CountOf(file, w) \in Nat /\ (w \notin WordsOf(file) => CountOf(file, w) = 0)
<1>1. PICK s \in Seq(DumpEntry(W)) : s = EntriesOf(file)
  BY DEF Legible
<1>2. Len(s) \in 0 .. Len(s)
  OBVIOUS
<1> QED  BY <1>1, <1>2, TimesCount DEF CountOf, WordsOf

SameCounts(f, g) == DOMAIN f = DOMAIN g /\ \A w \in DOMAIN g : f[w] = g[w]

LEMMA OneFileMore ==
  ASSUME NEW W, NEW m \in Nat, NEW files, NEW more,
         DOMAIN files = 1 .. m, DOMAIN more = 1 .. m + 1,
         \A i \in 1 .. m : more[i] = files[i],
         \A i \in 1 .. m + 1 : Legible(W, more[i]),
         NEW s, s = EntriesOf(more[m + 1])
  PROVE  SameCounts(Together(more), Grows(Together(files), s, Len(s)))
<1>1. s = EntriesOf(more[m + 1])
  OBVIOUS
<1>2. PICK g : g = Grows(Together(files), s, Len(s))
  OBVIOUS
<1>3. PICK f : f = Together(files)
  OBVIOUS
<1>4. PICK D : D = UNION {WordsOf(files[i]) : i \in 1 .. m}
  OBVIOUS
<1>5. /\ DOMAIN f = D
      /\ \A w \in D : f[w] = SumFunctionOnSet(Counts(files, w), 1 .. m)
  BY <1>3, <1>4 DEF Together
<1>6. 1 .. m + 1 = (1 .. m) \cup {m + 1} /\ m + 1 \notin 1 .. m /\ IsFiniteSet(1 .. m)
  <2>1. IsFiniteSet(1 .. m)
    BY FS_Interval
  <2>2. 1 .. m + 1 = (1 .. m) \cup {m + 1} /\ m + 1 \notin 1 .. m
    OBVIOUS
  <2> QED  BY <2>1, <2>2
<1>7. PICK E : E = D \cup WordsIn(s, Len(s))
  OBVIOUS
<1>8. UNION {WordsOf(more[i]) : i \in 1 .. m + 1} = E
  <2>1. \A i \in 1 .. m : WordsOf(more[i]) = WordsOf(files[i])
    OBVIOUS
  <2>2. WordsOf(more[m + 1]) = WordsIn(s, Len(s))
    BY <1>1 DEF WordsOf
  <2> QED  BY <1>4, <1>6, <1>7, <2>1, <2>2
<1>9. /\ DOMAIN Together(more) = E
      /\ \A w \in E : Together(more)[w] = SumFunctionOnSet(Counts(more, w), 1 .. m + 1)
  BY <1>8 DEF Together
<1>10. DOMAIN g = E /\ \A w \in E :
         g[w] = (IF w \in D THEN f[w] ELSE 0) + Times(s, Len(s), w)
  BY <1>2, <1>3, <1>5, <1>7 DEF Grows
<1>11. ASSUME NEW w \in E PROVE Together(more)[w] = g[w]
  <2>1. PICK c, b : c = Counts(more, w) /\ b = Counts(files, w)
    OBVIOUS
  <2>2. /\ \A i \in 1 .. m + 1 : c[i] = CountOf(more[i], w) /\ c[i] \in Nat
        /\ \A i \in 1 .. m : b[i] = c[i]
        /\ c[m + 1] = Times(s, Len(s), w)
    <3>1. \A i \in 1 .. m + 1 : c[i] = CountOf(more[i], w)
      BY <2>1 DEF Counts
    <3>2. \A i \in 1 .. m : b[i] = CountOf(files[i], w) /\ i \in 1 .. m + 1
      BY <2>1 DEF Counts
    <3>3. \A i \in 1 .. m + 1 : CountOf(more[i], w) \in Nat
      BY CountOfFile
    <3>4. CountOf(more[m + 1], w) = Times(s, Len(s), w)
      BY <1>1 DEF CountOf
    <3> QED  BY <3>1, <3>2, <3>3, <3>4
  <2>3. SumFunctionOnSet(c, (1 .. m) \cup {m + 1}) = c[m + 1] + SumFunctionOnSet(c, 1 .. m)
    <3>1. \A i \in (1 .. m) \cup {m + 1} : c[i] \in Int
      BY <1>6, <2>2
    <3> QED  BY <1>6, <3>1, SumAdd
  <2>4. SumFunctionOnSet(b, 1 .. m) = SumFunctionOnSet(c, 1 .. m)
    <3>1. \A i \in 1 .. m : c[i] \in Int /\ b[i] = c[i]
      BY <1>6, <2>2
    <3> QED  BY <1>6, <3>1, SumSame
  <2>5. SumFunctionOnSet(b, 1 .. m) \in Nat
    <3>1. \A i \in 1 .. m : b[i] \in Nat
      BY <1>6, <2>2
    <3> QED  BY <1>6, <3>1, SumNat
  <2>6. SumFunctionOnSet(b, 1 .. m) = IF w \in D THEN f[w] ELSE 0
    <3>1. CASE w \in D
      BY <1>5, <2>1, <3>1
    <3>2. CASE w \notin D
      <4>1. \A i \in 1 .. m : b[i] = 0
        <5>1. \A i \in 1 .. m : w \notin WordsOf(files[i])
          BY <1>4, <3>2
        <5>2. \A i \in 1 .. m : Legible(W, files[i])
          BY <1>6
        <5>3. \A i \in 1 .. m : CountOf(files[i], w) = 0
          BY <5>1, <5>2, CountOfFile
        <5> QED  BY <2>1, <5>3 DEF Counts
      <4> QED  BY <1>6, <3>2, <4>1, SumZero
    <3> QED  BY <3>1, <3>2
  <2>7. PICK x \in Nat, y \in Nat : x = SumFunctionOnSet(b, 1 .. m) /\ y = c[m + 1]
    BY <2>2, <2>5
  <2>8. Together(more)[w] = y + x
    BY <1>6, <1>9, <2>1, <2>3, <2>4, <2>7, Zenon
  <2>9. g[w] = x + y
    BY <1>10, <2>2, <2>6, <2>7
  <2> QED  BY <2>7, <2>8, <2>9
<1> QED  BY <1>2, <1>9, <1>10, <1>11 DEF SameCounts

\* Dump after dump, whichever files they are.
LEMMA MergedFiles ==
  ASSUME NEW W, NEW k \in Nat, NEW dumps, DOMAIN dumps = 1 .. k,
         \A i \in 1 .. k : \A file \in dumps[i] : Legible(W, file),
         NEW d \in MergedDumps({Empty}, dumps)
  PROVE  \E files : Picked(files, dumps, k) /\ Lists(d, Together(files))
<1> DEFINE Made(e, m) == \E files : Picked(files, dumps, m) /\ Lists(e, Together(files))
<1>1. PICK g : /\ MergedDumps({Empty}, dumps) = g[1 .. k]
               /\ g[1 .. 0] = {Empty}
               /\ \A m \in 0 .. k - 1 : g[1 .. m + 1] = MergeDump(g[1 .. m], dumps[m + 1])
  <2>1. PICK g : g = Read({Empty}, dumps)
    OBVIOUS
  <2>2. /\ MergedDumps({Empty}, dumps) = g[1 .. k]
        /\ g[1 .. 0] = {Empty}
        /\ \A m \in 0 .. k - 1 : g[1 .. m + 1] = MergeDump(g[1 .. m], dumps[m + 1])
    BY <2>1, FileFold
  <2> QED  BY <2>2
<1> DEFINE Good == {m \in Nat : m <= k => \A e \in g[1 .. m] : Made(e, m)}
<1>2. 0 \in Good
  <2>1. Picked(<<>>, dumps, 0)
    BY DEF Picked
  <2>2. Lists(Empty, Together(<<>>))
    <3>1. DOMAIN Together(<<>>) = {}
      BY DEF Together
    <3> QED  BY <3>1, NoWords, ListsSame
  <2> QED  BY <1>1, <2>1, <2>2
<1>3. ASSUME NEW m \in Nat, m \in Good PROVE m + 1 \in Good
  <2> SUFFICES ASSUME m + 1 <= k, NEW e \in g[1 .. m + 1] PROVE Made(e, m + 1)
    OBVIOUS
  <2>1. PICK c \in g[1 .. m], file \in dumps[m + 1] : e = MergeFile(c, file)
    <3>1. m \in 0 .. k - 1
      OBVIOUS
    <3> QED  BY <1>1, <3>1 DEF MergeDump
  <2>2. PICK files : Picked(files, dumps, m) /\ Lists(c, Together(files))
    BY <1>3, <2>1
  <2>3. PICK more : more = [i \in 1 .. m + 1 |-> IF i = m + 1 THEN file ELSE files[i]]
    OBVIOUS
  <2>4. /\ DOMAIN files = 1 .. m /\ DOMAIN more = 1 .. m + 1
        /\ more[m + 1] = file /\ \A i \in 1 .. m : more[i] = files[i]
    BY <2>2, <2>3 DEF Picked
  <2>5. Picked(more, dumps, m + 1)
    BY <2>1, <2>2, <2>3 DEF Picked
  <2>6. \A i \in 1 .. m + 1 : Legible(W, more[i])
    <3>1. \A i \in 1 .. m + 1 : i \in 1 .. k /\ more[i] \in dumps[i]
      BY <2>5 DEF Picked
    <3> QED  BY <3>1
  <2>7. PICK s : s = EntriesOf(file)
    OBVIOUS
  <2>8. s \in Seq(DumpEntry(W))
    BY <2>4, <2>6, <2>7 DEF Legible
  <2>9. e = Merged(c, s)
    BY <2>1, <2>7 DEF MergeFile, Merged
  <2>10. Lists(e, Grows(Together(files), s, Len(s)))
    BY <2>2, <2>8, <2>9, MergedEntries
  <2>11. SameCounts(Together(more), Grows(Together(files), s, Len(s)))
    <3>1. s = EntriesOf(more[m + 1])
      BY <2>4, <2>7
    <3> QED  BY <2>4, <2>6, <3>1, OneFileMore
  <2>12. Lists(e, Together(more))
    BY <2>10, <2>11, ListsSame DEF SameCounts
  <2> QED  BY <2>5, <2>12
<1> HIDE DEF Good
<1>4. k \in Good
  BY <1>2, <1>3, NatSetInduction
<1> QED  BY <1>1, <1>4 DEF Good

(***************************************************************************)
(* Merge_Dictionaries: the dictionary merged from any dumps has every word *)
(* of one of them once, with the sum of its frequencies, and the words     *)
(* counted more often before those counted less, whatever order the dumps  *)
(* had them in (initialize_from_dumps()).                                  *)
(***************************************************************************)
THEOREM MergeAddsUp ==
  ASSUME NEW W, NEW k \in Nat, NEW dumps, DOMAIN dumps = 1 .. k,
         \A i \in 1 .. k : \A file \in dumps[i] : Legible(W, file),
         NEW d \in initialize_from_dumps(dumps)
  PROVE  \E files : /\ Picked(files, dumps, k)
                    /\ IsDictionaryOf(d, Together(files))
                    /\ IsByFrequency(d)
<1>1. PICK e \in MergedDumps({Empty}, dumps) : d \in sort_on_freq(e)
  BY Zenon DEF initialize_from_dumps, MergedDumps
<1>2. PICK files : Picked(files, dumps, k) /\ Lists(e, Together(files))
  BY <1>1, MergedFiles
<1>3. IsDictionaryOf(d, Together(files)) /\ IsByFrequency(d)
  BY <1>1, <1>2, SortKeepsWords
<1> QED  BY <1>2, <1>3

-----------------------------------------------------------------------------
(***************************************************************************)
(* What dump() writes and is read again: lists of equal length, as records *)
(* without the empty ones, and the entries they stand for.                 *)
(***************************************************************************)
PairLists(W) ==
  {p \in [word : Seq(W), index : Seq(Nat), frequency : Seq(Nat)] :
     Len(p.index) = Len(p.word) /\ Len(p.frequency) = Len(p.word)}

Records(W) == {SerializePair(p) : p \in PairLists(W)}

Zipped(p) ==
  [i \in DOMAIN p.word |->
     [word |-> p.word[i], index |-> p.index[i], frequency |-> p.frequency[i]]]

LEMMA PairParts ==
  ASSUME NEW W, NEW p \in PairLists(W)
  PROVE  /\ DOMAIN p = {"word", "index", "frequency"}
         /\ p.word \in Seq(W) /\ p.index \in Seq(Nat) /\ p.frequency \in Seq(Nat)
         /\ Len(p.word) \in Nat
         /\ Len(p.index) = Len(p.word) /\ Len(p.frequency) = Len(p.word)
         /\ p = [word |-> p.word, index |-> p.index, frequency |-> p.frequency]
<1>1. p \in [word : Seq(W), index : Seq(Nat), frequency : Seq(Nat)]
        /\ Len(p.index) = Len(p.word) /\ Len(p.frequency) = Len(p.word)
  BY DEF PairLists
<1> QED  BY <1>1

LEMMA ZippedEntries ==
  ASSUME NEW W, NEW p \in PairLists(W)
  PROVE  /\ Zipped(p) \in Seq(DumpEntry(W))
         /\ Len(Zipped(p)) = Len(p.word)
         /\ \A i \in 1 .. Len(p.word) :
              Zipped(p)[i] = [word |-> p.word[i], index |-> p.index[i],
                              frequency |-> p.frequency[i]]
<1>1. PICK k \in Nat : k = Len(p.word)
  BY PairParts
<1>2. /\ DOMAIN p.word = 1 .. k /\ p.word \in Seq(W)
      /\ p.index \in Seq(Nat) /\ Len(p.index) = k
      /\ p.frequency \in Seq(Nat) /\ Len(p.frequency) = k
  BY <1>1, PairParts
<1>3. \A i \in 1 .. k : p.word[i] \in W /\ p.index[i] \in Nat /\ p.frequency[i] \in Nat
  BY <1>2
<1>4. Zipped(p) = [i \in 1 .. k |->
        [word |-> p.word[i], index |-> p.index[i], frequency |-> p.frequency[i]]]
  BY <1>2 DEF Zipped
<1>5. \A i \in 1 .. k :
        [word |-> p.word[i], index |-> p.index[i], frequency |-> p.frequency[i]]
          \in DumpEntry(W)
  BY <1>3 DEF DumpEntry
<1>6. Zipped(p) \in [1 .. k -> DumpEntry(W)]
  BY <1>4, <1>5
<1>7. Zipped(p) \in Seq(DumpEntry(W)) /\ Len(Zipped(p)) = k
  BY <1>6
<1> QED  BY <1>1, <1>4, <1>7

LEMMA NoPairs ==
  ASSUME NEW W
  PROVE  ClearPair \in PairLists(W) /\ Zipped(ClearPair) = <<>>
<1>1. ClearPair \in PairLists(W)
  BY DEF ClearPair, PairLists
<1>2. Zipped(ClearPair) \in Seq(DumpEntry(W)) /\ Len(Zipped(ClearPair)) = 0
  BY <1>1, ZippedEntries DEF ClearPair
<1> QED  BY <1>1, <1>2

LEMMA PairAdded ==
  ASSUME NEW W, NEW p \in PairLists(W), NEW e \in DumpEntry(W)
  PROVE  Added(p, e) \in PairLists(W) /\ Zipped(Added(p, e)) = Append(Zipped(p), e)
<1>1. PICK k \in Nat : k = Len(p.word)
  BY PairParts
<1>2. /\ p.word \in Seq(W) /\ p.index \in Seq(Nat) /\ p.frequency \in Seq(Nat)
      /\ Len(p.word) = k /\ Len(p.index) = k /\ Len(p.frequency) = k
  BY <1>1, PairParts
<1>3. /\ e.word \in W /\ e.index \in Nat /\ e.frequency \in Nat
      /\ e = [word |-> e.word, index |-> e.index, frequency |-> e.frequency]
  BY DEF DumpEntry
<1>4. PICK q : q = Added(p, e)
  OBVIOUS
<1>5. q = [word      |-> Append(p.word, e.word),
           index     |-> Append(p.index, e.index),
           frequency |-> Append(p.frequency, e.frequency)]
  BY <1>4 DEF Added
<1>20. /\ q.word = Append(p.word, e.word) /\ q.index = Append(p.index, e.index)
       /\ q.frequency = Append(p.frequency, e.frequency)
  BY <1>5
<1>21. /\ q.word \in Seq(W) /\ Len(q.word) = k + 1 /\ q.word[k + 1] = e.word
       /\ \A i \in 1 .. k : q.word[i] = p.word[i]
  BY <1>2, <1>3, <1>20
<1>22. /\ q.index \in Seq(Nat) /\ Len(q.index) = k + 1 /\ q.index[k + 1] = e.index
       /\ \A i \in 1 .. k : q.index[i] = p.index[i]
  BY <1>2, <1>3, <1>20
<1>23. /\ q.frequency \in Seq(Nat) /\ Len(q.frequency) = k + 1
       /\ q.frequency[k + 1] = e.frequency
       /\ \A i \in 1 .. k : q.frequency[i] = p.frequency[i]
  BY <1>2, <1>3, <1>20
<1>6. /\ q.word \in Seq(W) /\ q.index \in Seq(Nat) /\ q.frequency \in Seq(Nat)
      /\ Len(q.word) = k + 1 /\ Len(q.index) = k + 1 /\ Len(q.frequency) = k + 1
      /\ q.word[k + 1] = e.word /\ q.index[k + 1] = e.index
      /\ q.frequency[k + 1] = e.frequency
      /\ \A i \in 1 .. k : /\ q.word[i] = p.word[i] /\ q.index[i] = p.index[i]
                           /\ q.frequency[i] = p.frequency[i]
  BY <1>21, <1>22, <1>23
<1>7. q \in PairLists(W)
  BY <1>5, <1>6 DEF PairLists
<1>8. PICK z : z = Zipped(p)
  OBVIOUS
<1>9. z \in Seq(DumpEntry(W)) /\ Len(z) = k
  BY <1>1, <1>8, ZippedEntries
<1>10. PICK y : y = Zipped(q)
  OBVIOUS
<1>11. y \in Seq(DumpEntry(W)) /\ Len(y) = k + 1
  BY <1>6, <1>7, <1>10, ZippedEntries
<1>12. y[k + 1] = e
  <2>1. y[k + 1] = [word |-> q.word[k + 1], index |-> q.index[k + 1],
                    frequency |-> q.frequency[k + 1]]
    BY <1>6, <1>7, <1>10, ZippedEntries
  <2> QED  BY <1>3, <1>6, <2>1
<1>13. \A i \in 1 .. k : y[i] = z[i]
  <2> SUFFICES ASSUME NEW i \in 1 .. k PROVE y[i] = z[i]
    OBVIOUS
  <2>1. i \in 1 .. k + 1
    OBVIOUS
  <2>2. y[i] = [word |-> q.word[i], index |-> q.index[i], frequency |-> q.frequency[i]]
    BY <1>6, <1>7, <1>10, <2>1, ZippedEntries, SMTT(20)
  <2>3. z[i] = [word |-> p.word[i], index |-> p.index[i], frequency |-> p.frequency[i]]
    BY <1>1, <1>8, ZippedEntries
  <2> QED  BY <1>6, <2>2, <2>3
<1>14. y = Append(z, e)
  BY <1>9, <1>11, <1>12, <1>13
<1> QED  BY <1>4, <1>7, <1>8, <1>10, <1>14

LEMMA PairReadBack ==
  ASSUME NEW W, NEW p \in PairLists(W)
  PROVE  EntriesIn(SerializePair(p)) = Zipped(p)
<1>1. PICK r : r = SerializePair(p)
  OBVIOUS
<1>2. PICK q : q = MergePair(ClearPair, r)
  OBVIOUS
<1>3. DOMAIN ClearPair = {"word", "index", "frequency"}
      /\ \A g \in {"word", "index", "frequency"} : ClearPair[g] = <<>>
  BY DEF ClearPair
<1>4. r = [g \in {h \in {"word", "index", "frequency"} : p[h] # <<>>} |-> p[g]]
  BY <1>1, <1>3 DEF SerializePair
<1>5. q = [g \in {"word", "index", "frequency"} |->
             IF g \in DOMAIN r THEN <<>> \o r[g] ELSE <<>>]
  BY <1>2, <1>3 DEF MergePair
<1>6. /\ p.word \in Seq(W) /\ p.index \in Seq(Nat) /\ p.frequency \in Seq(Nat)
  BY PairParts
<1>7. q.word = p.word
  <2>1. "word" \in DOMAIN r => r["word"] = p["word"]
    BY <1>4
  <2>2. "word" \notin DOMAIN r => p["word"] = <<>>
    BY <1>4
  <2>3. <<>> \o p.word = p.word
    BY <1>6
  <2> QED  BY <1>5, <2>1, <2>2, <2>3
<1>8. q.index = p.index
  <2>1. "index" \in DOMAIN r => r["index"] = p["index"]
    BY <1>4
  <2>2. "index" \notin DOMAIN r => p["index"] = <<>>
    BY <1>4
  <2>3. <<>> \o p.index = p.index
    BY <1>6
  <2> QED  BY <1>5, <2>1, <2>2, <2>3
<1>9. q.frequency = p.frequency
  <2>1. "frequency" \in DOMAIN r => r["frequency"] = p["frequency"]
    BY <1>4
  <2>2. "frequency" \notin DOMAIN r => p["frequency"] = <<>>
    BY <1>4
  <2>3. <<>> \o p.frequency = p.frequency
    BY <1>6
  <2> QED  BY <1>5, <2>1, <2>2, <2>3
<1>10. EntriesIn(r) = Zipped(q)
  BY <1>2 DEF EntriesIn, Zipped
<1> QED  BY <1>1, <1>7, <1>8, <1>9, <1>10 DEF Zipped

-----------------------------------------------------------------------------
(***************************************************************************)
(* Records read one after the other: the entries es of the n first ones.   *)
(***************************************************************************)
ReadsAs(recs, n, es) ==
  \E h : /\ h[0] = <<>>
         /\ \A m \in 0 .. n - 1 : h[m + 1] = ReadPair(h[m], recs[m + 1])
         /\ h[n] = es

LEMMA ReadsNothing ==
  ASSUME NEW recs
  PROVE  ReadsAs(recs, 0, <<>>)
<1>1. PICK h : h = [m \in {0} |-> <<>>]
  OBVIOUS
<1>2. /\ h[0] = <<>>
      /\ \A m \in 0 .. 0 - 1 : h[m + 1] = ReadPair(h[m], recs[m + 1])
  BY <1>1
<1> QED  BY <1>2 DEF ReadsAs

LEMMA ReadsOneMore ==
  ASSUME NEW W, NEW n \in Nat, NEW recs, NEW more, NEW es, ReadsAs(recs, n, es),
         \A m \in 1 .. n : more[m] = recs[m],
         NEW p \in PairLists(W), more[n + 1] = SerializePair(p)
  PROVE  ReadsAs(more, n + 1, es \o Zipped(p))
<1>1. PICK h : /\ h[0] = <<>>
               /\ \A m \in 0 .. n - 1 : h[m + 1] = ReadPair(h[m], recs[m + 1])
               /\ h[n] = es
  BY DEF ReadsAs
<1>2. PICK g : g = [m \in 0 .. n + 1 |-> IF m = n + 1 THEN es \o Zipped(p) ELSE h[m]]
  OBVIOUS
<1>3. g[n + 1] = es \o Zipped(p) /\ \A m \in 0 .. n : g[m] = h[m]
  BY <1>2
<1>4. ASSUME NEW m \in 0 .. n PROVE g[m + 1] = ReadPair(g[m], more[m + 1])
  <2>1. CASE m = n
    <3>1. EntriesIn(more[n + 1]) = Zipped(p)
      BY PairReadBack
    <3>2. g[n] = es /\ g[n + 1] = es \o Zipped(p)
      BY <1>1, <1>3
    <3> QED  BY <2>1, <3>1, <3>2 DEF ReadPair
  <2>2. CASE m # n
    <3>1. m \in 0 .. n - 1 /\ m + 1 \in 0 .. n /\ m + 1 \in 1 .. n
      BY <2>2
    <3> QED  BY <1>1, <1>3, <3>1
  <2> QED  BY <2>1, <2>2
<1>5. /\ g[0] = <<>> /\ g[n + 1] = es \o Zipped(p)
      /\ \A m \in 0 .. (n + 1) - 1 : g[m + 1] = ReadPair(g[m], more[m + 1])
  BY <1>1, <1>3, <1>4
<1> QED  BY <1>5 DEF ReadsAs

\* EntriesOf() does the same.
ReadIn(s) == FoldLeft(ReadPair, <<>>, s)

Pairing(s, g) ==
  g = [t \in SUBSET DOMAIN s |->
         IF t = {} THEN <<>> ELSE ReadPair(g[t \ {Max(t)}], s[Max(t)])]

Paired(s) == CHOOSE g : Pairing(s, g)

LEMMA ReadsFold ==
  ASSUME NEW s, NEW n \in Nat, DOMAIN s = 1 .. n, NEW es, ReadsAs(s, n, es)
  PROVE  ReadIn(s) = es
<1>1. ReadIn(s) = Paired(s)[DOMAIN s]
  BY Zenon DEF ReadIn, FoldLeft, MapThenFoldSet, Paired, Pairing
<1>2. \A g : Folds(Fold("records", {}), <<>>, s, g) <=> Pairing(s, g)
  BY DEF Folds, Pairing, Unfolded, OneStep, Fold
<1>3. Pairing(s, Paired(s))
  BY <1>2, FoldExists, Zenon DEF Paired
<1>4. Folds(Fold("records", {}), <<>>, s, Paired(s))
  BY <1>2, <1>3
<1>5. \A acc, x : OneStep(Fold("records", {}), acc, x) = ReadPair(acc, x)
  BY DEF OneStep, Fold
<1>6. PICK g : g = Paired(s)
  OBVIOUS
<1>7. /\ g[1 .. 0] = <<>>
      /\ \A m \in 0 .. n - 1 : g[1 .. m + 1] = ReadPair(g[1 .. m], s[m + 1])
  <2>1. Folds(Fold("records", {}), <<>>, s, g)
    BY <1>4, <1>6
  <2>2. Runs(Fold("records", {}), <<>>, s, n, g)
    BY <2>1, FoldUnfolds
  <2> QED  BY <1>5, <2>2 DEF Runs
<1>8. PICK h : /\ h[0] = <<>>
               /\ \A m \in 0 .. n - 1 : h[m + 1] = ReadPair(h[m], s[m + 1])
               /\ h[n] = es
  BY DEF ReadsAs
<1> DEFINE Good == {m \in Nat : m <= n => g[1 .. m] = h[m]}
<1>9. 0 \in Good
  BY <1>7, <1>8
<1>10. ASSUME NEW m \in Nat, m \in Good PROVE m + 1 \in Good
  <2> SUFFICES ASSUME m + 1 <= n PROVE g[1 .. m + 1] = h[m + 1]
    OBVIOUS
  <2>1. m \in 0 .. n - 1 /\ g[1 .. m] = h[m]
    BY <1>10
  <2> QED  BY <1>7, <1>8, <2>1
<1> HIDE DEF Good
<1>11. n \in Good
  BY <1>9, <1>10, NatSetInduction
<1>12. g[1 .. n] = h[n]
  BY <1>11 DEF Good
<1> QED  BY <1>1, <1>6, <1>8, <1>12

-----------------------------------------------------------------------------
(***************************************************************************)
(* What dump() has written, and what it still has in word_ind_pair, are    *)
(* the first n entries.                                                    *)
(***************************************************************************)
Writes(W, order, out, n) ==
  /\ DOMAIN out = {"i", "records", "wipair"}
  /\ out.records \in Seq(Records(W)) /\ out.wipair \in PairLists(W)
  /\ \E es \in Seq(DumpEntry(W)) :
       /\ ReadsAs(out.records, Len(out.records), es)
       /\ es \o Zipped(out.wipair) = SubSeq(order, 1, n)

LEMMA BatchWritten ==
  ASSUME NEW W, NEW order \in Seq(DumpEntry(W)), NEW n, NEW out, Writes(W, order, out, n)
  PROVE  /\ Writes(W, order, WriteBatch(out), n)
         /\ WriteBatch(out).wipair = ClearPair
<1>1. PICK next : next = WriteBatch(out)
  OBVIOUS
<1>2. PICK p, recs : p = out.wipair /\ recs = out.records
  OBVIOUS
<1>3. p \in PairLists(W) /\ recs \in Seq(Records(W)) /\ SerializePair(p) \in Records(W)
  BY <1>2 DEF Writes, Records
<1>4. PICK r \in Records(W) : r = SerializePair(p)
  BY <1>3
<1>5. DOMAIN next = {"i", "records", "wipair"}
      /\ next.records = Append(recs, r) /\ next.wipair = ClearPair
  BY <1>1, <1>2, <1>4 DEF WriteBatch, Writes
<1>6. PICK k \in Nat : k = Len(recs)
  BY <1>3
<1>7. PICK more : more = Append(recs, r)
  OBVIOUS
<1>8. /\ more \in Seq(Records(W)) /\ Len(more) = k + 1 /\ more[k + 1] = r
      /\ \A m \in 1 .. k : more[m] = recs[m]
  BY <1>3, <1>6, <1>7
<1>9. PICK es \in Seq(DumpEntry(W)) :
        ReadsAs(recs, k, es) /\ es \o Zipped(p) = SubSeq(order, 1, n)
  BY <1>2, <1>6 DEF Writes
<1>10. ReadsAs(more, k + 1, es \o Zipped(p))
  BY <1>3, <1>4, <1>8, <1>9, ReadsOneMore
<1>11. PICK z : z = es \o Zipped(p)
  OBVIOUS
<1>12. z \in Seq(DumpEntry(W))
  <2>1. Zipped(p) \in Seq(DumpEntry(W))
    BY <1>3, ZippedEntries
  <2> QED  BY <1>11, <2>1
<1>13. ClearPair \in PairLists(W) /\ z \o Zipped(ClearPair) = z
  <2>1. z \o <<>> = z
    BY <1>12
  <2> QED  BY <2>1, NoPairs
<1> QED  BY <1>1, <1>5, <1>7, <1>8, <1>9, <1>10, <1>11, <1>12, <1>13 DEF Writes

LEMMA EntryWritten ==
  ASSUME NEW W, NEW order \in Seq(DumpEntry(W)), NEW n \in 0 .. Len(order) - 1,
         NEW out, Writes(W, order, out, n)
  PROVE  Writes(W, order, AddEntry(out, order[n + 1]), n + 1)
<1>1. PICK e \in DumpEntry(W) : e = order[n + 1]
  <2>1. n + 1 \in 1 .. Len(order)
    OBVIOUS
  <2> QED  BY <2>1
<1>2. PICK p : p = out.wipair
  OBVIOUS
<1>3. p \in PairLists(W)
  BY <1>2 DEF Writes
<1>4. PICK next : next = [out EXCEPT !.i = @ + 1, !.wipair = Added(@, e)]
  OBVIOUS
<1>5. DOMAIN next = {"i", "records", "wipair"}
      /\ next.records = out.records /\ next.wipair = Added(p, e)
  BY <1>2, <1>4 DEF Writes
<1>6. PICK es \in Seq(DumpEntry(W)) :
        /\ ReadsAs(out.records, Len(out.records), es)
        /\ es \o Zipped(p) = SubSeq(order, 1, n)
  BY <1>2 DEF Writes
<1>7. Added(p, e) \in PairLists(W) /\ Zipped(Added(p, e)) = Append(Zipped(p), e)
  BY <1>3, PairAdded
<1>8. PICK z \in Seq(DumpEntry(W)) : z = Zipped(p)
  BY <1>3, ZippedEntries
<1>9. es \o Append(z, e) = SubSeq(order, 1, n + 1)
  <2>1. es \o Append(z, e) = Append(es \o z, e)
    OBVIOUS
  <2>2. Append(SubSeq(order, 1, n), order[n + 1]) = SubSeq(order, 1, n + 1)
    OBVIOUS
  <2> QED  BY <1>1, <1>6, <1>8, <2>1, <2>2
<1>10. Writes(W, order, next, n + 1)
  <2>1. out.records \in Seq(Records(W))
    BY DEF Writes
  <2> QED  BY <1>5, <1>6, <1>7, <1>8, <1>9, <2>1 DEF Writes
<1>11. AddEntry(out, e) = IF next.i % BATCH = 0 THEN WriteBatch(next) ELSE next
  BY <1>4, Zenon DEF AddEntry
<1>12. n + 1 \in Int /\ Writes(W, order, WriteBatch(next), n + 1)
  BY <1>10, BatchWritten
<1> QED  BY <1>1, <1>10, <1>11, <1>12

AllAdded(s) == FoldLeft(AddEntry, NoBatch, s)

Adding(s, g) ==
  g = [t \in SUBSET DOMAIN s |->
         IF t = {} THEN NoBatch ELSE AddEntry(g[t \ {Max(t)}], s[Max(t)])]

Filling(s) == CHOOSE g : Adding(s, g)

LEMMA EntriesWritten ==
  ASSUME NEW W, NEW order \in Seq(DumpEntry(W))
  PROVE  Writes(W, order, AllAdded(order), Len(order))
<1>1. PICK n \in Nat : n = Len(order) /\ DOMAIN order = 1 .. n
  OBVIOUS
<1>2. AllAdded(order) = Filling(order)[DOMAIN order]
  BY Zenon DEF AllAdded, FoldLeft, MapThenFoldSet, Filling, Adding
<1>3. \A g : Folds(Fold("batches", {}), NoBatch, order, g) <=> Adding(order, g)
  BY DEF Folds, Adding, Unfolded, OneStep, Fold
<1>4. Adding(order, Filling(order))
  BY <1>1, <1>3, FoldExists, Zenon DEF Filling
<1>5. Folds(Fold("batches", {}), NoBatch, order, Filling(order))
  BY <1>3, <1>4
<1>6. \A acc, x : OneStep(Fold("batches", {}), acc, x) = AddEntry(acc, x)
  BY DEF OneStep, Fold
<1>7. PICK g : g = Filling(order)
  OBVIOUS
<1>8. /\ g[1 .. 0] = NoBatch
      /\ \A m \in 0 .. n - 1 : g[1 .. m + 1] = AddEntry(g[1 .. m], order[m + 1])
  <2>1. n \in Nat /\ DOMAIN order = 1 .. n /\ Folds(Fold("batches", {}), NoBatch, order, g)
    BY <1>1, <1>5, <1>7
  <2>2. Runs(Fold("batches", {}), NoBatch, order, n, g)
    BY <2>1, FoldUnfolds
  <2> QED  BY <1>6, <2>2 DEF Runs
<1> DEFINE Good == {m \in Nat : m <= n => Writes(W, order, g[1 .. m], m)}
<1>9. 0 \in Good
  <2>1. ReadsAs(<<>>, 0, <<>>) /\ <<>> \in Seq(DumpEntry(W)) /\ Len(<<>>) = 0
    BY ReadsNothing
  <2>2. ClearPair \in PairLists(W) /\ Zipped(ClearPair) = <<>>
    BY NoPairs
  <2>3. <<>> \o <<>> = SubSeq(order, 1, 0)
    OBVIOUS
  <2>4. /\ DOMAIN NoBatch = {"i", "records", "wipair"}
        /\ NoBatch.records = <<>> /\ NoBatch.wipair = ClearPair
    BY DEF NoBatch
  <2>5. PICK out : out = NoBatch
    OBVIOUS
  <2>6. /\ DOMAIN out = {"i", "records", "wipair"}
        /\ out.records = <<>> /\ out.wipair = ClearPair
    BY <2>4, <2>5
  <2>7. <<>> \in Seq(Records(W))
    OBVIOUS
  <2>8. /\ out.records \in Seq(Records(W)) /\ out.wipair \in PairLists(W)
        /\ Len(out.records) = 0 /\ Zipped(out.wipair) = <<>>
    BY <2>1, <2>2, <2>6, <2>7
  <2>9. ReadsAs(out.records, Len(out.records), <<>>)
    BY <2>1, <2>6
  <2>10. Writes(W, order, out, 0)
    BY <2>1, <2>3, <2>6, <2>8, <2>9 DEF Writes
  <2> QED  BY <1>8, <2>5, <2>10
<1>10. ASSUME NEW m \in Nat, m \in Good PROVE m + 1 \in Good
  <2> SUFFICES ASSUME m + 1 <= n PROVE Writes(W, order, g[1 .. m + 1], m + 1)
    OBVIOUS
  <2>1. m \in 0 .. n - 1 /\ m \in 0 .. Len(order) - 1 /\ Writes(W, order, g[1 .. m], m)
    BY <1>1, <1>10
  <2> QED  BY <1>8, <2>1, EntryWritten
<1> HIDE DEF Good
<1>11. n \in Good
  BY <1>9, <1>10, NatSetInduction
<1> QED  BY <1>1, <1>2, <1>7, <1>11 DEF Good

(***************************************************************************)
(* dump(): the file has the entries in the order they were written,        *)
(* however many fill a record (WordIndexDictionary.cpp, dump() and the     *)
(* loop of initialize_from_dump()).                                        *)
(***************************************************************************)
LEMMA FileReadBack ==
  ASSUME NEW W, NEW order \in Seq(DumpEntry(W)), NEW header
  PROVE  /\ EntriesOf(<<header>> \o Batches(order)) = order
         /\ (<<header>> \o Batches(order))[1] = header
<1>1. PICK out : out = AllAdded(order)
  OBVIOUS
<1>2. PICK n \in Nat : n = Len(order)
  OBVIOUS
<1>3. Writes(W, order, out, n)
  BY <1>1, <1>2, EntriesWritten
<1>4. PICK last : last = IF out.wipair.word = <<>> THEN out ELSE WriteBatch(out)
  OBVIOUS
<1>5. Writes(W, order, last, n) /\ Zipped(last.wipair) = <<>>
  <2>1. CASE out.wipair.word = <<>>
    <3>1. PICK p \in PairLists(W) : p = out.wipair
      BY <1>3 DEF Writes
    <3>2. Zipped(p) \in Seq(DumpEntry(W)) /\ Len(Zipped(p)) = 0
      BY <2>1, <3>1, ZippedEntries
    <3> QED  BY <1>3, <1>4, <2>1, <3>1, <3>2
  <2>2. CASE out.wipair.word # <<>>
    BY <1>3, <1>4, <2>2, BatchWritten, NoPairs
  <2> QED  BY <2>1, <2>2
<1>6. Batches(order) = last.records
  <2>1. Batches(order) = IF out.wipair.word = <<>> THEN out.records
                         ELSE WriteBatch(out).records
    BY <1>1, Zenon DEF Batches, AllAdded
  <2> QED  BY <1>4, <2>1
<1>7. PICK recs \in Seq(Records(W)) : recs = last.records
  BY <1>5 DEF Writes
<1>8. ReadsAs(recs, Len(recs), order)
  <2>1. PICK es \in Seq(DumpEntry(W)) :
          ReadsAs(recs, Len(recs), es) /\ es \o <<>> = SubSeq(order, 1, n)
    BY <1>5, <1>7 DEF Writes
  <2>2. es \o <<>> = es /\ SubSeq(order, 1, n) = order
    BY <1>2
  <2> QED  BY <2>1, <2>2
<1>9. Tail(<<header>> \o recs) = recs /\ (<<header>> \o recs)[1] = header
  <2>1. recs \in Seq(Records(W) \cup {header}) /\ <<header>> \in Seq(Records(W) \cup {header})
    OBVIOUS
  <2> QED  BY <2>1
<1>10. EntriesOf(<<header>> \o recs) = ReadIn(recs)
  BY <1>9, Zenon DEF EntriesOf, ReadIn
<1>11. PICK k \in Nat : k = Len(recs) /\ DOMAIN recs = 1 .. k
  OBVIOUS
<1>12. ReadIn(recs) = order
  BY <1>8, <1>11, ReadsFold
<1> QED  BY <1>6, <1>7, <1>9, <1>10, <1>12

-----------------------------------------------------------------------------
(***************************************************************************)
(* A dictionary of the words of f, in whatever order its array is, and the *)
(* entry of a word in it.                                                  *)
(***************************************************************************)
Of(d, f) ==
  /\ IsFiniteSet(DOMAIN f) /\ \A w \in DOMAIN f : f[w] \in Nat
  /\ IsDictionaryOf(d, f)

EntryOf(d, w) ==
  [word |-> w, index |-> d.word_ind_map[w], frequency |-> Freq(d, d.word_ind_map[w])]

\* The parts of Of, with the number of words named: those about the indexes, and all.
IndexesAs(d, f, k) ==
  /\ k = Cardinality(DOMAIN f) /\ num_words(d) = k
  /\ DOMAIN d.word_ind_map = DOMAIN f
  /\ DOMAIN d.ind_word_map = 0 .. k - 1
  /\ \A w \in DOMAIN f :
       /\ d.word_ind_map[w] \in 0 .. k - 1
       /\ d.ind_word_map[d.word_ind_map[w]] = w
       /\ Freq(d, d.word_ind_map[w]) = f[w]
  /\ \A i \in 0 .. k - 1 : \E w \in DOMAIN f : d.word_ind_map[w] = i

OfAs(d, f, k) == IndexesAs(d, f, k) /\ \A w \in DOMAIN f : f[w] \in Nat

LEMMA IndexParts ==
  ASSUME NEW d, NEW f, IsFiniteSet(DOMAIN f), IsDictionaryOf(d, f)
  PROVE  \E k \in Nat : IndexesAs(d, f, k)
<1>1. PICK k \in Nat : k = Cardinality(DOMAIN f)
  BY FS_CardinalityType
<1>2. /\ num_words(d) = k /\ DOMAIN d.word_ind_map = DOMAIN f
      /\ DOMAIN d.ind_word_map = 0 .. k - 1
  BY <1>1 DEF IsDictionaryOf, num_words
<1>3. \A w \in DOMAIN f :
        /\ d.word_ind_map[w] \in 0 .. k - 1
        /\ d.ind_word_map[d.word_ind_map[w]] = w
        /\ Freq(d, d.word_ind_map[w]) = f[w]
  BY <1>2 DEF IsDictionaryOf
<1>4. PICK m : m = [w \in DOMAIN f |-> d.word_ind_map[w]]
  OBVIOUS
<1>5. m \in Injection(DOMAIN f, 0 .. k - 1)
  <2>1. m \in [DOMAIN f -> 0 .. k - 1]
    BY <1>3, <1>4
  <2>2. \A v, w \in DOMAIN f : m[v] = m[w] => v = w
    BY <1>3, <1>4
  <2> QED  BY <2>1, <2>2 DEF Injection, IsInjective
<1>6. IsFiniteSet(0 .. k - 1) /\ Cardinality(0 .. k - 1) = k
  <2>1. IsFiniteSet(0 .. k - 1)
          /\ Cardinality(0 .. k - 1) = IF 0 > k - 1 THEN 0 ELSE (k - 1) - 0 + 1
    <3>1. 0 \in Int /\ k - 1 \in Int
      OBVIOUS
    <3> QED  BY <3>1, FS_Interval
  <2> QED  BY <2>1
<1>7. m \in Surjection(DOMAIN f, 0 .. k - 1)
  BY <1>1, <1>5, <1>6, FS_Injection
<1>8. \A i \in 0 .. k - 1 : \E w \in DOMAIN f : d.word_ind_map[w] = i
  BY <1>4, <1>7 DEF Surjection
<1>9. IndexesAs(d, f, k)
  BY <1>1, <1>2, <1>3, <1>8 DEF IndexesAs
<1> QED  BY <1>9

LEMMA OfParts ==
  ASSUME NEW d, NEW f, Of(d, f)
  PROVE  \E k \in Nat : OfAs(d, f, k)
<1>1. PICK k \in Nat : IndexesAs(d, f, k)
  BY IndexParts DEF Of
<1> QED  BY <1>1 DEF Of, OfAs

LEMMA EntriesCounted ==
  ASSUME NEW d, NEW f, Of(d, f)
  PROVE  /\ Entries(d) = {EntryOf(d, w) : w \in DOMAIN f}
         /\ Entries(d) \subseteq DumpEntry(DOMAIN f)
         /\ IsFiniteSet(Entries(d)) /\ Cardinality(Entries(d)) = Cardinality(DOMAIN f)
<1>1. PICK k \in Nat :
        /\ DOMAIN d.word_ind_map = DOMAIN f
        /\ \A w \in DOMAIN f :
             /\ d.word_ind_map[w] \in 0 .. k - 1
             /\ Freq(d, d.word_ind_map[w]) = f[w] /\ f[w] \in Nat
  <2>1. PICK j \in Nat : OfAs(d, f, j)
    BY OfParts
  <2> QED  BY <2>1 DEF OfAs, IndexesAs
<1>2. Entries(d) = {EntryOf(d, w) : w \in DOMAIN f}
  BY <1>1, Zenon DEF Entries, EntryOf
<1>3. Entries(d) \subseteq DumpEntry(DOMAIN f)
  BY <1>1, <1>2 DEF EntryOf, DumpEntry
<1>4. PICK m : m = [w \in DOMAIN f |-> EntryOf(d, w)]
  OBVIOUS
<1>5. m \in Bijection(DOMAIN f, Entries(d))
  <2>1. m \in [DOMAIN f -> Entries(d)]
    BY <1>2, <1>4
  <2>2. \A w \in DOMAIN f : m[w].word = w
    BY <1>4 DEF EntryOf
  <2>3. \A v, w \in DOMAIN f : m[v] = m[w] => v = w
    BY <2>2
  <2>4. \A e \in Entries(d) : \E w \in DOMAIN f : m[w] = e
    BY <1>2, <1>4
  <2> QED  BY <2>1, <2>3, <2>4 DEF Bijection, Injection, Surjection, IsInjective
<1>6. ExistsBijection(DOMAIN f, Entries(d)) /\ IsFiniteSet(DOMAIN f)
  BY <1>5 DEF ExistsBijection, Of
<1> QED  BY <1>2, <1>3, <1>6, FS_Bijection

\* Each word has one place in the order of a dump.
LEMMA DumpOrder ==
  ASSUME NEW d, NEW f, Of(d, f), NEW order \in SetToSeqs(Entries(d))
  PROVE  /\ order \in Seq(DumpEntry(DOMAIN f))
         /\ \A i \in 1 .. Len(order) :
              order[i].word \in DOMAIN f /\ order[i] = EntryOf(d, order[i].word)
         /\ \A w \in DOMAIN f : \E i \in 1 .. Len(order) :
              /\ order[i] = EntryOf(d, w)
              /\ \A j \in 1 .. Len(order) : order[j].word = w => j = i
<1>1. PICK k \in Nat : k = Cardinality(DOMAIN f)
  BY FS_CardinalityType DEF Of
<1>2. PICK E : E = Entries(d)
  OBVIOUS
<1>3. /\ E = {EntryOf(d, w) : w \in DOMAIN f}
      /\ E \subseteq DumpEntry(DOMAIN f)
      /\ IsFiniteSet(E) /\ Cardinality(E) = k
  BY <1>1, <1>2, EntriesCounted
<1>4. order \in [1 .. k -> E] /\ \A i, j \in 1 .. k : i # j => order[i] # order[j]
  BY <1>2, <1>3 DEF SetToSeqs
<1>5. IsFiniteSet(1 .. k) /\ Cardinality(1 .. k) = k
  <2>1. IsFiniteSet(1 .. k) /\ Cardinality(1 .. k) = IF 1 > k THEN 0 ELSE k - 1 + 1
    BY FS_Interval
  <2> QED  BY <2>1
<1>6. order \in Injection(1 .. k, E)
  BY <1>4 DEF Injection, IsInjective
<1>7. order \in Surjection(1 .. k, E)
  BY <1>3, <1>5, <1>6, FS_Injection
<1>8. order \in Seq(DumpEntry(DOMAIN f)) /\ Len(order) = k
  BY <1>3, <1>4
<1>9. \A w : EntryOf(d, w).word = w
  BY DEF EntryOf
<1>10. \A i \in 1 .. k : order[i].word \in DOMAIN f /\ order[i] = EntryOf(d, order[i].word)
  BY <1>3, <1>4, <1>9
<1>11. ASSUME NEW w \in DOMAIN f
       PROVE  \E i \in 1 .. k : /\ order[i] = EntryOf(d, w)
                                /\ \A j \in 1 .. k : order[j].word = w => j = i
  <2>1. PICK i \in 1 .. k : order[i] = EntryOf(d, w)
    BY <1>3, <1>7 DEF Surjection
  <2>2. ASSUME NEW j \in 1 .. k, order[j].word = w PROVE j = i
    <3>1. order[j] = order[i]
      BY <1>10, <2>1, <2>2
    <3> QED  BY <1>4, <3>1
  <2> QED  BY <2>1, <2>2
<1> QED  BY <1>8, <1>10, <1>11

(***************************************************************************)
(* dump(): whatever order the hash map has the words in and however many   *)
(* fill a record, the file counts each word of the dictionary as often as  *)
(* the dictionary does, and no other.                                      *)
(***************************************************************************)
THEOREM DumpCountsTheWords ==
  ASSUME NEW d, NEW f, Of(d, f), NEW file \in Dumps(d)
  PROVE  /\ Legible(DOMAIN f, file)
         /\ WordsOf(file) = DOMAIN f
         /\ \A w \in DOMAIN f : CountOf(file, w) = f[w]
<1>1. PICK order \in SetToSeqs(Entries(d)) :
        file = <<Header(num_words(d))>> \o Batches(order)
  BY Zenon DEF Dumps
<1>2. PICK n \in Nat : n = Len(order)
  BY DumpOrder
<1>3. /\ order \in Seq(DumpEntry(DOMAIN f))
      /\ \A i \in 1 .. n :
           order[i].word \in DOMAIN f /\ order[i] = EntryOf(d, order[i].word)
      /\ \A w \in DOMAIN f : \E i \in 1 .. n :
           /\ order[i] = EntryOf(d, w)
           /\ \A j \in 1 .. n : order[j].word = w => j = i
  <2>1. /\ order \in Seq(DumpEntry(DOMAIN f))
        /\ \A i \in 1 .. Len(order) :
             order[i].word \in DOMAIN f /\ order[i] = EntryOf(d, order[i].word)
        /\ \A w \in DOMAIN f : \E i \in 1 .. Len(order) :
             /\ order[i] = EntryOf(d, w)
             /\ \A j \in 1 .. Len(order) : order[j].word = w => j = i
    BY DumpOrder
  <2> QED  BY <1>2, <2>1
<1>4. EntriesOf(file) = order
  BY <1>1, <1>3, FileReadBack
<1>5. \A w : EntryOf(d, w).word = w
  BY DEF EntryOf
<1>6. WordsIn(order, n) = DOMAIN f
  <2>1. \A w \in WordsIn(order, n) : w \in DOMAIN f
    BY <1>3 DEF WordsIn
  <2>2. ASSUME NEW w \in DOMAIN f PROVE w \in WordsIn(order, n)
    <3>1. PICK i \in 1 .. n : order[i] = EntryOf(d, w)
      BY <1>3
    <3>2. order[i].word = w
      BY <1>5, <3>1
    <3> QED  BY <3>2 DEF WordsIn
  <2> QED  BY <2>1, <2>2
<1>7. ASSUME NEW w \in DOMAIN f PROVE Times(order, n, w) = f[w]
  <2>1. PICK i \in 1 .. n : /\ order[i] = EntryOf(d, w)
                            /\ \A j \in 1 .. n : order[j].word = w => j = i
    BY <1>3
  <2>2. PICK o : o = Occurs(order, w)
    OBVIOUS
  <2>3. order[i].word = w /\ order[i].frequency = f[w] /\ f[w] \in Nat
    <3>1. Freq(d, d.word_ind_map[w]) = f[w] /\ f[w] \in Nat
      <4>1. PICK j \in Nat : OfAs(d, f, j)
        BY OfParts
      <4> QED  BY <4>1 DEF OfAs, IndexesAs
    <3> QED  BY <2>1, <3>1 DEF EntryOf
  <2>4. o[i] = f[w] /\ \A j \in 1 .. n : j # i => o[j] = 0
    <3>1. DOMAIN order = 1 .. n
      BY <1>2, <1>3
    <3> QED  BY <2>1, <2>2, <2>3, <3>1 DEF Occurs
  <2>5. IsFiniteSet(1 .. n)
    BY FS_Interval
  <2>6. \A j \in 1 .. n : o[j] \in Int
    BY <2>3, <2>4
  <2>7. SumFunctionOnSet(o, 1 .. n) = o[i] + SumFunctionOnSet(o, (1 .. n) \ {i})
    <3>1. PICK S : S = 1 .. n
      OBVIOUS
    <3>2. IsFiniteSet(S) /\ i \in S /\ \A j \in S : o[j] \in Int
      BY <2>5, <2>6, <3>1
    <3>3. SumFunctionOnSet(o, S) = o[i] + SumFunctionOnSet(o, S \ {i})
      BY <3>2, SumRemove, ZenonT(60)
    <3> QED  BY <3>1, <3>3
  <2>8. SumFunctionOnSet(o, (1 .. n) \ {i}) = 0
    <3>1. IsFiniteSet((1 .. n) \ {i}) /\ \A j \in (1 .. n) \ {i} : o[j] = 0
      BY <2>4, <2>5, FS_RemoveElement
    <3> QED  BY <3>1, SumZero
  <2>9. SumFunctionOnSet(o, 1 .. n) = f[w]
    BY <2>3, <2>4, <2>7, <2>8
  <2> QED  BY <2>2, <2>9 DEF Times
<1> QED  BY <1>2, <1>3, <1>4, <1>6, <1>7 DEF Legible, WordsOf, CountOf

\* The frequencies of all words of any of f, added up.
SumOfAll(f) ==
  [w \in UNION {DOMAIN f[m] : m \in DOMAIN f} |->
     SumFunctionOnSet([m \in DOMAIN f |-> IF w \in DOMAIN f[m] THEN f[m][w] ELSE 0],
                      DOMAIN f)]

(***************************************************************************)
(* Merge_Dictionaries: of dictionaries of the words of f[1] .. f[k], one   *)
(* per machine, the merged one is a dictionary of the words of any of      *)
(* them, each with its frequencies added up, in the order of these.        *)
(***************************************************************************)
THEOREM DictionariesAddUp ==
  ASSUME NEW k \in Nat, NEW dicts, NEW f, DOMAIN f = 1 .. k,
         \A m \in 1 .. k : Of(dicts[m], f[m]),
         NEW d \in initialize_from_dumps([m \in 1 .. k |-> Dumps(dicts[m])])
  PROVE  IsDictionaryOf(d, SumOfAll(f)) /\ IsByFrequency(d)
<1>1. PICK W : W = UNION {DOMAIN f[m] : m \in 1 .. k}
  OBVIOUS
<1>2. PICK dumps : dumps = [m \in 1 .. k |-> Dumps(dicts[m])]
  OBVIOUS
<1>3. DOMAIN dumps = 1 .. k /\ \A m \in 1 .. k : dumps[m] = Dumps(dicts[m])
  BY <1>2
<1>4. \A m \in 1 .. k : \A file \in dumps[m] :
        /\ Legible(DOMAIN f[m], file)
        /\ WordsOf(file) = DOMAIN f[m]
        /\ \A w \in DOMAIN f[m] : CountOf(file, w) = f[m][w]
  BY <1>3, DumpCountsTheWords
<1>5. \A m \in 1 .. k : \A file \in dumps[m] : Legible(W, file)
  <2> SUFFICES ASSUME NEW m \in 1 .. k, NEW file \in dumps[m] PROVE Legible(W, file)
    OBVIOUS
  <2>1. DOMAIN f[m] \subseteq W
    BY <1>1
  <2>2. EntriesOf(file) \in Seq(DumpEntry(DOMAIN f[m]))
    BY <1>4 DEF Legible
  <2>3. DumpEntry(DOMAIN f[m]) \subseteq DumpEntry(W)
    BY <2>1 DEF DumpEntry
  <2>4. EntriesOf(file) \in Seq(DumpEntry(W))
    BY <2>2, <2>3
  <2> QED  BY <2>4 DEF Legible
<1>6. PICK files : /\ Picked(files, dumps, k)
                   /\ IsDictionaryOf(d, Together(files))
                   /\ IsByFrequency(d)
  <2>1. d \in initialize_from_dumps(dumps)
    BY <1>2
  <2> QED  BY <1>3, <1>5, <2>1, MergeAddsUp
<1>7. DOMAIN files = 1 .. k /\ \A m \in 1 .. k : files[m] \in dumps[m]
  BY <1>6 DEF Picked
<1>8. PICK g : g = Together(files)
  OBVIOUS
<1>9. PICK s : s = SumOfAll(f)
  OBVIOUS
<1>10. DOMAIN g = W /\ DOMAIN s = W
  <2>1. \A m \in 1 .. k : WordsOf(files[m]) = DOMAIN f[m]
    BY <1>4, <1>7
  <2>2. DOMAIN g = UNION {WordsOf(files[m]) : m \in 1 .. k}
    BY <1>7, <1>8 DEF Together
  <2> QED  BY <1>1, <1>9, <2>1, <2>2 DEF SumOfAll
<1>11. ASSUME NEW w \in W PROVE g[w] = s[w]
  <2>1. PICK c : c = Counts(files, w)
    OBVIOUS
  <2>2. PICK b : b = [m \in 1 .. k |-> IF w \in DOMAIN f[m] THEN f[m][w] ELSE 0]
    OBVIOUS
  <2>3. ASSUME NEW m \in 1 .. k PROVE c[m] \in Int /\ b[m] = c[m]
    <3>1. /\ Legible(W, files[m]) /\ WordsOf(files[m]) = DOMAIN f[m]
          /\ (w \in DOMAIN f[m] => CountOf(files[m], w) = f[m][w])
      BY <1>4, <1>5, <1>7
    <3>2. CountOf(files[m], w) \in Nat
            /\ (w \notin WordsOf(files[m]) => CountOf(files[m], w) = 0)
      BY <3>1, CountOfFile
    <3>3. c[m] = CountOf(files[m], w)
      BY <1>7, <2>1 DEF Counts
    <3> QED  BY <2>2, <3>1, <3>2, <3>3
  <2>4. SumFunctionOnSet(b, 1 .. k) = SumFunctionOnSet(c, 1 .. k)
    <3>1. IsFiniteSet(1 .. k)
      BY FS_Interval
    <3> QED  BY <2>3, <3>1, SumSame
  <2>5. g[w] = SumFunctionOnSet(c, 1 .. k)
    <3>1. \E i \in DOMAIN files : w \in WordsOf(files[i])
      <4>1. w \in DOMAIN g
        BY <1>10
      <4> QED  BY <1>8, <4>1 DEF Together
    <3> QED  BY <1>7, <1>8, <2>1, <3>1 DEF Together
  <2>6. s[w] = SumFunctionOnSet(b, 1 .. k)
    <3>1. \E m \in 1 .. k : w \in DOMAIN f[m]
      BY <1>1
    <3> QED  BY <1>9, <2>2, <3>1 DEF SumOfAll
  <2> QED  BY <2>4, <2>5, <2>6
<1>12. IsDictionaryOf(d, s)
  <2>1. IsDictionaryOf(d, g)
    BY <1>6, <1>8
  <2>2. DOMAIN g = DOMAIN s /\ \A w \in DOMAIN s : g[w] = s[w]
    BY <1>10, <1>11
  <2> QED  BY <2>1, <2>2 DEF IsDictionaryOf
<1> QED  BY <1>6, <1>9, <1>12

-----------------------------------------------------------------------------
(***************************************************************************)
(* initialize_from_dump() of what dump() has written: the words with an    *)
(* index below the limit.                                                  *)
(***************************************************************************)
Kept(d, f, limit) == [w \in {v \in DOMAIN f : d.word_ind_map[v] < limit} |-> f[w]]

\* initialize_from_dump() with the entries that are kept named.
LoadedFrom(kept, num, limit) ==
  [word_ind_map  |-> [w \in {x.word : x \in kept} |-> (CHOOSE x \in kept : x.word = w).index],
   ind_word_map  |-> [i \in {x.index : x \in kept} |-> (CHOOSE x \in kept : x.index = i).word],
   frequencies   |-> [n \in 1 .. Min({num, limit}) |->
      [first |-> n - 1, second |-> (CHOOSE x \in kept : x.index = n - 1).frequency]],
   current_index |-> Max({-1} \cup {x.index : x \in kept}) + 1]

LEMMA SmallerOfTwo ==
  ASSUME NEW a \in Nat, NEW b \in Nat
  PROVE  \E m \in Nat : m = Min({a, b}) /\ m <= a /\ m <= b /\ (m = a \/ m = b)
<1>1. \E x \in {a, b} : \A y \in {a, b} : x =< y
  OBVIOUS
<1>2. Min({a, b}) \in {a, b} /\ \A y \in {a, b} : Min({a, b}) =< y
  BY <1>1 DEF Min
<1> QED  BY <1>2

LEMMA OneAboveTheLast ==
  ASSUME NEW m \in Nat
  PROVE  Max({-1} \cup (0 .. m - 1)) + 1 = m
<1>1. m - 1 \in {-1} \cup (0 .. m - 1) /\ \A y \in {-1} \cup (0 .. m - 1) : m - 1 >= y
  OBVIOUS
<1>2. PICK S : S = {-1} \cup (0 .. m - 1)
  OBVIOUS
<1>3. Max(S) \in S /\ \A y \in S : Max(S) >= y
  <2>1. \E x \in S : \A y \in S : x >= y
    BY <1>1, <1>2
  <2> QED  BY <2>1 DEF Max
<1>4. PICK x \in Int : x = Max(S)
  BY <1>2, <1>3
<1>5. x = m - 1
  <2>1. m - 1 \in S /\ x \in S
    BY <1>1, <1>2, <1>3, <1>4
  <2>2. x >= m - 1
    BY <1>3, <1>4, <2>1
  <2>3. m - 1 >= x
    BY <1>1, <1>2, <2>1
  <2> QED  BY <2>2, <2>3
<1>6. Max(S) + 1 = m
  BY <1>4, <1>5
<1> QED  BY <1>2, <1>6

\* What is in a dump: its header, and the entries in some order.
LEMMA DumpParts ==
  ASSUME NEW d, NEW f, Of(d, f), NEW file \in Dumps(d)
  PROVE  /\ verify_header(file[1]) = num_words(d)
         /\ Range(EntriesOf(file)) = {EntryOf(d, w) : w \in DOMAIN f}
<1>1. PICK order \in SetToSeqs(Entries(d)) :
        file = <<Header(num_words(d))>> \o Batches(order)
  BY Zenon DEF Dumps
<1>2. /\ order \in Seq(DumpEntry(DOMAIN f))
      /\ \A i \in 1 .. Len(order) :
           order[i].word \in DOMAIN f /\ order[i] = EntryOf(d, order[i].word)
      /\ \A w \in DOMAIN f : \E i \in 1 .. Len(order) :
           /\ order[i] = EntryOf(d, w)
           /\ \A j \in 1 .. Len(order) : order[j].word = w => j = i
  BY DumpOrder
<1>3. EntriesOf(file) = order
  BY <1>1, <1>2, FileReadBack
<1>4. file[1] = Header(num_words(d))
  BY <1>1, <1>2, FileReadBack
<1>5. verify_header(file[1]) = num_words(d)
  <2>1. PICK h : h = Header(num_words(d))
    OBVIOUS
  <2>2. DOMAIN h = {"num_words"} /\ h.num_words = num_words(d)
    BY <2>1 DEF Header
  <2>3. verify_header(h) = num_words(d)
    BY <2>2 DEF verify_header
  <2> QED  BY <1>4, <2>1, <2>3
<1>6. Range(order) = {EntryOf(d, w) : w \in DOMAIN f}
  <2>1. DOMAIN order = 1 .. Len(order)
    BY <1>2
  <2>2. \A x \in Range(order) : \E w \in DOMAIN f : x = EntryOf(d, w)
    BY <1>2, <2>1 DEF Range
  <2>3. ASSUME NEW w \in DOMAIN f PROVE EntryOf(d, w) \in Range(order)
    <3>1. PICK i \in 1 .. Len(order) : order[i] = EntryOf(d, w)
      BY <1>2
    <3> QED  BY <2>1, <3>1 DEF Range
  <2> QED  BY <2>2, <2>3
<1> QED  BY <1>3, <1>5, <1>6

(***************************************************************************)
(* dump() and initialize_from_dump(): the loaded dictionary has the words  *)
(* below the limit, each at the index and with the frequency it had, and   *)
(* the next index is the number of them, whatever order and records the    *)
(* file has.                                                               *)
(***************************************************************************)
THEOREM LoadedAsDumped ==
  ASSUME NEW d, NEW f, Of(d, f), NEW file \in Dumps(d), NEW limit \in Nat,
         NEW e, e = initialize_from_dump(file, limit)
  PROVE  /\ Lists(e, Kept(d, f, limit))
         /\ \A w \in DOMAIN Kept(d, f, limit) : e.word_ind_map[w] = d.word_ind_map[w]
         /\ e.current_index = num_words(e)
<1>1. PICK k \in Nat :
        /\ k = Cardinality(DOMAIN f) /\ num_words(d) = k
        /\ \A w \in DOMAIN f :
             /\ d.word_ind_map[w] \in 0 .. k - 1
             /\ d.ind_word_map[d.word_ind_map[w]] = w
             /\ Freq(d, d.word_ind_map[w]) = f[w] /\ f[w] \in Nat
        /\ \A i \in 0 .. k - 1 : \E w \in DOMAIN f : d.word_ind_map[w] = i
  <2>1. PICK j \in Nat : OfAs(d, f, j)
    BY OfParts
  <2> QED  BY <2>1 DEF OfAs, IndexesAs
<1>2. PICK m \in Nat : m = Min({k, limit}) /\ m <= k /\ m <= limit /\ (m = k \/ m = limit)
  BY SmallerOfTwo
<1>3. PICK kept : kept = {x \in Range(EntriesOf(file)) : x.index < limit}
  OBVIOUS
<1>4. PICK g, D : g = Kept(d, f, limit) /\ D = {v \in DOMAIN f : d.word_ind_map[v] < limit}
  OBVIOUS
<1>5. \A w : EntryOf(d, w).word = w /\ EntryOf(d, w).index = d.word_ind_map[w]
               /\ EntryOf(d, w).frequency = Freq(d, d.word_ind_map[w])
  BY DEF EntryOf
<1>6. kept = {EntryOf(d, w) : w \in D}
  <2>1. Range(EntriesOf(file)) = {EntryOf(d, w) : w \in DOMAIN f}
    BY DumpParts
  <2> QED  BY <1>3, <1>4, <1>5, <2>1
<1>7. DOMAIN g = D /\ \A w \in D : g[w] = f[w]
  BY <1>4 DEF Kept
<1>8. \A w \in D : w \in DOMAIN f /\ d.word_ind_map[w] \in 0 .. m - 1
  BY <1>1, <1>2, <1>4
<1>9. \A i \in 0 .. m - 1 : \E w \in D : d.word_ind_map[w] = i
  BY <1>1, <1>2, <1>4
<1>10. {x.word : x \in kept} = D /\ {x.index : x \in kept} = 0 .. m - 1
  <2>1. {x.word : x \in kept} = D
    BY <1>5, <1>6
  <2>2. \A i \in 0 .. m - 1 : i \in {x.index : x \in kept}
    BY <1>5, <1>6, <1>9
  <2>3. \A i \in {x.index : x \in kept} : i \in 0 .. m - 1
    BY <1>5, <1>6, <1>8
  <2> QED  BY <2>1, <2>2, <2>3
<1>11. ASSUME NEW w \in D
       PROVE  /\ (CHOOSE x \in kept : x.word = w) = EntryOf(d, w)
              /\ (CHOOSE x \in kept : x.index = d.word_ind_map[w]) = EntryOf(d, w)
  <2>1. EntryOf(d, w) \in kept
    BY <1>6
  <2>2. \A x \in kept : x.word = w => x = EntryOf(d, w)
    BY <1>5, <1>6
  <2>3. \A x \in kept : x.index = d.word_ind_map[w] => x = EntryOf(d, w)
    <3> SUFFICES ASSUME NEW v \in D, d.word_ind_map[v] = d.word_ind_map[w]
                 PROVE  v = w
      BY <1>5, <1>6
    <3> QED  BY <1>1, <1>8
  <2>4. (CHOOSE x \in kept : x.word = w) = EntryOf(d, w)
    BY <1>5, <2>1, <2>2
  <2>5. (CHOOSE x \in kept : x.index = d.word_ind_map[w]) = EntryOf(d, w)
    BY <1>5, <2>1, <2>3
  <2> QED  BY <2>4, <2>5
<1>12. /\ DOMAIN e = DictionaryFields
       /\ e.word_ind_map = [w \in D |-> (CHOOSE x \in kept : x.word = w).index]
       /\ e.ind_word_map = [i \in 0 .. m - 1 |-> (CHOOSE x \in kept : x.index = i).word]
       /\ e.frequencies = [n \in 1 .. m |->
            [first |-> n - 1, second |-> (CHOOSE x \in kept : x.index = n - 1).frequency]]
       /\ e.current_index = m
  <2>1. e = [word_ind_map  |-> [w \in {x.word : x \in kept} |->
                                  (CHOOSE x \in kept : x.word = w).index],
             ind_word_map  |-> [i \in {x.index : x \in kept} |->
                                  (CHOOSE x \in kept : x.index = i).word],
             frequencies   |-> [n \in 1 .. Min({verify_header(file[1]), limit}) |->
                [first |-> n - 1, second |-> (CHOOSE x \in kept : x.index = n - 1).frequency]],
             current_index |-> Max({-1} \cup {x.index : x \in kept}) + 1]
    <3>1. initialize_from_dump(file, limit) =
            LoadedFrom({x \in Range(EntriesOf(file)) : x.index < limit},
                       verify_header(file[1]), limit)
      BY Zenon DEF initialize_from_dump, LoadedFrom
    <3>2. e = LoadedFrom(kept, verify_header(file[1]), limit)
      BY <1>3, <3>1
    <3> QED  BY <3>2, Zenon DEF LoadedFrom
  <2>2. verify_header(file[1]) = k
    BY <1>1, DumpParts
  <2>3. Max({-1} \cup (0 .. m - 1)) + 1 = m
    BY OneAboveTheLast
  <2>4. DOMAIN e = DictionaryFields
    BY <2>1 DEF DictionaryFields
  <2>5. e.word_ind_map = [w \in D |-> (CHOOSE x \in kept : x.word = w).index]
    BY <1>10, <2>1
  <2>6. e.ind_word_map = [i \in 0 .. m - 1 |-> (CHOOSE x \in kept : x.index = i).word]
    BY <1>10, <2>1
  <2>7. e.frequencies = [n \in 1 .. m |->
          [first |-> n - 1, second |-> (CHOOSE x \in kept : x.index = n - 1).frequency]]
    BY <1>2, <2>1, <2>2
  <2>8. e.current_index = m
    <3>1. e.current_index = Max({-1} \cup {x.index : x \in kept}) + 1
      BY <2>1
    <3> QED  BY <1>10, <2>3, <3>1
  <2> QED  BY <2>4, <2>5, <2>6, <2>7, <2>8
<1>13. ASSUME NEW i \in 0 .. m - 1
       PROVE  \E w \in D : /\ d.word_ind_map[w] = i
                           /\ e.ind_word_map[i] = w
                           /\ e.frequencies[i + 1] = [first |-> i, second |-> f[w]]
  <2>1. PICK w \in D : d.word_ind_map[w] = i
    BY <1>9
  <2>2. PICK c : c = CHOOSE x \in kept : x.index = i
    OBVIOUS
  <2>3. c = EntryOf(d, w)
    BY <1>11, <2>1, <2>2
  <2>4. c.word = w /\ c.frequency = f[w]
    BY <1>1, <1>5, <1>8, <2>3
  <2>5. e.ind_word_map[i] = w
    BY <1>12, <2>2, <2>4
  <2>6. e.frequencies[i + 1] = [first |-> i, second |-> f[w]]
    <3>1. i + 1 \in 1 .. m /\ (i + 1) - 1 = i
      OBVIOUS
    <3>2. e.frequencies[i + 1] =
            [first |-> (i + 1) - 1,
             second |-> (CHOOSE x \in kept : x.index = (i + 1) - 1).frequency]
      BY <1>12, <3>1
    <3> QED  BY <2>2, <2>4, <3>1, <3>2
  <2> QED  BY <2>1, <2>5, <2>6
<1>14. ASSUME NEW w \in D PROVE e.word_ind_map[w] = d.word_ind_map[w]
  <2>1. PICK c : c = CHOOSE x \in kept : x.word = w
    OBVIOUS
  <2>2. c = EntryOf(d, w)
    BY <1>11, <2>1
  <2>3. e.word_ind_map[w] = c.index
    BY <1>12, <2>1
  <2> QED  BY <1>5, <2>2, <2>3
<1>15. IsFiniteSet(D) /\ Cardinality(D) = m
  <2>1. PICK b : b = [w \in D |-> d.word_ind_map[w]]
    OBVIOUS
  <2>2. b \in [D -> 0 .. m - 1]
    BY <1>8, <2>1
  <2>3. \A v, w \in D : b[v] = b[w] => v = w
    BY <1>1, <1>8, <2>1
  <2>4. \A i \in 0 .. m - 1 : \E w \in D : b[w] = i
    BY <1>9, <2>1
  <2>5. ExistsBijection(D, 0 .. m - 1)
    BY <2>2, <2>3, <2>4 DEF ExistsBijection, Bijection, Injection, Surjection, IsInjective
  <2>6. IsFiniteSet(D)
    <3>1. IsFiniteSet(DOMAIN f) /\ D \in SUBSET DOMAIN f
      BY <1>4 DEF Of
    <3> QED  BY <3>1, FS_Subset
  <2>7. Cardinality(0 .. m - 1) = Cardinality(D)
    BY <2>5, <2>6, FS_Bijection
  <2>8. Cardinality(0 .. m - 1) = m
    <3>1. 0 \in Int /\ m - 1 \in Int
      OBVIOUS
    <3>2. Cardinality(0 .. m - 1) = IF 0 > m - 1 THEN 0 ELSE (m - 1) - 0 + 1
      BY <3>1, FS_Interval
    <3> QED  BY <3>2
  <2> QED  BY <2>6, <2>7, <2>8
<1>16. num_words(e) = m /\ DOMAIN e.word_ind_map = D
  BY <1>12, <1>15 DEF num_words
<1>17. ListsAs(e, g, m)
  <2>1. DOMAIN e.ind_word_map = 0 .. m - 1
    BY <1>12
  <2>2. ASSUME NEW w \in D
        PROVE  /\ e.word_ind_map[w] \in 0 .. m - 1
               /\ e.ind_word_map[e.word_ind_map[w]] = w
               /\ e.frequencies[e.word_ind_map[w] + 1].second = g[w]
    <3>1. PICK i \in 0 .. m - 1 : i = d.word_ind_map[w]
      BY <1>8
    <3>2. PICK v \in D : /\ d.word_ind_map[v] = i /\ e.ind_word_map[i] = v
                         /\ e.frequencies[i + 1] = [first |-> i, second |-> f[v]]
      BY <1>13
    <3>3. v = w
      BY <1>1, <1>8, <3>1, <3>2
    <3> QED  BY <1>7, <1>14, <3>1, <3>2, <3>3
  <2>3. ASSUME NEW i \in 0 .. m - 1
        PROVE  e.ind_word_map[i] \in D /\ e.word_ind_map[e.ind_word_map[i]] = i
    <3>1. PICK w \in D : d.word_ind_map[w] = i /\ e.ind_word_map[i] = w
      BY <1>13
    <3> QED  BY <1>14, <3>1
  <2>4. ASSUME NEW n \in 1 .. m
        PROVE  e.frequencies[n] \in Frequencies /\ e.frequencies[n].first = n - 1
    <3>1. PICK i \in 0 .. m - 1 : i = n - 1 /\ i + 1 = n
      OBVIOUS
    <3>2. PICK w \in D : e.frequencies[i + 1] = [first |-> i, second |-> f[w]]
      BY <1>13
    <3>3. f[w] \in Int
      BY <1>1, <1>8
    <3> QED  BY <3>1, <3>2, <3>3 DEF Frequencies
  <2>5. e.frequencies \in Seq(Frequencies) /\ Len(e.frequencies) = m
    <3>1. PICK q : q = e.frequencies
      OBVIOUS
    <3>2. DOMAIN q = 1 .. m /\ q = [n \in 1 .. m |-> q[n]]
      BY <1>12, <3>1
    <3>3. q \in [1 .. m -> Frequencies]
      BY <2>4, <3>1, <3>2
    <3>4. q \in Seq(Frequencies) /\ Len(q) = m
      BY <3>3
    <3> QED  BY <3>1, <3>4
  <2> QED  BY <1>7, <1>15, <1>16, <2>1, <2>2, <2>3, <2>4, <2>5 DEF ListsAs
<1>18. \A w \in D : g[w] \in Int
  BY <1>1, <1>7, <1>8
<1>19. Lists(e, g)
  BY <1>7, <1>12, <1>15, <1>17, <1>18, ListsParts
<1> QED  BY <1>4, <1>7, <1>12, <1>14, <1>16, <1>19

-----------------------------------------------------------------------------
(***************************************************************************)
(* The formatter: the words it has counted when it has read n lines of a   *)
(* machine, and i words of the next one.                                   *)
(***************************************************************************)
ReadTo(m, n, i) ==
  {p \in PlacesOf(m) : IsCounted(p) /\ (p[2] <= n \/ (p[2] = n + 1 /\ p[3] <= i))}

CountedOf(m) == {p \in PlacesOf(m) : IsCounted(p)}

LEMMA PlaceParts ==
  ASSUME NEW m, NEW p
  PROVE  p \in PlacesOf(m) <=>
           \E n \in DOMAIN corpus[m] : \E i \in DOMAIN corpus[m][n].words : p = <<m, n, i>>
BY DEF PlacesOf

LEMMA ListPlaces ==
  ASSUME IsCorpus(corpus), NEW m \in DOMAIN corpus, NEW l \in DOMAIN corpus[m]
  PROVE  /\ l \in Nat \ {0}
         /\ \A j \in DOMAIN corpus[m][l].words : j \in Nat \ {0}
BY DEF IsCorpus, IsLines, IsList

\* A place more counts its word once more.
LEMMA OnePlaceMore ==
  ASSUME NEW S, IsFiniteSet(S), NEW p, p \notin S
  PROVE  FrequencyAt(S \cup {p}) = More(FrequencyAt(S), WordAt(p), 1)
<1>1. PICK w : w = WordAt(p)
  OBVIOUS
<1>2. PICK D : D = {WordAt(q) : q \in S}
  OBVIOUS
<1>3. {WordAt(q) : q \in S \cup {p}} = D \cup {w}
  BY <1>1, <1>2
<1>4. PICK f : f = FrequencyAt(S)
  OBVIOUS
<1>5. DOMAIN f = D /\ \A v \in D : f[v] = Cardinality({q \in S : WordAt(q) = v})
  BY <1>2, <1>4 DEF FrequencyAt
<1>6. ASSUME NEW v \in D \cup {w}
      PROVE  Cardinality({q \in S \cup {p} : WordAt(q) = v})
               = (IF v \in DOMAIN f THEN f[v] ELSE 0) + (IF v = w THEN 1 ELSE 0)
  <2>1. PICK T : T = {q \in S : WordAt(q) = v}
    OBVIOUS
  <2>2. T \in SUBSET S /\ p \notin T
    BY <2>1
  <2>3. IsFiniteSet(T)
    BY <2>2, FS_Subset
  <2>4. Cardinality(T) \in Nat /\ Cardinality(T \cup {p}) = Cardinality(T) + 1
    BY <2>2, <2>3, FS_CardinalityType, FS_AddElement
  <2>5. (IF v \in DOMAIN f THEN f[v] ELSE 0) = Cardinality(T)
    <3>1. CASE v \in D
      BY <1>5, <2>1, <3>1
    <3>2. CASE v \notin D
      <4>1. T = {}
        BY <1>2, <2>1, <3>2
      <4> QED  BY <1>5, <3>2, <4>1, FS_EmptySet
    <3> QED  BY <3>1, <3>2
  <2>6. CASE v = w
    <3>1. {q \in S \cup {p} : WordAt(q) = v} = T \cup {p}
      BY <1>1, <2>1, <2>6
    <3> QED  BY <2>4, <2>5, <2>6, <3>1
  <2>7. CASE v # w
    <3>1. {q \in S \cup {p} : WordAt(q) = v} = T
      BY <1>1, <2>1, <2>7
    <3> QED  BY <2>4, <2>5, <2>7, <3>1
  <2> QED  BY <2>6, <2>7
<1>7. FrequencyAt(S \cup {p}) =
        [v \in D \cup {w} |-> Cardinality({q \in S \cup {p} : WordAt(q) = v})]
  BY <1>3 DEF FrequencyAt
<1>8. More(f, w, 1) =
        [v \in D \cup {w} |-> (IF v \in DOMAIN f THEN f[v] ELSE 0) + (IF v = w THEN 1 ELSE 0)]
  BY <1>5 DEF More
<1> QED  BY <1>1, <1>4, <1>6, <1>7, <1>8, ZenonT(60)

\* From one word of a line to the next.
LEMMA NextPlace ==
  ASSUME IsCorpus(corpus), NEW m \in DOMAIN corpus,
         NEW n \in Nat, NEW k \in Nat, n + 1 \in DOMAIN corpus[m],
         DOMAIN corpus[m][n + 1].words = 1 .. k, NEW i \in 0 .. k - 1,
         NEW p, p = <<m, n + 1, i + 1>>
  PROVE  /\ p \notin ReadTo(m, n, i)
         /\ ReadTo(m, n, i + 1) =
              IF IsCounted(p) THEN ReadTo(m, n, i) \cup {p} ELSE ReadTo(m, n, i)
<1>1. p[2] = n + 1 /\ p[3] = i + 1 /\ p \in PlacesOf(m)
  <2>1. i + 1 \in 1 .. k
    OBVIOUS
  <2> QED  BY <2>1, PlaceParts
<1>2. p \notin ReadTo(m, n, i)
  BY <1>1 DEF ReadTo
<1>3. ASSUME NEW q \in PlacesOf(m), q[2] = n + 1
      PROVE  q[3] \in 1 .. k /\ (q[3] = i + 1 => q = p)
  <2>1. PICK l \in DOMAIN corpus[m] : \E j \in DOMAIN corpus[m][l].words : q = <<m, l, j>>
    BY <1>3, PlaceParts
  <2>2. PICK j \in DOMAIN corpus[m][l].words : q = <<m, l, j>>
    BY <2>1
  <2>3. l = n + 1 /\ q[3] = j
    BY <1>3, <2>2
  <2> QED  BY <2>2, <2>3
<1>4. ASSUME NEW q \in PlacesOf(m)
      PROVE  (q[2] <= n \/ (q[2] = n + 1 /\ q[3] <= i + 1))
               <=> ((q[2] <= n \/ (q[2] = n + 1 /\ q[3] <= i)) \/ q = p)
  <2>1. CASE q[2] = n + 1
    <3>1. PICK j \in 1 .. k : j = q[3] /\ (j = i + 1 => q = p)
      BY <1>3, <2>1
    <3>2. q = p => j = i + 1
      BY <1>1, <3>1
    <3>3. q[2] = n + 1 /\ ~(q[2] <= n)
      BY <2>1
    <3> QED  BY <3>1, <3>2, <3>3
  <2>2. CASE q[2] # n + 1
    <3>1. q # p
      BY <1>1, <2>2
    <3> QED  BY <2>2, <3>1
  <2> QED  BY <2>1, <2>2
<1>5. ReadTo(m, n, i + 1) =
        {q \in PlacesOf(m) : IsCounted(q) /\ ((q[2] <= n \/ (q[2] = n + 1 /\ q[3] <= i)) \/ q = p)}
  BY <1>4 DEF ReadTo
<1>6. CASE IsCounted(p)
  BY <1>1, <1>2, <1>5, <1>6 DEF ReadTo
<1>7. CASE ~IsCounted(p)
  BY <1>2, <1>5, <1>7 DEF ReadTo
<1> QED  BY <1>2, <1>6, <1>7

\* The fold of read_from_inp() over the words of a line.
AfterWords(f, s, unknown) == FoldLeft(LAMBDA g, word : AddWord(g, word, unknown), f, s)

Wording(f, s, unknown, g) ==
  g = [t \in SUBSET DOMAIN s |->
         IF t = {} THEN f ELSE AddWord(g[t \ {Max(t)}], s[Max(t)], unknown)]

Worded(f, s, unknown) == CHOOSE g : Wording(f, s, unknown, g)

\* g has what is made of f by the first words of s.
WordRun(f, s, unknown, n, g) ==
  /\ AfterWords(f, s, unknown) = g[1 .. n] /\ g[1 .. 0] = f
  /\ \A i \in 0 .. n - 1 : g[1 .. i + 1] = AddWord(g[1 .. i], s[i + 1], unknown)

LEMMA WordFold ==
  ASSUME NEW f, NEW s, NEW unknown, NEW n \in Nat, DOMAIN s = 1 .. n
  PROVE  \E g : WordRun(f, s, unknown, n, g)
<1>1. AfterWords(f, s, unknown) = Worded(f, s, unknown)[DOMAIN s]
  BY Zenon DEF AfterWords, FoldLeft, MapThenFoldSet, Worded, Wording
<1>2. \A g : Folds(Fold("words", unknown), f, s, g) <=> Wording(f, s, unknown, g)
  BY DEF Folds, Wording, Unfolded, OneStep, Fold
<1>3. Wording(f, s, unknown, Worded(f, s, unknown))
  BY <1>2, FoldExists, Zenon DEF Worded
<1>4. Folds(Fold("words", unknown), f, s, Worded(f, s, unknown))
  BY <1>2, <1>3
<1>5. \A acc, x : OneStep(Fold("words", unknown), acc, x) = AddWord(acc, x, unknown)
  BY DEF OneStep, Fold
<1>6. PICK g : g = Worded(f, s, unknown)
  OBVIOUS
<1>7. Runs(Fold("words", unknown), f, s, n, g)
  BY <1>4, <1>6, FoldUnfolds
<1>8. WordRun(f, s, unknown, n, g)
  BY <1>1, <1>5, <1>6, <1>7 DEF Runs, WordRun
<1> QED  BY <1>8

\* d has counted the places S.
CountsPlaces(d, S) == IsFiniteSet(S) /\ Grown(d, FrequencyAt(S))

LEMMA WordCounted ==
  ASSUME NEW f, NEW word, NEW S, NEW p, NEW T, CountsPlaces(f.dict, S),
         WordAt(p) = word, p \notin S,
         T = IF word \notin Stopwords THEN S \cup {p} ELSE S
  PROVE  CountsPlaces(AddWord(f, word, {}).dict, T)
<1>1. CASE word \in Stopwords
  <2>1. AddWord(f, word, {}) = f
    BY <1>1 DEF AddWord
  <2> QED  BY <1>1, <2>1
<1>2. CASE word \notin Stopwords
  <2>1. AddWord(f, word, {}).dict = insert_word(f.dict, word)
    BY <1>2, Zenon DEF AddWord
  <2>2. Grown(insert_word(f.dict, word), More(FrequencyAt(S), word, 1))
    BY InsertWordCounts DEF CountsPlaces
  <2>3. IsFiniteSet(S \cup {p}) /\ FrequencyAt(S \cup {p}) = More(FrequencyAt(S), word, 1)
    BY OnePlaceMore, FS_AddElement DEF CountsPlaces
  <2> QED  BY <1>2, <2>1, <2>2, <2>3 DEF CountsPlaces
<1> QED  BY <1>1, <1>2

\* A line that is read.
LEMMA LineCounted ==
  ASSUME IsCorpus(corpus), NEW m \in DOMAIN corpus, NEW n \in Nat,
         n + 1 \in DOMAIN corpus[m], corpus[m][n + 1].newline,
         NEW d, CountsPlaces(d, ReadTo(m, n, 0))
  PROVE  CountsPlaces(read_from_inp(d, corpus[m][n + 1], {}).dict, ReadTo(m, n + 1, 0))
<1>1. PICK s : s = corpus[m][n + 1].words
  OBVIOUS
<1>2. PICK k \in Nat : DOMAIN s = 1 .. k
  BY <1>1 DEF IsCorpus, IsLines, IsList
<1>3. PICK f : f.dict = d /\ read_from_inp(d, corpus[m][n + 1], {}) = AfterWords(f, s, {})
  <2>1. PICK f : f = [dict |-> d, wdoc |-> [Clear EXCEPT !.docid = corpus[m][n + 1].docid]]
    OBVIOUS
  <2>2. read_from_inp(d, corpus[m][n + 1], {}) = AfterWords(f, s, {})
    BY <1>1, <2>1, Zenon DEF read_from_inp, AfterWords
  <2>3. f.dict = d
    BY <2>1
  <2> QED  BY <2>2, <2>3
<1>4. PICK unknown : unknown = {}
  OBVIOUS
<1>5. PICK g : /\ AfterWords(f, s, {}) = g[1 .. k] /\ g[1 .. 0] = f
               /\ \A i \in 0 .. k - 1 : g[1 .. i + 1] = AddWord(g[1 .. i], s[i + 1], {})
  <2>1. PICK g : WordRun(f, s, unknown, k, g)
    BY <1>2, WordFold
  <2> QED  BY <1>4, <2>1 DEF WordRun
<1> DEFINE Good == {i \in Nat : i <= k => CountsPlaces(g[1 .. i].dict, ReadTo(m, n, i))}
<1>6. 0 \in Good
  BY <1>3, <1>5
<1>7. ASSUME NEW i \in Nat, i \in Good PROVE i + 1 \in Good
  <2> SUFFICES ASSUME i + 1 <= k PROVE CountsPlaces(g[1 .. i + 1].dict, ReadTo(m, n, i + 1))
    OBVIOUS
  <2>1. i \in 0 .. k - 1 /\ CountsPlaces(g[1 .. i].dict, ReadTo(m, n, i))
    BY <1>7
  <2>2. PICK p : p = <<m, n + 1, i + 1>>
    OBVIOUS
  <2>3. /\ p \notin ReadTo(m, n, i)
        /\ ReadTo(m, n, i + 1) =
             IF IsCounted(p) THEN ReadTo(m, n, i) \cup {p} ELSE ReadTo(m, n, i)
    BY <1>1, <1>2, <2>1, <2>2, NextPlace, ZenonT(60)
  <2>4. WordAt(p) = s[i + 1] /\ (IsCounted(p) <=> s[i + 1] \notin Stopwords)
    BY <1>1, <2>2 DEF WordAt, IsCounted
  <2>5. g[1 .. i + 1] = AddWord(g[1 .. i], s[i + 1], {})
    BY <1>5, <2>1
  <2>6. PICK word : word = s[i + 1]
    OBVIOUS
  <2>7. PICK h : h = g[1 .. i]
    OBVIOUS
  <2>8. PICK S, T : S = ReadTo(m, n, i) /\ T = ReadTo(m, n, i + 1)
    OBVIOUS
  <2>9. /\ CountsPlaces(h.dict, S) /\ WordAt(p) = word /\ p \notin S
        /\ T = IF word \notin Stopwords THEN S \cup {p} ELSE S
    BY <2>1, <2>3, <2>4, <2>6, <2>7, <2>8
  <2>10. CountsPlaces(AddWord(h, word, {}).dict, T)
    BY <2>9, WordCounted
  <2> QED  BY <2>5, <2>6, <2>7, <2>8, <2>10
<1> HIDE DEF Good
<1>8. k \in Good
  BY <1>6, <1>7, NatSetInduction
<1>9. CountsPlaces(g[1 .. k].dict, ReadTo(m, n, k))
  BY <1>8 DEF Good
<1>10. ReadTo(m, n, k) = ReadTo(m, n + 1, 0)
  <2>1. ASSUME NEW q \in PlacesOf(m)
        PROVE  (q[2] <= n \/ (q[2] = n + 1 /\ q[3] <= k))
                 <=> (q[2] <= n + 1 \/ (q[2] = (n + 1) + 1 /\ q[3] <= 0))
    <3>1. PICK l \in DOMAIN corpus[m] : \E j \in DOMAIN corpus[m][l].words : q = <<m, l, j>>
      BY PlaceParts
    <3>2. PICK j \in DOMAIN corpus[m][l].words : q = <<m, l, j>>
      BY <3>1
    <3>3. l \in Nat /\ j \in Nat \ {0}
      BY ListPlaces
    <3>4. l = n + 1 => j <= k
      BY <1>1, <1>2
    <3>5. q[2] = l /\ q[3] = j
      BY <3>2
    <3> QED  BY <3>3, <3>4, <3>5
  <2> QED  BY <2>1 DEF ReadTo
<1> QED  BY <1>3, <1>5, <1>9, <1>10

\* The fold of format() over the lines of a file.
NoLines == [dict |-> Empty, output_w |-> <<>>]

AllLines(s, unknown) ==
  FoldLeft(LAMBDA out, line : AddLine(out, line, unknown), NoLines, s)

Lining(s, unknown, g) ==
  g = [t \in SUBSET DOMAIN s |->
         IF t = {} THEN NoLines ELSE AddLine(g[t \ {Max(t)}], s[Max(t)], unknown)]

Lined(s, unknown) == CHOOSE g : Lining(s, unknown, g)

\* g has what is made of the first lines of s.
LineRun(s, unknown, n, g) ==
  /\ AllLines(s, unknown) = g[1 .. n] /\ g[1 .. 0] = NoLines
  /\ \A i \in 0 .. n - 1 : g[1 .. i + 1] = AddLine(g[1 .. i], s[i + 1], unknown)

LEMMA LineFold ==
  ASSUME NEW s, NEW unknown, NEW n \in Nat, DOMAIN s = 1 .. n
  PROVE  \E g : LineRun(s, unknown, n, g)
<1>1. AllLines(s, unknown) = Lined(s, unknown)[DOMAIN s]
  BY Zenon DEF AllLines, FoldLeft, MapThenFoldSet, Lined, Lining
<1>2. \A g : Folds(Fold("lines", unknown), NoLines, s, g) <=> Lining(s, unknown, g)
  BY DEF Folds, Lining, Unfolded, OneStep, Fold
<1>3. Lining(s, unknown, Lined(s, unknown))
  BY <1>2, FoldExists, Zenon DEF Lined
<1>4. Folds(Fold("lines", unknown), NoLines, s, Lined(s, unknown))
  BY <1>2, <1>3
<1>5. \A acc, x : OneStep(Fold("lines", unknown), acc, x) = AddLine(acc, x, unknown)
  BY DEF OneStep, Fold
<1>6. PICK g : g = Lined(s, unknown)
  OBVIOUS
<1>7. Runs(Fold("lines", unknown), NoLines, s, n, g)
  BY <1>4, <1>6, FoldUnfolds
<1>8. LineRun(s, unknown, n, g)
  BY <1>1, <1>5, <1>6, <1>7 DEF Runs, LineRun
<1> QED  BY <1>8

(***************************************************************************)
(* The formatter of a machine: whatever the lines of its file, its         *)
(* dictionary has counted every place that has a word to be counted, and   *)
(* no other (Unigram_Train_Data_Formatter::format).                        *)
(***************************************************************************)
THEOREM FormatCounts ==
  ASSUME IsCorpus(corpus), NEW m \in DOMAIN corpus
  PROVE  CountsPlaces(format(corpus[m], {}).dict, CountedOf(m))
<1>1. PICK s : s = corpus[m]
  OBVIOUS
<1>2. PICK k \in Nat : DOMAIN s = 1 .. k
  BY <1>1 DEF IsCorpus, IsLines, IsList
<1>3. format(s, {}) = AllLines(s, {})
  BY Zenon DEF format, AllLines, NoLines
<1>4. PICK unknown : unknown = {}
  OBVIOUS
<1>5. PICK g : /\ AllLines(s, {}) = g[1 .. k] /\ g[1 .. 0] = NoLines
               /\ \A n \in 0 .. k - 1 : g[1 .. n + 1] = AddLine(g[1 .. n], s[n + 1], {})
  <2>1. PICK g : LineRun(s, unknown, k, g)
    BY <1>2, LineFold
  <2> QED  BY <1>4, <2>1 DEF LineRun
<1>6. \A p \in PlacesOf(m) :
        /\ p[2] \in 1 .. k /\ p[3] \in Nat \ {0}
        /\ IsCounted(p) => s[p[2]].newline
  <2> SUFFICES ASSUME NEW p \in PlacesOf(m)
               PROVE  /\ p[2] \in 1 .. k /\ p[3] \in Nat \ {0}
                      /\ IsCounted(p) => s[p[2]].newline
    OBVIOUS
  <2>1. PICK l \in DOMAIN corpus[m] : \E j \in DOMAIN corpus[m][l].words : p = <<m, l, j>>
    BY PlaceParts
  <2>2. PICK j \in DOMAIN corpus[m][l].words : p = <<m, l, j>>
    BY <2>1
  <2>3. l \in 1 .. k /\ j \in Nat \ {0}
    BY <1>1, <1>2, ListPlaces
  <2>4. p[1] = m /\ p[2] = l /\ p[3] = j
    BY <2>2
  <2>5. IsCounted(p) => s[l].newline
    BY <1>1, <2>4 DEF IsCounted
  <2> QED  BY <2>3, <2>4, <2>5
<1> DEFINE Good == {n \in Nat : n <= k => CountsPlaces(g[1 .. n].dict, ReadTo(m, n, 0))}
<1>7. 0 \in Good
  <2>1. \A p \in PlacesOf(m) : ~(p[2] <= 0 \/ (p[2] = 0 + 1 /\ p[3] <= 0))
    BY <1>6
  <2>2. ReadTo(m, 0, 0) = {}
    BY <2>1 DEF ReadTo
  <2>3. g[1 .. 0].dict = Empty
    BY <1>5 DEF NoLines
  <2>4. Grown(Empty, <<>>)
    <3>1. DOMAIN Empty.word_ind_map = {} /\ Empty.current_index = 0
      BY DEF Empty
    <3>2. num_words(Empty) = 0
      BY <3>1, FS_EmptySet DEF num_words
    <3> QED  BY <3>1, <3>2, NoWords DEF Grown
  <2>5. FrequencyAt({}) = <<>>
    BY DEF FrequencyAt
  <2>6. CountsPlaces(Empty, {})
    BY <2>4, <2>5, FS_EmptySet DEF CountsPlaces
  <2> QED  BY <2>2, <2>3, <2>6
<1>8. ASSUME NEW n \in Nat, n \in Good PROVE n + 1 \in Good
  <2> SUFFICES ASSUME n + 1 <= k PROVE CountsPlaces(g[1 .. n + 1].dict, ReadTo(m, n + 1, 0))
    OBVIOUS
  <2>1. n \in 0 .. k - 1 /\ n + 1 \in DOMAIN corpus[m]
          /\ CountsPlaces(g[1 .. n].dict, ReadTo(m, n, 0))
    BY <1>1, <1>2, <1>8
  <2>2. PICK out : out = g[1 .. n]
    OBVIOUS
  <2>3. PICK line : line = corpus[m][n + 1]
    OBVIOUS
  <2>4. g[1 .. n + 1] = AddLine(out, line, {})
    BY <1>1, <1>5, <2>1, <2>2, <2>3
  <2>5. CASE line.newline
    <3>1. AddLine(out, line, {}).dict = read_from_inp(out.dict, line, {}).dict
      BY <2>5, Zenon DEF AddLine
    <3>2. PICK d : d = out.dict
      OBVIOUS
    <3>3. CountsPlaces(d, ReadTo(m, n, 0)) /\ corpus[m][n + 1].newline
      BY <2>1, <2>2, <2>3, <2>5, <3>2
    <3>4. CountsPlaces(read_from_inp(d, corpus[m][n + 1], {}).dict, ReadTo(m, n + 1, 0))
      BY <2>1, <3>3, LineCounted
    <3> QED  BY <2>3, <2>4, <3>1, <3>2, <3>4
  <2>6. CASE ~line.newline
    <3>1. AddLine(out, line, {}) = out
      BY <2>6, Zenon DEF AddLine
    <3>2. \A p \in PlacesOf(m) : IsCounted(p) => p[2] # n + 1
      BY <1>1, <1>6, <2>3, <2>6
    <3>3. ReadTo(m, n + 1, 0) = ReadTo(m, n, 0)
      <4>1. ASSUME NEW p \in PlacesOf(m), IsCounted(p)
            PROVE  (p[2] <= n \/ (p[2] = n + 1 /\ p[3] <= 0))
                     <=> (p[2] <= n + 1 \/ (p[2] = (n + 1) + 1 /\ p[3] <= 0))
        <5>1. PICK l, j : l = p[2] /\ j = p[3]
          OBVIOUS
        <5>2. l \in Nat /\ j \in Nat \ {0} /\ l # n + 1
          BY <1>6, <3>2, <4>1, <5>1
        <5> QED  BY <5>1, <5>2
      <4> QED  BY <4>1 DEF ReadTo
    <3> QED  BY <2>1, <2>2, <2>4, <3>1, <3>3
  <2> QED  BY <2>5, <2>6
<1> HIDE DEF Good
<1>9. k \in Good
  BY <1>7, <1>8, NatSetInduction
<1>10. CountsPlaces(g[1 .. k].dict, ReadTo(m, k, 0))
  BY <1>9 DEF Good
<1>11. ReadTo(m, k, 0) = CountedOf(m)
  <2>1. \A p \in PlacesOf(m) : p[2] <= k
    BY <1>6
  <2> QED  BY <2>1 DEF ReadTo, CountedOf
<1> QED  BY <1>1, <1>3, <1>5, <1>10, <1>11

\* The places of the first n machines.
CountedTo(n) == UNION {CountedOf(m) : m \in 1 .. n}

TimesIn(S, w) == Cardinality({p \in S : WordAt(p) = w})

LEMMA PlacesAddUp ==
  ASSUME NEW k \in Nat, NEW w, \A m \in 1 .. k : IsFiniteSet(CountedOf(m))
  PROVE  /\ IsFiniteSet(CountedTo(k))
         /\ TimesIn(CountedTo(k), w)
              = SumFunctionOnSet([m \in 1 .. k |-> TimesIn(CountedOf(m), w)], 1 .. k)
<1>1. PICK b : b = [m \in 1 .. k |-> TimesIn(CountedOf(m), w)]
  OBVIOUS
<1>2. \A m \in 1 .. k : b[m] = TimesIn(CountedOf(m), w) /\ b[m] \in Int
  <2> SUFFICES ASSUME NEW m \in 1 .. k PROVE TimesIn(CountedOf(m), w) \in Int
    BY <1>1
  <2>1. PICK T : T = {p \in CountedOf(m) : WordAt(p) = w}
    OBVIOUS
  <2>2. IsFiniteSet(T)
    BY <2>1, FS_Subset
  <2> QED  BY <2>1, <2>2, FS_CardinalityType DEF TimesIn
<1> DEFINE Good == {n \in Nat : n <= k =>
                      /\ IsFiniteSet(CountedTo(n))
                      /\ TimesIn(CountedTo(n), w) = SumFunctionOnSet(b, 1 .. n)}
<1>3. 0 \in Good
  <2>1. CountedTo(0) = {} /\ 1 .. 0 = {}
    BY DEF CountedTo
  <2>2. TimesIn({}, w) = 0
    <3>1. {p \in {} : WordAt(p) = w} = {}
      OBVIOUS
    <3> QED  BY <3>1, FS_EmptySet DEF TimesIn
  <2> QED  BY <2>1, <2>2, SumEmpty, FS_EmptySet
<1>4. ASSUME NEW n \in Nat, n \in Good PROVE n + 1 \in Good
  <2> SUFFICES ASSUME n + 1 <= k
               PROVE  /\ IsFiniteSet(CountedTo(n + 1))
                      /\ TimesIn(CountedTo(n + 1), w) = SumFunctionOnSet(b, 1 .. n + 1)
    OBVIOUS
  <2>1. /\ n + 1 \in 1 .. k /\ IsFiniteSet(CountedTo(n))
        /\ TimesIn(CountedTo(n), w) = SumFunctionOnSet(b, 1 .. n)
    BY <1>4
  <2>2. PICK S, T : S = CountedTo(n) /\ T = CountedOf(n + 1)
    OBVIOUS
  <2>3. 1 .. n + 1 = (1 .. n) \cup {n + 1} /\ n + 1 \notin 1 .. n /\ 1 .. n \subseteq 1 .. k
    BY <2>1
  <2>4. CountedTo(n + 1) = S \cup T
    BY <2>2, <2>3 DEF CountedTo
  <2>5. IsFiniteSet(S) /\ IsFiniteSet(T)
    BY <2>1, <2>2
  <2>6. S \cap T = {}
    <3> SUFFICES ASSUME NEW p \in S, p \in T PROVE FALSE
      OBVIOUS
    <3>1. PICK m \in 1 .. n : p \in CountedOf(m)
      BY <2>2 DEF CountedTo
    <3>2. p \in PlacesOf(m) /\ p \in PlacesOf(n + 1)
      BY <2>2, <3>1 DEF CountedOf
    <3>3. p[1] = m /\ p[1] = n + 1
      BY <3>2 DEF PlacesOf
    <3> QED  BY <3>3
  <2>7. PICK A, B : A = {p \in S : WordAt(p) = w} /\ B = {p \in T : WordAt(p) = w}
    OBVIOUS
  <2>8. IsFiniteSet(A) /\ IsFiniteSet(B) /\ A \cap B = {}
    BY <2>5, <2>6, <2>7, FS_Subset
  <2>9. Cardinality(A \cup B) = Cardinality(A) + Cardinality(B)
    <3>1. Cardinality(A \cup B) = Cardinality(A) + Cardinality(B) - Cardinality(A \cap B)
      BY <2>8, FS_Union
    <3>2. Cardinality(A) \in Nat /\ Cardinality(B) \in Nat /\ Cardinality(A \cap B) = 0
      BY <2>8, FS_CardinalityType, FS_EmptySet
    <3> QED  BY <3>1, <3>2
  <2>10. {p \in S \cup T : WordAt(p) = w} = A \cup B
    BY <2>7
  <2>11. TimesIn(S \cup T, w) = SumFunctionOnSet(b, 1 .. n) + b[n + 1]
    BY <1>2, <2>1, <2>2, <2>7, <2>9, <2>10 DEF TimesIn
  <2>12. SumFunctionOnSet(b, (1 .. n) \cup {n + 1}) = b[n + 1] + SumFunctionOnSet(b, 1 .. n)
    <3>1. IsFiniteSet(1 .. n)
      BY FS_Interval
    <3>2. \A y \in (1 .. n) \cup {n + 1} : b[y] \in Int
      BY <1>2, <2>1, <2>3
    <3> QED  BY <2>3, <3>1, <3>2, SumAdd
  <2>13. SumFunctionOnSet(b, 1 .. n) \in Int
    <3>1. IsFiniteSet(1 .. n)
      BY FS_Interval
    <3> QED  BY <1>2, <2>3, <3>1, SumInt
  <2>14. IsFiniteSet(S \cup T)
    BY <2>5, FS_Union
  <2>15. PICK c \in Int : c = b[n + 1]
    BY <1>2, <2>1
  <2>16. PICK r \in Int : r = SumFunctionOnSet(b, 1 .. n)
    BY <2>13
  <2>17. TimesIn(S \cup T, w) = r + c /\ SumFunctionOnSet(b, 1 .. n + 1) = c + r
    <3>1. SumFunctionOnSet(b, 1 .. n + 1) = SumFunctionOnSet(b, (1 .. n) \cup {n + 1})
      BY <2>3
    <3> QED  BY <2>11, <2>12, <2>15, <2>16, <3>1
  <2>18. IsFiniteSet(CountedTo(n + 1))
    BY <2>4, <2>14
  <2>19. TimesIn(CountedTo(n + 1), w) = SumFunctionOnSet(b, 1 .. n + 1)
    <3>1. TimesIn(CountedTo(n + 1), w) = TimesIn(S \cup T, w)
      BY <2>4, Zenon
    <3>2. r + c = c + r
      OBVIOUS
    <3> QED  BY <2>17, <3>1, <3>2, Zenon
  <2> QED  BY <2>18, <2>19
<1> HIDE DEF Good
<1>5. k \in Good
  BY <1>3, <1>4, NatSetInduction
<1> QED  BY <1>1, <1>5 DEF Good

LEMMA FrequenciesAddUp ==
  ASSUME NEW k \in Nat, DOMAIN corpus = 1 .. k,
         \A m \in 1 .. k : IsFiniteSet(CountedOf(m))
  PROVE  FrequencyAt(CorpusPlaces) = SumOfAll([m \in 1 .. k |-> FrequencyAt(CountedOf(m))])
<1>1. PICK f : f = [m \in 1 .. k |-> FrequencyAt(CountedOf(m))]
  OBVIOUS
<1>2. DOMAIN f = 1 .. k /\ \A m \in 1 .. k : f[m] = FrequencyAt(CountedOf(m))
  BY <1>1
<1>3. CorpusPlaces = CountedTo(k)
  BY DEF CorpusPlaces, CountedTo, CountedOf, Machines
<1>4. \A m \in 1 .. k : DOMAIN f[m] = {WordAt(p) : p \in CountedOf(m)}
  BY <1>2 DEF FrequencyAt
<1>5. UNION {DOMAIN f[m] : m \in 1 .. k} = {WordAt(p) : p \in CountedTo(k)}
  BY <1>4 DEF CountedTo
<1>6. ASSUME NEW w
      PROVE  SumFunctionOnSet([m \in 1 .. k |-> IF w \in DOMAIN f[m] THEN f[m][w] ELSE 0],
                              1 .. k)
               = TimesIn(CountedTo(k), w)
  <2>1. ASSUME NEW m \in 1 .. k
        PROVE  (IF w \in DOMAIN f[m] THEN f[m][w] ELSE 0) = TimesIn(CountedOf(m), w)
    <3>1. CASE w \in DOMAIN f[m]
      BY <1>2, <3>1 DEF FrequencyAt, TimesIn
    <3>2. CASE w \notin DOMAIN f[m]
      <4>1. {p \in CountedOf(m) : WordAt(p) = w} = {}
        BY <1>4, <3>2
      <4> QED  BY <3>2, <4>1, FS_EmptySet DEF TimesIn
    <3> QED  BY <3>1, <3>2
  <2>2. [m \in 1 .. k |-> IF w \in DOMAIN f[m] THEN f[m][w] ELSE 0]
          = [m \in 1 .. k |-> TimesIn(CountedOf(m), w)]
    BY <2>1
  <2> QED  BY <2>2, PlacesAddUp
<1>7. SumOfAll(f) = [w \in {WordAt(p) : p \in CountedTo(k)} |-> TimesIn(CountedTo(k), w)]
  BY <1>2, <1>5, <1>6 DEF SumOfAll
<1>8. FrequencyAt(CountedTo(k))
        = [w \in {WordAt(p) : p \in CountedTo(k)} |-> TimesIn(CountedTo(k), w)]
  BY DEF FrequencyAt, TimesIn
<1> QED  BY <1>1, <1>3, <1>7, <1>8

LEMMA FrequencyParts ==
  ASSUME NEW S, IsFiniteSet(S)
  PROVE  /\ IsFiniteSet(DOMAIN FrequencyAt(S))
         /\ \A w \in DOMAIN FrequencyAt(S) : FrequencyAt(S)[w] \in Nat
<1>1. DOMAIN FrequencyAt(S) = {WordAt(p) : p \in S}
  BY DEF FrequencyAt
<1>2. IsFiniteSet({WordAt(p) : p \in S})
  <2> DEFINE Good == {T \in SUBSET S : IsFiniteSet({WordAt(p) : p \in T})}
  <2>1. {} \in Good
    <3>1. {WordAt(p) : p \in {}} = {}
      OBVIOUS
    <3> QED  BY <3>1, FS_EmptySet
  <2>2. ASSUME NEW T \in SUBSET S, NEW x \in S, x \notin T, T \in Good
        PROVE  T \cup {x} \in Good
    <3>1. {WordAt(p) : p \in T \cup {x}} = {WordAt(p) : p \in T} \cup {WordAt(x)}
      OBVIOUS
    <3> QED  BY <2>2, <3>1, FS_AddElement
  <2> HIDE DEF Good
  <2>3. S \in Good
    <3>1. \A T \in SUBSET S, x \in S : x \notin T /\ T \in Good => T \cup {x} \in Good
      BY <2>2
    <3>2. SUBSET S \subseteq Good
      BY <2>1, <3>1, SubsetInduction
    <3> QED  BY <3>2
  <2> QED  BY <2>3 DEF Good
<1>3. ASSUME NEW w \in DOMAIN FrequencyAt(S) PROVE FrequencyAt(S)[w] \in Nat
  <2>1. PICK T : T = {p \in S : WordAt(p) = w}
    OBVIOUS
  <2>2. IsFiniteSet(T)
    BY <2>1, FS_Subset
  <2>3. FrequencyAt(S)[w] = Cardinality(T)
    BY <1>1, <2>1 DEF FrequencyAt
  <2> QED  BY <2>2, <2>3, FS_CardinalityType
<1> QED  BY <1>1, <1>2, <1>3

\* A dictionary that is dumped and loaded as a whole.
LEMMA LoadedWhole ==
  ASSUME NEW d, NEW f, Of(d, f), NEW file \in Dumps(d),
         NEW e, e = initialize_from_dump(file, num_words(d))
  PROVE  Lists(e, f) /\ (IsByFrequency(d) => IsByFrequency(e))
<1>1. PICK k \in Nat :
        /\ k = Cardinality(DOMAIN f) /\ num_words(d) = k
        /\ DOMAIN d.word_ind_map = DOMAIN f
        /\ DOMAIN d.ind_word_map = 0 .. k - 1
        /\ \A w \in DOMAIN f :
             /\ d.word_ind_map[w] \in 0 .. k - 1
             /\ d.ind_word_map[d.word_ind_map[w]] = w
             /\ Freq(d, d.word_ind_map[w]) = f[w] /\ f[w] \in Nat
  <2>1. PICK j \in Nat : OfAs(d, f, j)
    BY OfParts
  <2> QED  BY <2>1 DEF OfAs, IndexesAs
<1>2. Kept(d, f, k) = [w \in DOMAIN f |-> f[w]]
  <2>1. \A w \in DOMAIN f : d.word_ind_map[w] < k
    BY <1>1
  <2>2. {v \in DOMAIN f : d.word_ind_map[v] < k} = DOMAIN f
    BY <2>1
  <2> QED  BY <2>2 DEF Kept
<1>3. PICK g : g = Kept(d, f, k) /\ DOMAIN g = DOMAIN f /\ \A w \in DOMAIN f : g[w] = f[w]
  BY <1>2
<1>4. /\ Lists(e, g)
      /\ \A w \in DOMAIN g : e.word_ind_map[w] = d.word_ind_map[w]
  <2>1. e = initialize_from_dump(file, k)
    BY <1>1
  <2>2. /\ Lists(e, Kept(d, f, k))
        /\ \A w \in DOMAIN Kept(d, f, k) : e.word_ind_map[w] = d.word_ind_map[w]
    BY <2>1, LoadedAsDumped
  <2> QED  BY <1>3, <2>2
<1>5. Lists(e, f)
  BY <1>3, <1>4, ListsSame
<1>6. ListsAs(e, g, k)
  BY <1>1, <1>3, <1>4, ListsParts
<1>7. ASSUME NEW i \in 0 .. k - 1 PROVE Freq(e, i) = Freq(d, i)
  <2>1. PICK w : w = e.ind_word_map[i] /\ w \in DOMAIN f /\ e.word_ind_map[w] = i
    BY <1>3, <1>6 DEF ListsAs
  <2>2. d.word_ind_map[w] = i
    BY <1>3, <1>4, <2>1
  <2>3. Freq(e, i) = f[w]
    <3>1. e.frequencies[e.word_ind_map[w] + 1].second = g[w]
      BY <1>3, <1>6, <2>1 DEF ListsAs
    <3> QED  BY <1>3, <2>1, <3>1, Zenon DEF Freq
  <2> QED  BY <1>1, <2>1, <2>2, <2>3
<1>8. IsByFrequency(d) => IsByFrequency(e)
  <2>1. DOMAIN e.ind_word_map = 0 .. k - 1
    BY <1>6 DEF ListsAs
  <2> QED  BY <1>1, <1>7, <2>1 DEF IsByFrequency
<1> QED  BY <1>5, <1>8

-----------------------------------------------------------------------------
(***************************************************************************)
(* The documents the formatter writes: they name the words by the indexes  *)
(* of the dictionary that is made with them, which a later word does not   *)
(* change.                                                                 *)
(***************************************************************************)
WellMade(d) == \E f : Grown(d, f)

Keeps(d, e) ==
  /\ d.current_index \in Nat /\ e.current_index \in Nat
  /\ d.current_index <= e.current_index
  /\ \A w \in DOMAIN d.word_ind_map :
       w \in DOMAIN e.word_ind_map /\ e.word_ind_map[w] = d.word_ind_map[w]

LEMMA MadeParts ==
  ASSUME NEW d, WellMade(d)
  PROVE  /\ d.current_index \in Nat
         /\ \A w \in DOMAIN d.word_ind_map :
              /\ d.word_ind_map[w] \in 0 .. d.current_index - 1
              /\ d.ind_word_map[d.word_ind_map[w]] = w
         /\ \A i \in 0 .. d.current_index - 1 : d.ind_word_map[i] \in DOMAIN d.word_ind_map
<1>1. PICK f : Grown(d, f)
  BY DEF WellMade
<1>2. PICK k \in Nat : k = Cardinality(DOMAIN f)
  BY <1>1, FS_CardinalityType DEF Grown, Lists
<1>3. ListsAs(d, f, k) /\ d.current_index = num_words(d)
  BY <1>1, <1>2, ListsParts DEF Grown
<1> QED  BY <1>3 DEF ListsAs

LEMMA MadeEmpty == WellMade(Empty) /\ DOMAIN Empty.word_ind_map = {}
<1>1. DOMAIN Empty.word_ind_map = {} /\ Empty.current_index = 0
  BY DEF Empty
<1>2. num_words(Empty) = 0
  BY <1>1, FS_EmptySet DEF num_words
<1> QED  BY <1>1, <1>2, NoWords DEF Grown, WellMade

LEMMA InsertKeeps ==
  ASSUME NEW d, WellMade(d), NEW w, NEW e, e = insert_word(d, w)
  PROVE  /\ WellMade(e) /\ Keeps(d, e)
         /\ DOMAIN e.word_ind_map = DOMAIN d.word_ind_map \cup {w}
<1>1. PICK f : Grown(d, f)
  BY DEF WellMade
<1>2. Grown(e, More(f, w, 1))
  BY <1>1, InsertWordCounts
<1>3. WellMade(e)
  BY <1>2 DEF WellMade
<1>4. d.current_index \in Nat /\ e.current_index \in Nat
  BY <1>3, MadeParts
<1>5. DOMAIN d = DictionaryFields
  BY <1>1 DEF Grown, Lists
<1>6. CASE Has(d, w)
  <2>1. e = Counted(d, d.word_ind_map[w], 1)
    BY <1>6 DEF insert_word
  <2>2. Recounts(e, d, w, 1) /\ e.current_index = d.current_index
    BY <1>5, <2>1, CountedRecounts
  <2>3. e.word_ind_map = d.word_ind_map
    BY <2>2 DEF Recounts
  <2> QED  BY <1>3, <1>4, <1>6, <2>2, <2>3 DEF Keeps, Has
<1>7. CASE ~Has(d, w)
  <2>1. PICK b : b = Bind(d, w, d.current_index)
    OBVIOUS
  <2>2. e = [b EXCEPT !.frequencies = Append(@, [first |-> d.current_index, second |-> 1]),
                      !.current_index = @ + 1]
    BY <1>7, <2>1, Zenon DEF insert_word
  <2>3. /\ DOMAIN b = DictionaryFields
        /\ b.word_ind_map = With(d.word_ind_map, w, d.current_index)
        /\ b.current_index = d.current_index
    BY <1>5, <2>1, BoundParts
  <2>4. e.word_ind_map = b.word_ind_map /\ e.current_index = b.current_index + 1
    BY <2>2, <2>3, Zenon DEF DictionaryFields
  <2>5. /\ DOMAIN e.word_ind_map = DOMAIN d.word_ind_map \cup {w}
        /\ \A v \in DOMAIN d.word_ind_map : e.word_ind_map[v] = d.word_ind_map[v]
    BY <2>3, <2>4 DEF With
  <2>6. d.current_index <= e.current_index
    BY <1>4, <2>3, <2>4
  <2> QED  BY <1>3, <1>4, <2>5, <2>6 DEF Keeps
<1> QED  BY <1>6, <1>7

\* Indexes below n.
Indexes(body, n) == body \in Seq(Nat) /\ \A i \in 1 .. Len(body) : body[i] < n

\* A word is named in a list of indexes.
Names(body, d, w) == \E i \in 1 .. Len(body) : body[i] = d.word_ind_map[w]

\* f is what is made of a line begun with the dictionary d.
Naming(f, d) ==
  /\ WellMade(f.dict) /\ Keeps(d, f.dict)
  /\ DOMAIN f.wdoc = Fields
  /\ Indexes(f.wdoc.body, f.dict.current_index)
  /\ \A w \in DOMAIN f.dict.word_ind_map :
       w \in DOMAIN d.word_ind_map \/ Names(f.wdoc.body, f.dict, w)

LEMMA WordNamed ==
  ASSUME NEW f, NEW d, NEW word, NEW unknown, Naming(f, d)
  PROVE  Naming(AddWord(f, word, unknown), d)
<1>1. CASE word \in Stopwords \cup unknown
  BY <1>1 DEF AddWord
<1>2. CASE word \notin Stopwords \cup unknown
  <2>1. PICK e : e = insert_word(f.dict, word)
    OBVIOUS
  <2>2. PICK h : h = AddWord(f, word, unknown)
    OBVIOUS
  <2>3. h.dict = e /\ h.wdoc = [f.wdoc EXCEPT !.body = Append(@, e.word_ind_map[word])]
    BY <1>2, <2>1, <2>2, Zenon DEF AddWord
  <2>4. PICK a : a = f.dict
    OBVIOUS
  <2>5. /\ WellMade(e) /\ Keeps(a, e)
        /\ DOMAIN e.word_ind_map = DOMAIN a.word_ind_map \cup {word}
    BY <2>1, <2>4, InsertKeeps DEF Naming
  <2>6. PICK b, c, x : b = f.wdoc.body /\ c = h.wdoc.body /\ x = e.word_ind_map[word]
    OBVIOUS
  <2>7. DOMAIN h.wdoc = Fields /\ c = Append(b, x)
    <3>1. DOMAIN f.wdoc = Fields /\ "body" \in Fields
      BY DEF Naming, Fields
    <3> QED  BY <2>3, <2>6, <3>1
  <2>8. x \in Nat /\ x < e.current_index
    BY <2>5, <2>6, MadeParts
  <2>9. b \in Seq(Nat) /\ \A i \in 1 .. Len(b) : b[i] < a.current_index
    BY <2>4, <2>6 DEF Naming, Indexes
  <2>10. /\ c \in Seq(Nat) /\ Len(c) = Len(b) + 1 /\ Len(b) \in Nat
         /\ c[Len(b) + 1] = x /\ \A i \in 1 .. Len(b) : c[i] = b[i]
    BY <2>7, <2>8, <2>9
  <2>11. Indexes(c, e.current_index)
    <3>1. ASSUME NEW i \in 1 .. Len(c) PROVE c[i] < e.current_index
      <4>1. CASE i = Len(b) + 1
        BY <2>8, <2>10, <4>1
      <4>2. CASE i # Len(b) + 1
        <5>1. i \in 1 .. Len(b) /\ c[i] = b[i] /\ b[i] \in Nat /\ b[i] < a.current_index
          BY <2>9, <2>10, <4>2
        <5> QED  BY <2>5, <5>1 DEF Keeps
      <4> QED  BY <4>1, <4>2
    <3> QED  BY <2>10, <3>1 DEF Indexes
  <2>12. Keeps(d, e)
    BY <2>4, <2>5 DEF Keeps, Naming
  <2>13. ASSUME NEW w \in DOMAIN e.word_ind_map, w \notin DOMAIN d.word_ind_map
         PROVE  Names(c, e, w)
    <3>1. CASE w = word
      <4>1. PICK i \in 1 .. Len(c) : i = Len(b) + 1
        BY <2>10
      <4>2. c[i] = e.word_ind_map[w]
        BY <2>6, <2>10, <3>1, <4>1
      <4> QED  BY <4>2 DEF Names
    <3>2. CASE w # word
      <4>1. w \in DOMAIN a.word_ind_map
        BY <2>5, <3>2
      <4>2. PICK i \in 1 .. Len(b) : b[i] = a.word_ind_map[w]
        BY <2>4, <2>6, <2>13, <4>1 DEF Naming, Names
      <4>3. i \in 1 .. Len(c) /\ c[i] = e.word_ind_map[w]
        BY <2>5, <2>10, <4>1, <4>2 DEF Keeps
      <4> QED  BY <4>3 DEF Names
    <3> QED  BY <3>1, <3>2
  <2> QED  BY <2>2, <2>3, <2>5, <2>6, <2>7, <2>11, <2>12, <2>13 DEF Naming
<1> QED  BY <1>1, <1>2

LEMMA LineNamed ==
  ASSUME NEW d, WellMade(d), NEW line, IsList(line.words), NEW unknown
  PROVE  Naming(read_from_inp(d, line, unknown), d)
<1>1. PICK s : s = line.words
  OBVIOUS
<1>2. PICK k \in Nat : DOMAIN s = 1 .. k
  BY <1>1 DEF IsList
<1>3. PICK f : f = [dict |-> d, wdoc |-> [Clear EXCEPT !.docid = line.docid]]
  OBVIOUS
<1>4. read_from_inp(d, line, unknown) = AfterWords(f, s, unknown)
  BY <1>1, <1>3, Zenon DEF read_from_inp, AfterWords
<1>5. Naming(f, d)
  <2>1. DOMAIN f.wdoc = Fields /\ f.wdoc.body = <<>>
    <3>1. DOMAIN Clear = Fields /\ Clear.body = <<>>
      BY DEF Clear, Fields
    <3>2. PICK h : h = [Clear EXCEPT !.docid = line.docid]
      OBVIOUS
    <3>3. DOMAIN h = Fields /\ h.body = <<>>
      BY <3>1, <3>2 DEF Fields
    <3>4. f.wdoc = h
      BY <1>3, <3>2
    <3> QED  BY <3>3, <3>4
  <2>2. f.dict = d
    BY <1>3
  <2>3. Indexes(<<>>, d.current_index)
    BY DEF Indexes
  <2>4. Keeps(d, d)
    BY MadeParts DEF Keeps
  <2> QED  BY <2>1, <2>2, <2>3, <2>4 DEF Naming
<1>6. PICK g : WordRun(f, s, unknown, k, g)
  BY <1>2, WordFold
<1> DEFINE Good == {i \in Nat : i <= k => Naming(g[1 .. i], d)}
<1>7. 0 \in Good
  BY <1>5, <1>6 DEF WordRun
<1>8. ASSUME NEW i \in Nat, i \in Good PROVE i + 1 \in Good
  <2> SUFFICES ASSUME i + 1 <= k PROVE Naming(g[1 .. i + 1], d)
    OBVIOUS
  <2>1. PICK h, word : h = g[1 .. i] /\ word = s[i + 1]
    OBVIOUS
  <2>2. Naming(h, d)
    BY <1>8, <2>1
  <2>3. Naming(AddWord(h, word, unknown), d)
    BY <2>2, WordNamed
  <2>4. i \in 0 .. k - 1
    OBVIOUS
  <2>5. g[1 .. i + 1] = AddWord(h, word, unknown)
    BY <1>6, <2>1, <2>4 DEF WordRun
  <2> QED  BY <2>3, <2>5
<1> HIDE DEF Good
<1>9. k \in Good
  BY <1>7, <1>8, NatSetInduction
<1>10. Naming(g[1 .. k], d)
  BY <1>9 DEF Good
<1> QED  BY <1>4, <1>6, <1>10 DEF WordRun

\* The file new has the records of file and one with this body.
Longer(new, file, body) ==
  /\ \E T : new \in Seq(T)
  /\ Len(new) = Len(file) + 1
  /\ BodyOf(new, Len(file) + 1) = body
  /\ \A n \in 1 .. Len(file) : BodyOf(new, n) = BodyOf(file, n)

LEMMA BodyWritten ==
  ASSUME NEW R, NEW file \in Seq(R), NEW doc, DOMAIN doc = Fields,
         doc.body \in Seq(Nat), doc.body # <<>>,
         NEW new, new = Append(file, SerializeToString(doc))
  PROVE  Longer(new, file, doc.body)
<1>1. PICK r : r = SerializeToString(doc)
  OBVIOUS
<1>2. PICK k \in Nat : k = Len(file) /\ DOMAIN file = 1 .. k
  OBVIOUS
<1>3. PICK T : T = R \cup {r}
  OBVIOUS
<1>4. file \in Seq(T) /\ r \in T
  <2>1. R \subseteq T
    BY <1>3
  <2> QED  BY <1>3, <2>1
<1>5. /\ new \in Seq(T) /\ Len(new) = k + 1 /\ DOMAIN new = 1 .. k + 1
      /\ new[k + 1] = r /\ \A n \in 1 .. k : new[n] = file[n]
  BY <1>1, <1>2, <1>4
<1>6. "body" \in DOMAIN r /\ r["body"] = doc.body
  <2>1. Clear["body"] = <<>> /\ "body" \in Fields
    BY DEF Clear, Fields
  <2>2. DOMAIN r = {g \in Fields : doc[g] # Clear[g]} /\ \A g \in DOMAIN r : r[g] = doc[g]
    BY <1>1 DEF SerializeToString
  <2> QED  BY <2>1, <2>2
<1>7. ASSUME NEW x, NEW n, n \in DOMAIN x
      PROVE  BodyOf(x, n) = IF "body" \in DOMAIN x[n] THEN <<>> \o x[n]["body"] ELSE <<>>
  <2>1. ReadRecord(x, n, Clear) = MergePartialFromCodedStream(Clear, x[n])
    BY <1>7 DEF ReadRecord
  <2>2. Clear["body"] = <<>> /\ "body" \in Fields /\ "body" # "docid"
    BY DEF Clear, Fields
  <2>3. MergePartialFromCodedStream(Clear, x[n])["body"]
          = IF "body" \in DOMAIN x[n] THEN <<>> \o x[n]["body"] ELSE <<>>
    BY <2>2 DEF MergePartialFromCodedStream
  <2> QED  BY <2>1, <2>3, Zenon DEF BodyOf
<1>8. BodyOf(new, k + 1) = doc.body
  <2>1. PICK b \in Seq(Nat) : b = doc.body
    OBVIOUS
  <2>2. <<>> \o b = b
    OBVIOUS
  <2>3. PICK m : m = k + 1
    OBVIOUS
  <2>4. m \in DOMAIN new /\ new[m] = r
    BY <1>5, <2>3
  <2>5. BodyOf(new, m) = <<>> \o r["body"]
    BY <1>6, <1>7, <2>4
  <2> QED  BY <1>6, <2>1, <2>2, <2>3, <2>5
<1>9. ASSUME NEW n \in 1 .. k PROVE BodyOf(new, n) = BodyOf(file, n)
  <2>1. n \in DOMAIN new /\ n \in DOMAIN file
    BY <1>2, <1>5
  <2>2. BodyOf(new, n) = IF "body" \in DOMAIN new[n] THEN <<>> \o new[n]["body"] ELSE <<>>
    BY <1>7, <2>1
  <2>3. BodyOf(file, n)
          = IF "body" \in DOMAIN file[n] THEN <<>> \o file[n]["body"] ELSE <<>>
    BY <1>7, <2>1
  <2>4. new[n] = file[n]
    BY <1>5
  <2> QED  BY <2>2, <2>3, <2>4, Zenon
<1> QED  BY <1>2, <1>5, <1>8, <1>9 DEF Longer

\* Every document names words of the dictionary, and every word of it is named.
DocumentsName(out) ==
  /\ WellMade(out.dict) /\ \E R : out.output_w \in Seq(R)
  /\ \A n \in 1 .. Len(out.output_w) :
       Indexes(BodyOf(out.output_w, n), out.dict.current_index)
  /\ \A w \in DOMAIN out.dict.word_ind_map :
       \E n \in 1 .. Len(out.output_w) : Names(BodyOf(out.output_w, n), out.dict, w)

LEMMA LineWritten ==
  ASSUME NEW out, DocumentsName(out), NEW line, IsList(line.words), NEW unknown,
         NEW e, e = AddLine(out, line, unknown)
  PROVE  DocumentsName(e)
<1>1. PICK f : f = read_from_inp(out.dict, line, unknown)
  OBVIOUS
<1>2. PICK d : d = out.dict
  OBVIOUS
<1>3. Naming(f, d)
  BY <1>1, <1>2, LineNamed DEF DocumentsName
<1>4. PICK R : out.output_w \in Seq(R)
  BY DEF DocumentsName
<1>5. PICK file \in Seq(R) : file = out.output_w
  BY <1>4
<1>6. /\ WellMade(f.dict) /\ Keeps(d, f.dict)
      /\ \A w \in DOMAIN f.dict.word_ind_map :
           w \in DOMAIN d.word_ind_map \/ Names(f.wdoc.body, f.dict, w)
  BY <1>3 DEF Naming
<1>7. ASSUME NEW n \in 1 .. Len(file)
      PROVE  /\ Indexes(BodyOf(file, n), f.dict.current_index)
             /\ \A w \in DOMAIN d.word_ind_map :
                  Names(BodyOf(file, n), d, w) => Names(BodyOf(file, n), f.dict, w)
  <2>1. PICK b : b = BodyOf(file, n)
    OBVIOUS
  <2>2. Indexes(b, d.current_index)
    BY <1>2, <1>5, <2>1 DEF DocumentsName
  <2>3. Indexes(b, f.dict.current_index)
    <3>1. ASSUME NEW i \in 1 .. Len(b) PROVE b[i] < f.dict.current_index
      <4>1. b[i] \in Nat /\ b[i] < d.current_index
        BY <2>2 DEF Indexes
      <4> QED  BY <1>6, <4>1 DEF Keeps
    <3> QED  BY <2>2, <3>1 DEF Indexes
  <2>4. \A w \in DOMAIN d.word_ind_map : Names(b, d, w) => Names(b, f.dict, w)
    BY <1>6 DEF Keeps, Names
  <2> QED  BY <2>1, <2>3, <2>4
<1>8. ASSUME NEW w \in DOMAIN d.word_ind_map
      PROVE  \E n \in 1 .. Len(file) : Names(BodyOf(file, n), f.dict, w)
  BY <1>2, <1>5, <1>7 DEF DocumentsName
<1>9. CASE ~line.newline
  <2>1. e = out
    BY <1>9, Zenon DEF AddLine
  <2> QED  BY <2>1
<1>10. CASE line.newline /\ f.wdoc.body = <<>>
  <2>1. e.dict = f.dict /\ e.output_w = file
    BY <1>1, <1>5, <1>10, Zenon DEF AddLine
  <2>2. \A w \in DOMAIN f.dict.word_ind_map : w \in DOMAIN d.word_ind_map
    BY <1>6, <1>10 DEF Names
  <2> QED  BY <1>4, <1>5, <1>6, <1>7, <1>8, <2>1, <2>2 DEF DocumentsName
<1>11. CASE line.newline /\ f.wdoc.body # <<>>
  <2>1. PICK new : new = Append(file, SerializeToString(f.wdoc))
    OBVIOUS
  <2>2. e.dict = f.dict /\ e.output_w = new
    BY <1>1, <1>5, <1>11, <2>1, Zenon DEF AddLine
  <2>3. PICK doc : doc = f.wdoc
    OBVIOUS
  <2>4. DOMAIN doc = Fields /\ Indexes(doc.body, f.dict.current_index) /\ doc.body # <<>>
    BY <1>3, <1>11, <2>3 DEF Naming
  <2>5. /\ \E T : new \in Seq(T)
        /\ Len(new) = Len(file) + 1 /\ Len(file) \in Nat
        /\ BodyOf(new, Len(file) + 1) = doc.body
        /\ \A n \in 1 .. Len(file) : BodyOf(new, n) = BodyOf(file, n)
    <3>1. doc.body \in Seq(Nat) /\ new = Append(file, SerializeToString(doc))
      BY <2>1, <2>3, <2>4 DEF Indexes
    <3>2. Len(file) \in Nat
      BY <1>5
    <3>3. Longer(new, file, doc.body)
      BY <2>4, <3>1, BodyWritten
    <3> QED  BY <3>2, <3>3 DEF Longer
  <2>6. ASSUME NEW n \in 1 .. Len(new) PROVE Indexes(BodyOf(new, n), f.dict.current_index)
    <3>1. CASE n = Len(file) + 1
      BY <2>4, <2>5, <3>1
    <3>2. CASE n # Len(file) + 1
      <4>1. n \in 1 .. Len(file)
        BY <2>5, <3>2
      <4> QED  BY <1>7, <2>5, <4>1
    <3> QED  BY <3>1, <3>2
  <2>7. ASSUME NEW w \in DOMAIN f.dict.word_ind_map
        PROVE  \E n \in 1 .. Len(new) : Names(BodyOf(new, n), f.dict, w)
    <3>1. CASE w \in DOMAIN d.word_ind_map
      <4>1. PICK n \in 1 .. Len(file) : Names(BodyOf(file, n), f.dict, w)
        BY <1>8, <3>1
      <4>2. n \in 1 .. Len(new)
        BY <2>5
      <4> QED  BY <2>5, <4>1, <4>2
    <3>2. CASE w \notin DOMAIN d.word_ind_map
      <4>1. PICK n \in 1 .. Len(new) : n = Len(file) + 1
        BY <2>5
      <4>2. Names(BodyOf(new, n), f.dict, w)
        BY <1>6, <2>3, <2>5, <3>2, <4>1
      <4> QED  BY <4>2
    <3> QED  BY <3>1, <3>2
  <2> QED  BY <1>6, <2>2, <2>5, <2>6, <2>7 DEF DocumentsName
<1> QED  BY <1>9, <1>10, <1>11

(***************************************************************************)
(* The formatter, of any lines and with any words unknown: the documents   *)
(* it has written name words of the dictionary it has made by their        *)
(* indexes there, and all of them.                                         *)
(***************************************************************************)
THEOREM FormatNames ==
  ASSUME NEW lines, IsList(lines), \A n \in DOMAIN lines : IsList(lines[n].words),
         NEW unknown
  PROVE  DocumentsName(format(lines, unknown))
<1>1. PICK k \in Nat : DOMAIN lines = 1 .. k
  BY DEF IsList
<1>2. format(lines, unknown) = AllLines(lines, unknown)
  BY Zenon DEF format, AllLines, NoLines
<1>3. PICK g : LineRun(lines, unknown, k, g)
  BY <1>1, LineFold
<1> DEFINE Good == {n \in Nat : n <= k => DocumentsName(g[1 .. n])}
<1>4. 0 \in Good
  <2>1. g[1 .. 0] = NoLines
    BY <1>3 DEF LineRun
  <2>2. NoLines.dict = Empty /\ NoLines.output_w = <<>>
    BY DEF NoLines
  <2>3. DocumentsName(NoLines)
    BY <2>2, MadeEmpty DEF DocumentsName
  <2> QED  BY <2>1, <2>3
<1>5. ASSUME NEW n \in Nat, n \in Good PROVE n + 1 \in Good
  <2> SUFFICES ASSUME n + 1 <= k PROVE DocumentsName(g[1 .. n + 1])
    OBVIOUS
  <2>1. PICK out, line : out = g[1 .. n] /\ line = lines[n + 1]
    OBVIOUS
  <2>2. DocumentsName(out) /\ IsList(line.words)
    BY <1>1, <1>5, <2>1
  <2>3. DocumentsName(AddLine(out, line, unknown))
    BY <2>2, LineWritten
  <2>4. n \in 0 .. k - 1
    OBVIOUS
  <2>5. g[1 .. n + 1] = AddLine(out, line, unknown)
    BY <1>3, <2>1, <2>4 DEF LineRun
  <2> QED  BY <2>3, <2>5
<1> HIDE DEF Good
<1>6. k \in Good
  BY <1>4, <1>5, NatSetInduction
<1>7. DocumentsName(g[1 .. k])
  BY <1>6 DEF Good
<1> QED  BY <1>2, <1>3, <1>7 DEF LineRun

-----------------------------------------------------------------------------
(***************************************************************************)
(* The lists of top words.  list is what the pushes of the entries counted *)
(* have made of it, whatever was pushed without a count: it has the        *)
(* greatest of them, and no room for those it does not have.               *)
(***************************************************************************)
Ranks(list, counted) ==
  /\ IsFiniteSet(list) /\ Cardinality(list) <= NUM_WORDS_PER_TOP
  /\ \A e \in list : e.n \in Nat /\ (e.n > 0 => e \in counted)
  /\ \A x \in counted \ list :
       /\ Cardinality(list) = NUM_WORDS_PER_TOP
       /\ \A e \in list : e.n > 0 /\ x.n <= e.n

LEMMA EntryPushed ==
  ASSUME NUM_WORDS_PER_TOP \in Nat \ {0},
         NEW lists, NEW counted, \A list \in lists : Ranks(list, counted),
         \A x \in counted : x.n \in Nat \ {0},
         NEW entry, entry.n \in Nat, entry \notin counted,
         NEW more, more = IF entry.n > 0 THEN counted \cup {entry} ELSE counted,
         entry.n = 0 => counted = {}
  PROVE  \A list \in Push(lists, entry) : Ranks(list, more)
<1> SUFFICES ASSUME NEW new \in Push(lists, entry) PROVE Ranks(new, more)
  OBVIOUS
<1>1. PICK list \in lists :
        new \in IF Cardinality(list) < NUM_WORDS_PER_TOP
                THEN {list \cup {entry}}
                ELSE {IF entry.n > least.n THEN (list \ {least}) \cup {entry} ELSE list :
                        least \in {e \in list : \A f \in list : e.n <= f.n}}
  BY DEF Push
<1>2. Ranks(list, counted)
  OBVIOUS
<1>3. PICK k \in Nat : k = Cardinality(list)
  BY <1>2, FS_CardinalityType DEF Ranks
<1>4. entry.n > 0 => entry \notin list
  BY <1>2 DEF Ranks
<1>5. CASE k < NUM_WORDS_PER_TOP
  <2>1. new = list \cup {entry}
    BY <1>1, <1>3, <1>5
  <2>2. IsFiniteSet(new) /\ Cardinality(new) <= k + 1
    <3>1. IsFiniteSet(list)
      BY <1>2 DEF Ranks
    <3>2. CASE entry \in list
      <4>1. new = list
        BY <2>1, <3>2
      <4> QED  BY <1>3, <3>1, <4>1
    <3>3. CASE entry \notin list
      <4>1. PICK T : T = list \cup {entry}
        OBVIOUS
      <4>2. IsFiniteSet(T) /\ Cardinality(T) = Cardinality(list) + 1
        BY <3>1, <3>3, <4>1, FS_AddElement
      <4> QED  BY <1>3, <2>1, <4>1, <4>2
    <3> QED  BY <3>2, <3>3
  <2>3. counted \subseteq list
    BY <1>2, <1>3, <1>5 DEF Ranks
  <2>4. \A e \in new : e.n \in Nat /\ (e.n > 0 => e \in more)
    BY <1>2, <2>1 DEF Ranks
  <2>5. more \ new = {}
    BY <2>1, <2>3
  <2>6. Cardinality(new) \in Nat
    BY <2>2, FS_CardinalityType
  <2>7. Cardinality(new) <= NUM_WORDS_PER_TOP
    BY <1>5, <2>2, <2>6
  <2> QED  BY <2>2, <2>4, <2>5, <2>7 DEF Ranks
<1>6. CASE ~(k < NUM_WORDS_PER_TOP)
  <2>1. PICK least \in list :
          /\ \A f \in list : least.n <= f.n
          /\ new = IF entry.n > least.n THEN (list \ {least}) \cup {entry} ELSE list
    BY <1>1, <1>3, <1>6
  <2>2. k = NUM_WORDS_PER_TOP /\ least.n \in Nat
    BY <1>2, <1>3, <1>6, <2>1 DEF Ranks
  <2>3. CASE entry.n > least.n
    <3>1. entry.n > 0 /\ entry \notin list /\ more = counted \cup {entry}
      BY <1>4, <2>2, <2>3
    <3>2. new = (list \ {least}) \cup {entry}
      BY <2>1, <2>3
    <3>3. IsFiniteSet(list \ {least}) /\ Cardinality(list \ {least}) = k - 1
      BY <1>2, <1>3, <2>1, FS_RemoveElement DEF Ranks
    <3>4. IsFiniteSet(new) /\ Cardinality(new) = k
      <4>1. PICK T : T = list \ {least}
        OBVIOUS
      <4>2. entry \notin T /\ new = T \cup {entry} /\ IsFiniteSet(T)
        BY <3>1, <3>2, <3>3, <4>1
      <4>3. IsFiniteSet(new) /\ Cardinality(new) = Cardinality(T) + 1
        BY <4>2, FS_AddElement
      <4> QED  BY <3>3, <4>1, <4>3
    <3>5. \A e \in new : e.n \in Nat /\ (e.n > 0 => e \in more)
      BY <1>2, <3>1, <3>2 DEF Ranks
    <3>6. ASSUME NEW x \in more \ new PROVE \A e \in new : e.n > 0 /\ x.n <= e.n
      <4>1. x \in counted /\ x.n \in Nat
        BY <3>1, <3>2, <3>6
      <4>2. CASE x = least
        <5>1. \A e \in list : x.n <= e.n
          BY <2>1, <4>2
        <5>2. x.n > 0
          BY <4>1
        <5> QED  BY <1>2, <2>3, <3>1, <3>2, <4>1, <4>2, <5>1, <5>2 DEF Ranks
      <4>3. CASE x # least
        <5>1. x \in counted \ list
          BY <3>2, <3>6, <4>1, <4>3
        <5>2. \A e \in list : e.n \in Nat /\ e.n > 0 /\ x.n <= e.n
          BY <1>2, <5>1 DEF Ranks
        <5>3. x.n <= entry.n
          BY <2>1, <2>3, <4>1, <5>2
        <5> QED  BY <3>1, <3>2, <5>2, <5>3
      <4> QED  BY <4>2, <4>3
    <3> QED  BY <2>2, <3>4, <3>5, <3>6 DEF Ranks
  <2>4. CASE ~(entry.n > least.n)
    <3>1. new = list
      BY <2>1, <2>4
    <3>2. ASSUME NEW x \in more \ new PROVE \A e \in new : e.n > 0 /\ x.n <= e.n
      <4>1. CASE x = entry
        <5>1. entry.n > 0
          <6>1. CASE entry.n = 0
            BY <3>2, <4>1, <6>1
          <6> QED  BY <6>1
        <5>2. ASSUME NEW e \in list PROVE e.n > 0 /\ entry.n <= e.n
          <6>1. e.n \in Nat /\ least.n <= e.n
            BY <1>2, <2>1 DEF Ranks
          <6> QED  BY <2>2, <2>4, <5>1, <6>1
        <5> QED  BY <3>1, <4>1, <5>2
      <4>2. CASE x # entry
        BY <1>2, <3>1, <3>2, <4>2 DEF Ranks
      <4> QED  BY <4>1, <4>2
    <3>3. \A e \in new : e.n \in Nat /\ (e.n > 0 => e \in more)
      BY <1>2, <3>1 DEF Ranks
    <3> QED  BY <1>2, <1>3, <2>2, <3>1, <3>2, <3>3 DEF Ranks
  <2> QED  BY <2>3, <2>4
<1> QED  BY <1>3, <1>5, <1>6

\* The two folds of get_eval(), over the words without and with their counts.
Smoothed(s) == FoldLeft(Push, {{}}, s)

Smoothing(s, g) ==
  g = [t \in SUBSET DOMAIN s |-> IF t = {} THEN {{}} ELSE Push(g[t \ {Max(t)}], s[Max(t)])]

Smooth(s) == CHOOSE g : Smoothing(s, g)

\* g has what is made of the first entries of s.
SmoothRun(s, n, g) ==
  /\ Smoothed(s) = g[1 .. n] /\ g[1 .. 0] = {{}}
  /\ \A i \in 0 .. n - 1 : g[1 .. i + 1] = Push(g[1 .. i], s[i + 1])

LEMMA SmoothFold ==
  ASSUME NEW s, NEW n \in Nat, DOMAIN s = 1 .. n
  PROVE  \E g : SmoothRun(s, n, g)
<1>1. Smoothed(s) = Smooth(s)[DOMAIN s]
  BY Zenon DEF Smoothed, FoldLeft, MapThenFoldSet, Smooth, Smoothing
<1>2. \A g : Folds(Fold("tops", {}), {{}}, s, g) <=> Smoothing(s, g)
  BY DEF Folds, Smoothing, Unfolded, OneStep, Fold
<1>3. Smoothing(s, Smooth(s))
  BY <1>2, FoldExists, Zenon DEF Smooth
<1>4. Folds(Fold("tops", {}), {{}}, s, Smooth(s))
  BY <1>2, <1>3
<1>5. \A acc, x : OneStep(Fold("tops", {}), acc, x) = Push(acc, x)
  BY DEF OneStep, Fold
<1>6. PICK g : g = Smooth(s)
  OBVIOUS
<1>7. Runs(Fold("tops", {}), {{}}, s, n, g)
  BY <1>4, <1>6, FoldUnfolds
<1>8. SmoothRun(s, n, g)
  BY <1>1, <1>5, <1>6, <1>7 DEF Runs, SmoothRun
<1> QED  BY <1>8

AllPushed(lists, s) == FoldLeft(PushCounted, lists, s)

Pushing(lists, s, g) ==
  g = [t \in SUBSET DOMAIN s |->
         IF t = {} THEN lists ELSE PushCounted(g[t \ {Max(t)}], s[Max(t)])]

Pushed(lists, s) == CHOOSE g : Pushing(lists, s, g)

PushRun(lists, s, n, g) ==
  /\ AllPushed(lists, s) = g[1 .. n] /\ g[1 .. 0] = lists
  /\ \A i \in 0 .. n - 1 : g[1 .. i + 1] = PushCounted(g[1 .. i], s[i + 1])

LEMMA PushFold ==
  ASSUME NEW lists, NEW s, NEW n \in Nat, DOMAIN s = 1 .. n
  PROVE  \E g : PushRun(lists, s, n, g)
<1>1. AllPushed(lists, s) = Pushed(lists, s)[DOMAIN s]
  BY Zenon DEF AllPushed, FoldLeft, MapThenFoldSet, Pushed, Pushing
<1>2. \A g : Folds(Fold("counts", {}), lists, s, g) <=> Pushing(lists, s, g)
  BY DEF Folds, Pushing, Unfolded, OneStep, Fold
<1>3. Pushing(lists, s, Pushed(lists, s))
  BY <1>2, FoldExists, Zenon DEF Pushed
<1>4. Folds(Fold("counts", {}), lists, s, Pushed(lists, s))
  BY <1>2, <1>3
<1>5. \A acc, x : OneStep(Fold("counts", {}), acc, x) = PushCounted(acc, x)
  BY DEF OneStep, Fold
<1>6. PICK g : g = Pushed(lists, s)
  OBVIOUS
<1>7. Runs(Fold("counts", {}), lists, s, n, g)
  BY <1>4, <1>6, FoldUnfolds
<1>8. PushRun(lists, s, n, g)
  BY <1>1, <1>5, <1>6, <1>7 DEF Runs, PushRun
<1> QED  BY <1>8

AllRank(lists, counted) == \A list \in lists : Ranks(list, counted)

LEMMA SmoothRanks ==
  ASSUME NUM_WORDS_PER_TOP \in Nat \ {0},
         NEW s, NEW n \in Nat, DOMAIN s = 1 .. n, \A i \in 1 .. n : s[i].n = 0
  PROVE  AllRank(Smoothed(s), {})
<1>1. PICK g : SmoothRun(s, n, g)
  BY SmoothFold
<1> DEFINE Good == {i \in Nat : i <= n => AllRank(g[1 .. i], {})}
<1>2. 0 \in Good
  <2>1. Ranks({}, {})
    BY FS_EmptySet DEF Ranks
  <2> QED  BY <1>1, <2>1 DEF SmoothRun, AllRank
<1>3. ASSUME NEW i \in Nat, i \in Good PROVE i + 1 \in Good
  <2> SUFFICES ASSUME i + 1 <= n PROVE AllRank(g[1 .. i + 1], {})
    OBVIOUS
  <2>1. PICK lists, entry : lists = g[1 .. i] /\ entry = s[i + 1]
    OBVIOUS
  <2>2. PICK none : none = {}
    OBVIOUS
  <2>3. /\ \A list \in lists : Ranks(list, none)
        /\ \A x \in none : x.n \in Nat \ {0}
        /\ entry.n \in Nat /\ entry \notin none
        /\ none = IF entry.n > 0 THEN none \cup {entry} ELSE none
        /\ (entry.n = 0 => none = {})
    <3>1. entry.n = 0
      BY <2>1
    <3> QED  BY <1>3, <2>1, <2>2, <3>1 DEF AllRank
  <2>4. \A list \in Push(lists, entry) : Ranks(list, none)
    BY <2>3, EntryPushed
  <2>5. i \in 0 .. n - 1
    OBVIOUS
  <2>6. g[1 .. i + 1] = Push(lists, entry)
    BY <1>1, <2>1, <2>5 DEF SmoothRun
  <2> QED  BY <2>2, <2>4, <2>6 DEF AllRank
<1> HIDE DEF Good
<1>4. n \in Good
  BY <1>2, <1>3, NatSetInduction
<1>5. AllRank(g[1 .. n], {})
  BY <1>4 DEF Good
<1> QED  BY <1>1, <1>5 DEF SmoothRun

\* The entries with a count among the first n of s.
CountedIn(s, n) == {s[i] : i \in {j \in 1 .. n : s[j].n > 0}}

LEMMA CountedRank ==
  ASSUME NUM_WORDS_PER_TOP \in Nat \ {0}, NEW lists, AllRank(lists, {}),
         NEW s, NEW n \in Nat, DOMAIN s = 1 .. n, \A i \in 1 .. n : s[i].n \in Nat,
         \A i, j \in 1 .. n : s[i] = s[j] => i = j
  PROVE  AllRank(AllPushed(lists, s), CountedIn(s, n))
<1>1. PICK g : PushRun(lists, s, n, g)
  BY PushFold
<1> DEFINE Good == {i \in Nat : i <= n => AllRank(g[1 .. i], CountedIn(s, i))}
<1>2. 0 \in Good
  <2>1. CountedIn(s, 0) = {}
    BY DEF CountedIn
  <2> QED  BY <1>1, <2>1 DEF PushRun
<1>3. ASSUME NEW i \in Nat, i \in Good PROVE i + 1 \in Good
  <2> SUFFICES ASSUME i + 1 <= n PROVE AllRank(g[1 .. i + 1], CountedIn(s, i + 1))
    OBVIOUS
  <2>1. PICK ls, entry : ls = g[1 .. i] /\ entry = s[i + 1]
    OBVIOUS
  <2>2. PICK counted, more : counted = CountedIn(s, i) /\ more = CountedIn(s, i + 1)
    OBVIOUS
  <2>3. i \in 0 .. n - 1 /\ i + 1 \in 1 .. n /\ entry.n \in Nat
    BY <2>1
  <2>4. more = IF entry.n > 0 THEN counted \cup {entry} ELSE counted
    <3>1. 1 .. i + 1 = (1 .. i) \cup {i + 1}
      OBVIOUS
    <3> QED  BY <2>1, <2>2, <3>1 DEF CountedIn
  <2>5. entry \notin counted /\ \A x \in counted : x.n \in Nat \ {0}
    <3>1. ASSUME NEW x \in counted PROVE x # entry /\ x.n \in Nat \ {0}
      <4>1. PICK j \in 1 .. i : x = s[j] /\ s[j].n > 0
        BY <2>2 DEF CountedIn
      <4>2. j \in 1 .. n /\ j # i + 1
        BY <2>3
      <4> QED  BY <2>1, <2>3, <4>1, <4>2
    <3> QED  BY <3>1
  <2>6. \A list \in ls : Ranks(list, counted)
    BY <1>3, <2>1, <2>2 DEF AllRank
  <2>7. g[1 .. i + 1] = PushCounted(ls, entry)
    BY <1>1, <2>1, <2>3 DEF PushRun
  <2>8. CASE entry.n > 0
    <3>1. entry.n = 0 => counted = {}
      BY <2>8
    <3>2. \A list \in Push(ls, entry) : Ranks(list, more)
      BY <2>3, <2>4, <2>5, <2>6, <3>1, EntryPushed
    <3> QED  BY <2>2, <2>7, <2>8, <3>2 DEF AllRank, PushCounted
  <2>9. CASE ~(entry.n > 0)
    BY <2>2, <2>4, <2>6, <2>7, <2>9 DEF AllRank, PushCounted
  <2> QED  BY <2>8, <2>9
<1> HIDE DEF Good
<1>4. n \in Good
  BY <1>2, <1>3, NatSetInduction
<1>5. AllRank(g[1 .. n], CountedIn(s, n))
  BY <1>4 DEF Good
<1> QED  BY <1>1, <1>5 DEF PushRun

(***************************************************************************)
(* get_eval() of a dictionary's words and a table with a count of each in  *)
(* the topic: whatever the pushes replace, each list a topic may get has   *)
(* the words counted most often, as many as it is long (GenericTopKList).  *)
(***************************************************************************)
TopEntries(d, table, t) ==
  {[word |-> w, n |-> table[w][t]] : w \in {v \in DOMAIN d.word_ind_map : table[v][t] > 0}}

THEOREM TopWordsRanked ==
  ASSUME NUM_WORDS_PER_TOP \in Nat \ {0}, NEW d, NEW f, Of(d, f), NEW table, NEW t,
         \A w \in DOMAIN d.word_ind_map : table[w][t] \in Nat, NEW list
  PROVE  AllRank(TopWords(list, d, table, t), TopEntries(d, table, t))
<1>1. PICK k \in Nat :
        /\ k = Cardinality(DOMAIN f) /\ num_words(d) = k
        /\ DOMAIN d.word_ind_map = DOMAIN f
        /\ DOMAIN d.ind_word_map = 0 .. k - 1
        /\ \A w \in DOMAIN f :
             /\ d.word_ind_map[w] \in 0 .. k - 1
             /\ d.ind_word_map[d.word_ind_map[w]] = w
             /\ Freq(d, d.word_ind_map[w]) = f[w] /\ f[w] \in Nat
        /\ \A i \in 0 .. k - 1 : \E w \in DOMAIN f : d.word_ind_map[w] = i
  <2>1. PICK j \in Nat : OfAs(d, f, j)
    BY OfParts
  <2> QED  BY <2>1 DEF OfAs, IndexesAs
<1>2. PICK words : words = [i \in 1 .. k |-> d.ind_word_map[i - 1]]
  OBVIOUS
<1>3. PICK smooth : smooth = [i \in DOMAIN words |-> [word |-> words[i], n |-> 0]]
  OBVIOUS
<1>4. PICK counted :
        counted = [i \in DOMAIN words |-> [word |-> words[i], n |-> table[words[i]][t]]]
  OBVIOUS
<1>5. TopWords(list, d, table, t) = AllPushed(Smoothed(smooth), counted)
  <2>1. words = [i \in 1 .. num_words(d) |-> d.ind_word_map[i - 1]]
    BY <1>1, <1>2
  <2>2. PICK base : base = {Cleared(list)} /\ base = {{}}
    BY DEF Cleared
  <2>3. TopWords(list, d, table, t) = AllPushed(FoldLeft(Push, base, smooth), counted)
    BY <1>3, <1>4, <2>1, <2>2, Zenon DEF TopWords, AllPushed
  <2>4. Smoothed(smooth) = FoldLeft(Push, base, smooth)
    BY <2>2, Zenon DEF Smoothed
  <2> QED  BY <2>3, <2>4
<1>6. /\ DOMAIN words = 1 .. k
      /\ \A i \in 1 .. k : words[i] \in DOMAIN f /\ d.word_ind_map[words[i]] = i - 1
  <2>1. ASSUME NEW i \in 1 .. k
        PROVE  words[i] \in DOMAIN f /\ d.word_ind_map[words[i]] = i - 1
    <3>1. PICK w \in DOMAIN f : d.word_ind_map[w] = i - 1
      BY <1>1
    <3> QED  BY <1>1, <1>2, <3>1
  <2> QED  BY <1>2, <2>1
<1>7. DOMAIN smooth = 1 .. k /\ \A i \in 1 .. k : smooth[i].n = 0
  BY <1>3, <1>6
<1>8. /\ DOMAIN counted = 1 .. k
      /\ \A i \in 1 .. k : /\ counted[i] = [word |-> words[i], n |-> table[words[i]][t]]
                           /\ counted[i].n \in Nat /\ counted[i].word = words[i]
  BY <1>1, <1>4, <1>6
<1>9. \A i, j \in 1 .. k : counted[i] = counted[j] => i = j
  BY <1>6, <1>8
<1>10. PICK lists : lists = Smoothed(smooth)
  OBVIOUS
<1>11. AllRank(lists, {})
  BY <1>7, <1>10, SmoothRanks
<1>12. AllRank(AllPushed(lists, counted), CountedIn(counted, k))
  BY <1>8, <1>9, <1>11, CountedRank
<1>13. CountedIn(counted, k) = TopEntries(d, table, t)
  <2>1. \A w \in DOMAIN f : \E i \in 1 .. k : words[i] = w
    <3> SUFFICES ASSUME NEW w \in DOMAIN f PROVE \E i \in 1 .. k : words[i] = w
      OBVIOUS
    <3>1. PICK b \in 0 .. k - 1 : b = d.word_ind_map[w] /\ d.ind_word_map[b] = w
      BY <1>1
    <3>2. PICK i \in 1 .. k : i = b + 1 /\ i - 1 = b
      OBVIOUS
    <3> QED  BY <1>2, <3>1, <3>2
  <2>2. CountedIn(counted, k) \subseteq TopEntries(d, table, t)
    BY <1>1, <1>6, <1>8 DEF CountedIn, TopEntries
  <2>3. TopEntries(d, table, t) \subseteq CountedIn(counted, k)
    <3> SUFFICES ASSUME NEW w \in DOMAIN f, table[w][t] > 0
                 PROVE  [word |-> w, n |-> table[w][t]] \in CountedIn(counted, k)
      BY <1>1 DEF TopEntries
    <3>1. PICK i \in 1 .. k : words[i] = w
      BY <2>1
    <3>2. counted[i] = [word |-> w, n |-> table[w][t]] /\ counted[i].n > 0
      BY <1>8, <3>1
    <3> QED  BY <3>2 DEF CountedIn
  <2> QED  BY <2>2, <2>3
<1> QED  BY <1>5, <1>10, <1>12, <1>13

HasOf(d, table, t) == {w \in DOMAIN d.word_ind_map : table[w][t] > 0}

PrintedOf(list) == {e \in list : e.n > 0}

\* What is printed of a list, for a topic with these words, is what ranks first.
Prints(printed, has, table, t) ==
  /\ Cardinality(printed) = Min({Cardinality(has), NUM_WORDS_PER_TOP})
  /\ \A e \in printed : e.n = table[e.word][t] /\ e.word \in has
  /\ \A w \in has \ {e.word : e \in printed} : \A e \in printed : table[w][t] <= e.n

LEMMA RanksPrint ==
  ASSUME NUM_WORDS_PER_TOP \in Nat \ {0}, NEW d, NEW f, Of(d, f), NEW table, NEW t,
         \A w \in DOMAIN d.word_ind_map : table[w][t] \in Nat,
         NEW list, Ranks(list, TopEntries(d, table, t))
  PROVE  Prints(PrintedOf(list), HasOf(d, table, t), table, t)
<1>0. PICK has, printed : /\ has = {w \in DOMAIN d.word_ind_map : table[w][t] > 0}
                          /\ printed = {e \in list : e.n > 0}
                          /\ has = HasOf(d, table, t) /\ printed = PrintedOf(list)
  BY DEF HasOf, PrintedOf
<1> SUFFICES Prints(printed, has, table, t)
  BY <1>0
<1>1. PICK C : C = TopEntries(d, table, t)
  OBVIOUS
<1>2. C = {[word |-> w, n |-> table[w][t]] : w \in has}
  BY <1>0, <1>1 DEF TopEntries
<1>3. \A x \in C : x.word \in has /\ x.n = table[x.word][t] /\ x.n \in Nat
  BY <1>0, <1>2
<1>4. \A e \in printed : e \in C /\ e \in list /\ e.n > 0
  BY <1>0, <1>1 DEF Ranks
<1>5. \A x \in C : x.n > 0
  BY <1>0, <1>3
<1>6. IsFiniteSet(has)
  <2>1. DOMAIN d.word_ind_map = DOMAIN f /\ IsFiniteSet(DOMAIN f)
    BY DEF Of, IsDictionaryOf
  <2> QED  BY <1>0, <2>1, FS_Subset
<1>7. IsFiniteSet(C) /\ Cardinality(C) = Cardinality(has)
  <2>1. PICK b : b = [w \in has |-> [word |-> w, n |-> table[w][t]]]
    OBVIOUS
  <2>2. \A w \in has : b[w] \in C /\ b[w].word = w
    BY <1>2, <2>1
  <2>3. b \in [has -> C]
    BY <2>1, <2>2
  <2>4. \A v, w \in has : b[v] = b[w] => v = w
    BY <2>2
  <2>5. \A x \in C : \E w \in has : b[w] = x
    BY <1>2, <2>1
  <2>6. b \in Injection(has, C)
    BY <2>3, <2>4 DEF Injection, IsInjective
  <2>7. b \in Surjection(has, C)
    BY <2>3, <2>5 DEF Surjection
  <2>8. ExistsBijection(has, C)
    BY <2>6, <2>7 DEF ExistsBijection, Bijection
  <2> QED  BY <1>6, <2>8, FS_Bijection
<1>8. PICK k \in Nat : k = Cardinality(has)
  BY <1>6, FS_CardinalityType
<1>9. PICK m \in Nat : /\ m = Min({k, NUM_WORDS_PER_TOP})
                       /\ m <= k /\ m <= NUM_WORDS_PER_TOP /\ (m = k \/ m = NUM_WORDS_PER_TOP)
  BY SmallerOfTwo
<1>10. IsFiniteSet(list) /\ Cardinality(list) <= NUM_WORDS_PER_TOP /\ Cardinality(list) \in Nat
  BY FS_CardinalityType DEF Ranks
<1>11. CASE C \subseteq list
  <2>1. printed = C
    BY <1>0, <1>4, <1>5, <1>11
  <2>2. k <= Cardinality(list)
    BY <1>7, <1>8, <1>10, <1>11, FS_Subset
  <2>3. Cardinality(printed) = Min({k, NUM_WORDS_PER_TOP})
    BY <1>7, <1>8, <1>9, <1>10, <2>1, <2>2
  <2>4. \A w \in has : [word |-> w, n |-> table[w][t]] \in printed
    BY <1>2, <2>1
  <2>5. ASSUME NEW w \in has PROVE w \in {e.word : e \in printed}
    <3>1. PICK x \in printed : x = [word |-> w, n |-> table[w][t]]
      BY <2>4
    <3>2. x.word = w
      BY <3>1
    <3> QED  BY <3>2
  <2> QED  BY <1>3, <1>8, <2>1, <2>3, <2>5 DEF Prints
<1>12. CASE ~(C \subseteq list)
  <2>1. Cardinality(list) = NUM_WORDS_PER_TOP /\ \A e \in list : e.n > 0
    BY <1>1, <1>12 DEF Ranks
  <2>2. printed = list
    BY <1>0, <2>1
  <2>3. list \subseteq C
    BY <1>4, <2>2
  <2>4. NUM_WORDS_PER_TOP <= k
    BY <1>7, <1>8, <2>1, <2>3, FS_Subset
  <2>5. m = NUM_WORDS_PER_TOP
    BY <1>9, <2>4
  <2>6. Cardinality(printed) = Min({k, NUM_WORDS_PER_TOP})
    BY <1>9, <2>5, <2>1, <2>2
  <2>7. ASSUME NEW w \in has \ {e.word : e \in printed}, NEW e \in printed
        PROVE  table[w][t] <= e.n
    <3>1. PICK x : x = [word |-> w, n |-> table[w][t]]
      OBVIOUS
    <3>2. x.word = w /\ x.n = table[w][t] /\ x \in C
      BY <1>2, <3>1
    <3>3. x \notin list
      BY <2>2, <3>2
    <3> QED  BY <1>1, <2>2, <3>2, <3>3 DEF Ranks
  <2>8. \A e \in printed : e.n = table[e.word][t] /\ e.word \in has
    BY <1>3, <1>4
  <2> QED  BY <1>8, <2>6, <2>7, <2>8 DEF Prints
<1> QED  BY <1>11, <1>12

LEMMA UnionFinite ==
  ASSUME NEW S, IsFiniteSet(S), NEW f, \A x \in S : IsFiniteSet(f[x])
  PROVE  IsFiniteSet(UNION {f[x] : x \in S})
<1> DEFINE Good == {T \in SUBSET S : IsFiniteSet(UNION {f[x] : x \in T})}
<1>1. {} \in Good
  <2>1. UNION {f[x] : x \in {}} = {}
    OBVIOUS
  <2> QED  BY <2>1, FS_EmptySet
<1>2. ASSUME NEW T \in SUBSET S, NEW x \in S, x \notin T, T \in Good
      PROVE  T \cup {x} \in Good
  <2>1. PICK A, B : A = UNION {f[y] : y \in T} /\ B = f[x]
    OBVIOUS
  <2>2. UNION {f[y] : y \in T \cup {x}} = A \cup B
    BY <2>1
  <2>3. IsFiniteSet(A) /\ IsFiniteSet(B)
    BY <1>2, <2>1
  <2>4. IsFiniteSet(A \cup B)
    BY <2>3, FS_Union
  <2> QED  BY <2>2, <2>4
<1> HIDE DEF Good
<1>3. \A T \in SUBSET S, x \in S : x \notin T /\ T \in Good => T \cup {x} \in Good
  BY <1>2
<1>4. SUBSET S \subseteq Good
  BY <1>1, <1>3, SubsetInduction
<1>5. S \in Good
  BY <1>4
<1> QED  BY <1>5 DEF Good

(***************************************************************************)
(* The learner counts every word of every machine's dictionary: the        *)
(* formatter has written each where it was read.                           *)
(***************************************************************************)
Documented(m) ==
  /\ WellMade(dict[m]) /\ \E R : input_w[m] \in Seq(R)
  /\ \A n \in 1 .. Len(input_w[m]) :
       Indexes(BodyOf(input_w[m], n), dict[m].current_index)
  /\ \A w \in DOMAIN dict[m].word_ind_map :
       \E n \in 1 .. Len(input_w[m]) : Names(BodyOf(input_w[m], n), dict[m], w)

LinePlaces(m, n) == {<<m, n, i>> : i \in DOMAIN BodyOf(input_w[m], n)}

LEMMA LinePlacesFinite ==
  ASSUME NEW m, Documented(m), NEW n \in 1 .. Len(input_w[m])
  PROVE  IsFiniteSet(LinePlaces(m, n))
<1>1. PICK body \in Seq(Nat) : body = BodyOf(input_w[m], n)
  BY DEF Documented, Indexes
<1>2. PICK k \in Nat : DOMAIN body = 1 .. k
  OBVIOUS
<1>3. IsFiniteSet(1 .. k)
  BY FS_Interval
<1>4. PICK f : f = [i \in 1 .. k |-> {<<m, n, i>>}]
  OBVIOUS
<1>5. \A i \in 1 .. k : IsFiniteSet(f[i])
  BY <1>4, FS_Singleton
<1>6. IsFiniteSet(UNION {f[i] : i \in 1 .. k})
  BY <1>3, <1>5, UnionFinite
<1>7. UNION {f[i] : i \in 1 .. k} = LinePlaces(m, n)
  <2>1. LinePlaces(m, n) = {<<m, n, i>> : i \in 1 .. k}
    BY <1>1, <1>2 DEF LinePlaces
  <2> QED  BY <1>4, <2>1
<1> QED  BY <1>6, <1>7

LEMMA PlacesFinite ==
  ASSUME NEW M, IsFiniteSet(M), Machines = M, \A m \in M : Documented(m)
  PROVE  IsFiniteSet(FormattedPlaces)
<1>1. PICK f : f = [m \in M |-> UNION {LinePlaces(m, n) : n \in DOMAIN input_w[m]}]
  OBVIOUS
<1>2. ASSUME NEW m \in M PROVE IsFiniteSet(f[m])
  <2>1. PICK k \in Nat : k = Len(input_w[m]) /\ DOMAIN input_w[m] = 1 .. k
    BY DEF Documented
  <2>2. PICK g : g = [n \in 1 .. k |-> LinePlaces(m, n)]
    OBVIOUS
  <2>3. \A n \in 1 .. k : IsFiniteSet(g[n])
    BY <2>1, <2>2, LinePlacesFinite
  <2>4. IsFiniteSet(1 .. k)
    BY FS_Interval
  <2>5. IsFiniteSet(UNION {g[n] : n \in 1 .. k})
    BY <2>3, <2>4, UnionFinite
  <2>6. UNION {g[n] : n \in 1 .. k} = f[m]
    BY <1>1, <2>1, <2>2
  <2> QED  BY <2>5, <2>6
<1>3. IsFiniteSet(UNION {f[m] : m \in M})
  BY <1>2, UnionFinite
<1>4. UNION {f[m] : m \in M} = FormattedPlaces
  <2>1. FormattedPlaces
          = UNION {UNION {LinePlaces(m, n) : n \in DOMAIN input_w[m]} : m \in M}
    BY Zenon DEF FormattedPlaces, LinePlaces
  <2> QED  BY <1>1, <2>1
<1> QED  BY <1>3, <1>4

LEMMA WordPlaced ==
  ASSUME NEW m \in Machines, Documented(m), NEW w \in DOMAIN dict[m].word_ind_map
  PROVE  \E p \in FormattedPlaces : FormattedWord(p) = w
<1>1. PICK n \in 1 .. Len(input_w[m]) : Names(BodyOf(input_w[m], n), dict[m], w)
  BY DEF Documented
<1>2. PICK body \in Seq(Nat) : body = BodyOf(input_w[m], n)
  BY DEF Documented, Indexes
<1>3. PICK i \in 1 .. Len(body) : body[i] = dict[m].word_ind_map[w]
  BY <1>1, <1>2 DEF Names
<1>4. n \in DOMAIN input_w[m] /\ i \in DOMAIN body
  BY DEF Documented
<1>5. PICK p : p = <<m, n, i>>
  OBVIOUS
<1>6. p[1] = m /\ p[2] = n /\ p[3] = i
  BY <1>5
<1>7. p \in FormattedPlaces
  BY <1>2, <1>4, <1>5 DEF FormattedPlaces
<1>8. dict[m].ind_word_map[dict[m].word_ind_map[w]] = w
  BY MadeParts DEF Documented
<1>9. FormattedWord(p) = dict[m].ind_word_map[body[i]]
  BY <1>2, <1>6 DEF FormattedWord
<1> QED  BY <1>3, <1>7, <1>8, <1>9

LEMMA CountingsTyped ==
  ASSUME IsCorpus(corpus), \A m \in Machines : Documented(m), NEW c \in Countings,
         NEW m \in Machines, NEW w \in DOMAIN dict[m].word_ind_map
  PROVE  c[w] \in [Topics -> Nat]
<1>1. IsFiniteSet(Machines)
  <2>1. PICK k \in Nat : DOMAIN corpus = 1 .. k
    BY DEF IsCorpus, IsLines, IsList
  <2>2. IsFiniteSet(1 .. k)
    BY FS_Interval
  <2> QED  BY <2>1, <2>2 DEF Machines
<1>2. IsFiniteSet(FormattedPlaces)
  BY <1>1, PlacesFinite
<1>3. PICK words : words = {FormattedWord(p) : p \in FormattedPlaces}
  OBVIOUS
<1>4. w \in words
  BY <1>3, WordPlaced
<1>5. PICK n \in Nat : n = Frequency(w)
  <2>1. IsFiniteSet({p \in FormattedPlaces : FormattedWord(p) = w})
    BY <1>2, FS_Subset
  <2> QED  BY <2>1, FS_CardinalityType DEF Frequency
<1>6. c[w] \in {s \in [Topics -> 0 .. Frequency(w)] : FoldFunction(+, 0, s) = Frequency(w)}
  BY <1>3, <1>4, Zenon DEF Countings
<1>7. c[w] \in [Topics -> 0 .. n]
  BY <1>5, <1>6
<1> QED  BY <1>7

-----------------------------------------------------------------------------
(***************************************************************************)
(* The loading of the dumps, part after part: the fold of Load() over the  *)
(* records of a part.                                                      *)
(***************************************************************************)
RecordsLoaded(part, base, s) ==
  FoldLeft(LAMBDA t, k : LoadRecord(part, t, k), base, s)

Loading(part, base, s, g) ==
  g = [t \in SUBSET DOMAIN s |->
         IF t = {} THEN base ELSE LoadRecord(part, g[t \ {Max(t)}], s[Max(t)])]

LoadingOf(part, base, s) == CHOOSE g : Loading(part, base, s, g)

LoadRun(part, base, s, n, g) ==
  /\ RecordsLoaded(part, base, s) = g[1 .. n] /\ g[1 .. 0] = base
  /\ \A i \in 0 .. n - 1 : g[1 .. i + 1] = LoadRecord(part, g[1 .. i], s[i + 1])

LEMMA LoadFold ==
  ASSUME NEW part, NEW base, NEW s, NEW n \in Nat, DOMAIN s = 1 .. n
  PROVE  \E g : LoadRun(part, base, s, n, g)
<1>1. RecordsLoaded(part, base, s) = LoadingOf(part, base, s)[DOMAIN s]
  BY Zenon DEF RecordsLoaded, FoldLeft, MapThenFoldSet, LoadingOf, Loading
<1>2. \A acc, x : OneStep(Fold("loads", part), acc, x) = LoadRecord(part, acc, x)
  BY DEF OneStep, Fold
<1>3. \A g : Folds(Fold("loads", part), base, s, g) <=> Loading(part, base, s, g)
  BY <1>2 DEF Folds, Loading, Unfolded
<1>4. Loading(part, base, s, LoadingOf(part, base, s))
  BY <1>3, FoldExists, Zenon DEF LoadingOf
<1>5. Folds(Fold("loads", part), base, s, LoadingOf(part, base, s))
  BY <1>3, <1>4
<1>6. PICK g : g = LoadingOf(part, base, s)
  OBVIOUS
<1>7. Runs(Fold("loads", part), base, s, n, g)
  BY <1>5, <1>6, FoldUnfolds
<1>8. LoadRun(part, base, s, n, g)
  BY <1>1, <1>2, <1>6, <1>7 DEF Runs, LoadRun
<1> QED  BY <1>8

\* d is a dictionary of some words.
Sound(d) == \E f : IsFiniteSet(DOMAIN f) /\ IsDictionaryOf(d, f)

\* The tester's dictionary is one, and has words of the one of the dumps.
TesterKnows ==
  /\ Sound(local_dict) /\ Sound(global_dict)
  /\ DOMAIN local_dict.word_ind_map \subseteq DOMAIN global_dict.word_ind_map

\* A part has the counts of num words, from this index on.
PartHas(part, from, num) ==
  /\ from \in Nat /\ num \in Nat /\ Offset(part) = from
  /\ from + num <= num_words(global_dict)
  /\ Len(dump[part]) = num + 2 /\ incoming_words(part) = num
  /\ \A k \in 0 .. num - 1 :
       dump[part][k + 2].cnt_topics = counts[global_dict.ind_word_map[k + from]]

\* A table has the counts of the tester's words with an index below upto.
TableFields == {"counts", "totals"}

HasCounts(table, upto) ==
  /\ DOMAIN table = 0 .. num_words(local_dict) - 1
  /\ \A w \in DOMAIN local_dict.word_ind_map :
       global_dict.word_ind_map[w] < upto => table[local_dict.word_ind_map[w]] = counts[w]

LEMMA KnownWords ==
  ASSUME TesterKnows
  PROVE  /\ num_words(local_dict) \in Nat /\ num_words(global_dict) \in Nat
         /\ \A w \in DOMAIN local_dict.word_ind_map :
              /\ local_dict.word_ind_map[w] \in 0 .. num_words(local_dict) - 1
              /\ global_dict.word_ind_map[w] \in 0 .. num_words(global_dict) - 1
              /\ global_dict.ind_word_map[global_dict.word_ind_map[w]] = w
         /\ \A v, w \in DOMAIN local_dict.word_ind_map :
              local_dict.word_ind_map[v] = local_dict.word_ind_map[w] => v = w
         /\ \A i \in 0 .. num_words(global_dict) - 1 :
              global_dict.word_ind_map[global_dict.ind_word_map[i]] = i
         /\ \A i \in 0 .. num_words(local_dict) - 1 :
              \E w \in DOMAIN local_dict.word_ind_map : local_dict.word_ind_map[w] = i
<1>1. PICK f : IsFiniteSet(DOMAIN f) /\ IsDictionaryOf(local_dict, f)
  BY DEF TesterKnows, Sound
<1>2. PICK j \in Nat : IndexesAs(local_dict, f, j)
  BY <1>1, IndexParts
<1>3. PICK g : IsFiniteSet(DOMAIN g) /\ IsDictionaryOf(global_dict, g)
  BY DEF TesterKnows, Sound
<1>4. PICK k \in Nat : IndexesAs(global_dict, g, k)
  BY <1>3, IndexParts
<1>5. num_words(local_dict) = j /\ num_words(global_dict) = k
  BY <1>2, <1>4 DEF IndexesAs
<1>6. \A w \in DOMAIN local_dict.word_ind_map :
        /\ local_dict.word_ind_map[w] \in 0 .. j - 1
        /\ local_dict.ind_word_map[local_dict.word_ind_map[w]] = w
  BY <1>2 DEF IndexesAs
<1>7. \A w \in DOMAIN global_dict.word_ind_map :
        /\ global_dict.word_ind_map[w] \in 0 .. k - 1
        /\ global_dict.ind_word_map[global_dict.word_ind_map[w]] = w
  BY <1>4 DEF IndexesAs
<1>8. \A i \in 0 .. k - 1 : \E w \in DOMAIN global_dict.word_ind_map :
                              global_dict.word_ind_map[w] = i
  BY <1>4 DEF IndexesAs
<1>9. \A i \in 0 .. k - 1 : global_dict.word_ind_map[global_dict.ind_word_map[i]] = i
  BY <1>7, <1>8
<1>10. \A i \in 0 .. j - 1 : \E w \in DOMAIN local_dict.word_ind_map :
                               local_dict.word_ind_map[w] = i
  BY <1>2 DEF IndexesAs
<1> QED  BY <1>5, <1>6, <1>7, <1>9, <1>10 DEF TesterKnows

\* One record after the other.
LEMMA RecordLoaded ==
  ASSUME TesterKnows, NEW part, NEW from, NEW num, PartHas(part, from, num),
         NEW k \in 0 .. num - 1, NEW t, DOMAIN t = TableFields,
         HasCounts(t.counts, from + k)
  PROVE  /\ DOMAIN LoadRecord(part, t, k) = TableFields
         /\ HasCounts(LoadRecord(part, t, k).counts, from + k + 1)
<1>1. PICK word : word = global_dict.ind_word_map[k + from]
  OBVIOUS
<1>2. from \in Nat /\ num \in Nat /\ k \in Nat /\ k < num /\ Offset(part) = from
        /\ incoming_words(part) = num /\ from + num <= num_words(global_dict)
        /\ dump[part][k + 2].cnt_topics = counts[word]
  BY <1>1 DEF PartHas
<1>3. PICK r : r = dump[part][k + 2]
  OBVIOUS
<1>4. LoadRecord(part, t, k) =
        IF ~Has(local_dict, word) THEN t
        ELSE [t EXCEPT !.counts[local_dict.word_ind_map[word]] = r.cnt_topics,
                       !.totals = Plus(@, r.cnt_topics)]
  BY <1>1, <1>2, <1>3, ~(k >= incoming_words(part)), Zenon DEF LoadRecord
<1>5. PICK i : i = k + from /\ i \in 0 .. num_words(global_dict) - 1
  BY <1>2, KnownWords
<1>6. word = global_dict.ind_word_map[i] /\ global_dict.word_ind_map[word] = i
  BY <1>1, <1>5, KnownWords
<1>7. ASSUME NEW w \in DOMAIN local_dict.word_ind_map,
             global_dict.word_ind_map[w] < from + k + 1, w # word
      PROVE  global_dict.word_ind_map[w] < from + k
  <2>1. global_dict.word_ind_map[w] \in Nat /\ global_dict.word_ind_map[w] # i
    BY <1>6, <1>7, KnownWords
  <2> QED  BY <1>2, <1>5, <1>7, <2>1
<1>8. CASE ~Has(local_dict, word)
  <2>1. \A w \in DOMAIN local_dict.word_ind_map : w # word
    BY <1>8 DEF Has
  <2> QED  BY <1>4, <1>7, <1>8, <2>1 DEF HasCounts
<1>9. CASE Has(local_dict, word)
  <2>1. PICK c, x : c = t.counts /\ x = local_dict.word_ind_map[word]
    OBVIOUS
  <2>2. PICK e : e = [c EXCEPT ![x] = r.cnt_topics]
    OBVIOUS
  <2>3. PICK h : h = LoadRecord(part, t, k)
    OBVIOUS
  <2>4. h = [t EXCEPT !.counts[x] = r.cnt_topics, !.totals = Plus(@, r.cnt_topics)]
    BY <1>4, <1>9, <2>1, <2>3
  <2>5. DOMAIN h = TableFields /\ h.counts = e
    BY <2>1, <2>2, <2>4 DEF TableFields
  <2>6. DOMAIN c = 0 .. num_words(local_dict) - 1
        /\ \A w \in DOMAIN local_dict.word_ind_map :
             global_dict.word_ind_map[w] < from + k => c[local_dict.word_ind_map[w]] = counts[w]
    BY <2>1 DEF HasCounts
  <2>7. word \in DOMAIN local_dict.word_ind_map
    BY <1>9 DEF Has
  <2>8. x \in DOMAIN c /\ r.cnt_topics = counts[word]
    BY <1>2, <1>3, <2>1, <2>6, <2>7, KnownWords
  <2>9. DOMAIN e = DOMAIN c /\ e[x] = counts[word]
          /\ \A y \in DOMAIN c : y # x => e[y] = c[y]
    BY <2>2, <2>8
  <2>10. ASSUME NEW w \in DOMAIN local_dict.word_ind_map,
                global_dict.word_ind_map[w] < from + k + 1
         PROVE  e[local_dict.word_ind_map[w]] = counts[w]
    <3>1. CASE w = word
      BY <2>1, <2>9, <3>1
    <3>2. CASE w # word
      <4>1. c[local_dict.word_ind_map[w]] = counts[w]
        BY <1>7, <2>6, <2>10, <3>2
      <4>2. local_dict.word_ind_map[w] # x /\ local_dict.word_ind_map[w] \in DOMAIN c
        BY <2>1, <2>6, <2>7, <3>2, KnownWords
      <4> QED  BY <2>9, <4>1, <4>2
    <3> QED  BY <3>1, <3>2
  <2>11. HasCounts(e, from + k + 1)
    BY <2>6, <2>9, <2>10 DEF HasCounts
  <2> QED  BY <2>3, <2>5, <2>11
<1> QED  BY <1>8, <1>9

\* A part with its record of totals.
LEMMA PartLoaded ==
  ASSUME TesterKnows, NEW part, NEW from, NEW num, PartHas(part, from, num),
         NEW base, DOMAIN base = TableFields, HasCounts(base.counts, from),
         NEW s, s = [n \in 1 .. Len(dump[part]) - 1 |-> n - 1]
  PROVE  HasCounts(RecordsLoaded(part, base, s).counts, from + num)
<1>1. from \in Nat /\ num \in Nat /\ Len(dump[part]) = num + 2 /\ incoming_words(part) = num
  BY DEF PartHas
<1>2. PICK m \in Nat : m = num + 1 /\ DOMAIN s = 1 .. m /\ \A i \in 0 .. num : s[i + 1] = i
  BY <1>1
<1>3. PICK g : LoadRun(part, base, s, m, g)
  BY <1>2, LoadFold
<1> DEFINE Good == {n \in Nat : n <= num => /\ DOMAIN g[1 .. n] = TableFields
                                            /\ HasCounts(g[1 .. n].counts, from + n)}
<1>4. 0 \in Good
  <2>1. g[1 .. 0] = base /\ from + 0 = from
    BY <1>1, <1>3 DEF LoadRun
  <2> QED  BY <2>1
<1>5. ASSUME NEW n \in Nat, n \in Good PROVE n + 1 \in Good
  <2> SUFFICES ASSUME n + 1 <= num
               PROVE  /\ DOMAIN g[1 .. n + 1] = TableFields
                      /\ HasCounts(g[1 .. n + 1].counts, from + (n + 1))
    OBVIOUS
  <2>1. PICK t : t = g[1 .. n]
    OBVIOUS
  <2>2. DOMAIN t = TableFields /\ HasCounts(t.counts, from + n) /\ n \in 0 .. num - 1
    BY <1>1, <1>5, <2>1
  <2>3. PICK h : h = LoadRecord(part, t, n)
    OBVIOUS
  <2>4. DOMAIN h = TableFields /\ HasCounts(h.counts, from + n + 1)
    BY <2>2, <2>3, RecordLoaded
  <2>5. n \in 0 .. m - 1 /\ s[n + 1] = n
    BY <1>1, <1>2, <2>2
  <2>6. g[1 .. n + 1] = h
    BY <1>3, <2>1, <2>3, <2>5 DEF LoadRun
  <2>7. from + n + 1 = from + (n + 1)
    BY <1>1
  <2> QED  BY <2>4, <2>6, <2>7
<1> HIDE DEF Good
<1>6. num \in Good
  BY <1>1, <1>4, <1>5, NatSetInduction
<1>7. PICK t : t = g[1 .. num] /\ DOMAIN t = TableFields /\ HasCounts(t.counts, from + num)
  BY <1>1, <1>6 DEF Good
<1>8. RecordsLoaded(part, base, s) = LoadRecord(part, t, num)
  <2>1. num \in 0 .. m - 1 /\ s[num + 1] = num
    BY <1>1, <1>2
  <2>2. g[1 .. num + 1] = LoadRecord(part, t, num)
    BY <1>3, <1>7, <2>1 DEF LoadRun
  <2> QED  BY <1>2, <1>3, <2>2 DEF LoadRun
<1>9. LoadRecord(part, t, num).counts = t.counts
  <2>1. PICK r : r = dump[part][num + 2]
    OBVIOUS
  <2>2. LoadRecord(part, t, num) = [t EXCEPT !.totals = Plus(@, r.topic_counts)]
    BY <1>1, <2>1, num >= incoming_words(part), Zenon DEF LoadRecord
  <2> QED  BY <1>7, <2>2 DEF TableFields
<1> QED  BY <1>7, <1>8, <1>9

-----------------------------------------------------------------------------
(***************************************************************************)
(* The documents to be tested.  The formatter of the tester leaves the     *)
(* words out that the model does not know: with W the words it does know,  *)
(* the folds that say which lines are documents and which words count      *)
(* there follow the formatter's, line by line and word by word.            *)
(***************************************************************************)
CountedWords(s, W) == FoldLeft(LAMBDA seq, w : AddCounting(seq, w, W), <<>>, s)

CountingFold(s, W, g) ==
  g = [t \in SUBSET DOMAIN s |->
         IF t = {} THEN <<>> ELSE AddCounting(g[t \ {Max(t)}], s[Max(t)], W)]

CountingOf(s, W) == CHOOSE g : CountingFold(s, W, g)

CountingRun(s, W, n, g) ==
  /\ CountedWords(s, W) = g[1 .. n] /\ g[1 .. 0] = <<>>
  /\ \A i \in 0 .. n - 1 : g[1 .. i + 1] = AddCounting(g[1 .. i], s[i + 1], W)

LEMMA CountingUnfolds ==
  ASSUME NEW s, NEW W, NEW n \in Nat, DOMAIN s = 1 .. n
  PROVE  \E g : CountingRun(s, W, n, g)
<1>1. CountedWords(s, W) = CountingOf(s, W)[DOMAIN s]
  BY Zenon DEF CountedWords, FoldLeft, MapThenFoldSet, CountingOf, CountingFold
<1>2. \A acc, x : OneStep(Fold("countings", W), acc, x) = AddCounting(acc, x, W)
  BY DEF OneStep, Fold
<1>3. \A g : Folds(Fold("countings", W), <<>>, s, g) <=> CountingFold(s, W, g)
  BY <1>2 DEF Folds, CountingFold, Unfolded
<1>4. CountingFold(s, W, CountingOf(s, W))
  BY <1>3, FoldExists, Zenon DEF CountingOf
<1>5. PICK g : g = CountingOf(s, W)
  OBVIOUS
<1>6. Folds(Fold("countings", W), <<>>, s, g)
  BY <1>3, <1>4, <1>5
<1>7. Runs(Fold("countings", W), <<>>, s, n, g)
  BY <1>6, FoldUnfolds
<1>8. CountingRun(s, W, n, g)
  BY <1>1, <1>2, <1>5, <1>7 DEF Runs, CountingRun
<1> QED  BY <1>8

DocumentFold(s, W, g) ==
  g = [t \in SUBSET DOMAIN s |->
         IF t = {} THEN <<>> ELSE AddDocument(g[t \ {Max(t)}], s[Max(t)], W)]

DocumentsOf(s, W) == CHOOSE g : DocumentFold(s, W, g)

DocumentRun(s, W, n, g) ==
  /\ DocumentLines(s, W) = g[1 .. n] /\ g[1 .. 0] = <<>>
  /\ \A i \in 0 .. n - 1 : g[1 .. i + 1] = AddDocument(g[1 .. i], s[i + 1], W)

LEMMA DocumentsUnfold ==
  ASSUME NEW s, NEW W, NEW n \in Nat, DOMAIN s = 1 .. n
  PROVE  \E g : DocumentRun(s, W, n, g)
<1>1. DocumentLines(s, W) = DocumentsOf(s, W)[DOMAIN s]
  BY Zenon DEF DocumentLines, FoldLeft, MapThenFoldSet, DocumentsOf, DocumentFold
<1>2. \A acc, x : OneStep(Fold("documents", W), acc, x) = AddDocument(acc, x, W)
  BY DEF OneStep, Fold
<1>3. \A g : Folds(Fold("documents", W), <<>>, s, g) <=> DocumentFold(s, W, g)
  BY <1>2 DEF Folds, DocumentFold, Unfolded
<1>4. DocumentFold(s, W, DocumentsOf(s, W))
  BY <1>3, FoldExists, Zenon DEF DocumentsOf
<1>5. PICK g : g = DocumentsOf(s, W)
  OBVIOUS
<1>6. Folds(Fold("documents", W), <<>>, s, g)
  BY <1>3, <1>4, <1>5
<1>7. Runs(Fold("documents", W), <<>>, s, n, g)
  BY <1>6, FoldUnfolds
<1>8. DocumentRun(s, W, n, g)
  BY <1>1, <1>2, <1>5, <1>7 DEF Runs, DocumentRun
<1> QED  BY <1>8

\* The body has the indexes of the words, one by one.
Written(body, words, d) ==
  /\ body \in Seq(Nat) /\ Len(words) = Len(body)
  /\ \A i \in 1 .. Len(body) :
       words[i] \in DOMAIN d.word_ind_map /\ body[i] = d.word_ind_map[words[i]]

\* f is what is made of a line with this docid, begun with the dictionary d,
\* when these words have counted.
Spells(f, d, words, docid, W) ==
  /\ WellMade(f.dict) /\ Keeps(d, f.dict) /\ DOMAIN f.dict.word_ind_map \subseteq W
  /\ DOMAIN f.wdoc = Fields /\ f.wdoc.docid = docid
  /\ words \in Seq(W) /\ Written(f.wdoc.body, words, f.dict)

\* W has the words of s that are neither stop words nor unknown.
Admits(s, W, unknown) ==
  \A i \in DOMAIN s : s[i] \in W <=> s[i] \notin Stopwords \cup unknown

LEMMA StillWritten ==
  ASSUME NEW body, NEW words, NEW d, NEW e, Written(body, words, d), Keeps(d, e)
  PROVE  Written(body, words, e)
BY DEF Written, Keeps

LEMMA WordSpelt ==
  ASSUME NEW f, NEW d, NEW words, NEW docid, NEW W, Spells(f, d, words, docid, W),
         NEW word, NEW unknown, word \in W <=> word \notin Stopwords \cup unknown,
         NEW h, h = AddWord(f, word, unknown)
  PROVE  Spells(h, d, AddCounting(words, word, W), docid, W)
<1>1. CASE word \in Stopwords \cup unknown
  <2>1. h = f /\ AddCounting(words, word, W) = words
    BY <1>1 DEF AddWord, AddCounting
  <2> QED  BY <2>1
<1>2. CASE word \notin Stopwords \cup unknown
  <2>1. PICK e : e = insert_word(f.dict, word)
    OBVIOUS
  <2>2. h.dict = e /\ h.wdoc = [f.wdoc EXCEPT !.body = Append(@, e.word_ind_map[word])]
    BY <1>2, <2>1, Zenon DEF AddWord
  <2>3. PICK a : a = f.dict
    OBVIOUS
  <2>4. /\ WellMade(e) /\ Keeps(a, e)
        /\ DOMAIN e.word_ind_map = DOMAIN a.word_ind_map \cup {word}
    BY <2>1, <2>3, InsertKeeps DEF Spells
  <2>5. PICK b, c, x : b = f.wdoc.body /\ c = h.wdoc.body /\ x = e.word_ind_map[word]
    OBVIOUS
  <2>6. DOMAIN h.wdoc = Fields /\ c = Append(b, x) /\ h.wdoc.docid = docid
    <3>1. DOMAIN f.wdoc = Fields /\ "body" \in Fields /\ "docid" \in Fields
            /\ f.wdoc.docid = docid
      BY DEF Spells, Fields
    <3> QED  BY <2>2, <2>5, <3>1
  <2>7. PICK new : new = AddCounting(words, word, W)
    OBVIOUS
  <2>8. word \in W /\ new = Append(words, word) /\ words \in Seq(W)
    BY <1>2, <2>7 DEF AddCounting, Spells
  <2>9. Written(b, words, e)
    BY <2>3, <2>4, <2>5, StillWritten DEF Spells
  <2>10. x \in Nat
    BY <2>4, <2>5, MadeParts
  <2>11. PICK n \in Nat : n = Len(b) /\ n = Len(words) /\ b \in Seq(Nat)
    BY <2>9 DEF Written
  <2>12. /\ c \in Seq(Nat) /\ Len(c) = n + 1 /\ c[n + 1] = x
         /\ \A i \in 1 .. n : c[i] = b[i]
    <3>1. b \in Seq(Nat) /\ Len(b) = n
      BY <2>11
    <3>2. PICK y \in Nat : y = x
      BY <2>10
    <3>3. c = Append(b, y)
      BY <2>6, <3>2
    <3> QED  BY <3>1, <3>2, <3>3
  <2>13. /\ new \in Seq(W) /\ Len(new) = n + 1 /\ new[n + 1] = word
         /\ \A i \in 1 .. n : new[i] = words[i]
    BY <2>8, <2>11
  <2>14. ASSUME NEW i \in 1 .. n + 1
         PROVE  new[i] \in DOMAIN e.word_ind_map /\ c[i] = e.word_ind_map[new[i]]
    <3>1. CASE i = n + 1
      BY <2>4, <2>5, <2>12, <2>13, <3>1
    <3>2. CASE i # n + 1
      <4>1. i \in 1 .. n
        BY <3>2
      <4> QED  BY <2>9, <2>11, <2>12, <2>13, <4>1 DEF Written
    <3> QED  BY <3>1, <3>2
  <2>15. Written(c, new, e)
    BY <2>12, <2>13, <2>14 DEF Written
  <2>16. Keeps(d, e) /\ DOMAIN e.word_ind_map \subseteq W
    <3>1. Keeps(d, a) /\ DOMAIN a.word_ind_map \subseteq W
      BY <2>3 DEF Spells
    <3> QED  BY <2>4, <2>8, <3>1 DEF Keeps
  <2> QED  BY <2>2, <2>4, <2>5, <2>6, <2>7, <2>13, <2>15, <2>16 DEF Spells
<1> QED  BY <1>1, <1>2

LEMMA LineSpelt ==
  ASSUME NEW d, WellMade(d), NEW W, DOMAIN d.word_ind_map \subseteq W,
         NEW line, IsList(line.words), NEW unknown, Admits(line.words, W, unknown)
  PROVE  Spells(read_from_inp(d, line, unknown), d, Counting(line, W), line.docid, W)
<1>1. PICK s : s = line.words
  OBVIOUS
<1>2. PICK k \in Nat : DOMAIN s = 1 .. k
  BY <1>1 DEF IsList
<1>3. PICK docid, f : docid = line.docid
        /\ f = [dict |-> d, wdoc |-> [Clear EXCEPT !.docid = docid]]
  OBVIOUS
<1>4. read_from_inp(d, line, unknown) = AfterWords(f, s, unknown)
  BY <1>1, <1>3, Zenon DEF read_from_inp, AfterWords
<1>5. Spells(f, d, <<>>, docid, W)
  <2>1. DOMAIN f.wdoc = Fields /\ f.wdoc.body = <<>> /\ f.wdoc.docid = docid
    <3>1. DOMAIN Clear = Fields /\ Clear.body = <<>>
      BY DEF Clear, Fields
    <3>2. PICK h : h = [Clear EXCEPT !.docid = docid]
      OBVIOUS
    <3>3. DOMAIN h = Fields /\ h.body = <<>> /\ h.docid = docid
      BY <3>1, <3>2 DEF Fields
    <3>4. f.wdoc = h
      BY <1>3, <3>2
    <3> QED  BY <3>3, <3>4
  <2>2. f.dict = d
    BY <1>3
  <2>3. Written(<<>>, <<>>, d) /\ <<>> \in Seq(W)
    BY DEF Written
  <2>4. Keeps(d, d)
    BY MadeParts DEF Keeps
  <2> QED  BY <2>1, <2>2, <2>3, <2>4 DEF Spells
<1>6. PICK g : WordRun(f, s, unknown, k, g)
  BY <1>2, WordFold
<1>7. PICK c : CountingRun(s, W, k, c)
  BY <1>2, CountingUnfolds
<1> DEFINE Good == {i \in Nat : i <= k => Spells(g[1 .. i], d, c[1 .. i], docid, W)}
<1>8. 0 \in Good
  BY <1>5, <1>6, <1>7 DEF WordRun, CountingRun
<1>9. ASSUME NEW i \in Nat, i \in Good PROVE i + 1 \in Good
  <2> SUFFICES ASSUME i + 1 <= k PROVE Spells(g[1 .. i + 1], d, c[1 .. i + 1], docid, W)
    OBVIOUS
  <2>1. PICK h, words, word : h = g[1 .. i] /\ words = c[1 .. i] /\ word = s[i + 1]
    OBVIOUS
  <2>2. Spells(h, d, words, docid, W)
    BY <1>9, <2>1
  <2>3. word \in W <=> word \notin Stopwords \cup unknown
    BY <1>1, <1>2, <2>1 DEF Admits
  <2>4. PICK e : e = AddWord(h, word, unknown)
    OBVIOUS
  <2>5. Spells(e, d, AddCounting(words, word, W), docid, W)
    BY <2>2, <2>3, <2>4, WordSpelt
  <2>6. i \in 0 .. k - 1
    OBVIOUS
  <2>7. g[1 .. i + 1] = e
    BY <1>6, <2>1, <2>4, <2>6 DEF WordRun
  <2>8. c[1 .. i + 1] = AddCounting(words, word, W)
    BY <1>7, <2>1, <2>6 DEF CountingRun
  <2> QED  BY <2>5, <2>7, <2>8
<1> HIDE DEF Good
<1>10. k \in Good
  BY <1>8, <1>9, NatSetInduction
<1>11. Spells(g[1 .. k], d, c[1 .. k], docid, W)
  BY <1>10 DEF Good
<1>12. AfterWords(f, s, unknown) = g[1 .. k]
  BY <1>6 DEF WordRun
<1>13. CountedWords(s, W) = c[1 .. k]
  BY <1>7 DEF CountingRun
<1>14. Counting(line, W) = CountedWords(s, W)
  BY <1>1, Zenon DEF Counting, CountedWords
<1> QED  BY <1>3, <1>4, <1>11, <1>12, <1>13, <1>14

\* The file has, for each of the lines ls, its docid and the words that count in it.
HasDocument(file, n, line, d, W) ==
  /\ Counting(line, W) \in Seq(W)
  /\ Written(BodyOf(file, n), Counting(line, W), d)
  /\ ReadRecord(file, n, Clear).docid = line.docid

HasDocuments(out, ls, W) ==
  /\ WellMade(out.dict) /\ DOMAIN out.dict.word_ind_map \subseteq W
  /\ \E R : out.output_w \in Seq(R)
  /\ \E R : ls \in Seq(R)
  /\ Len(out.output_w) = Len(ls)
  /\ \A n \in 1 .. Len(ls) : HasDocument(out.output_w, n, ls[n], out.dict, W)

\* The file new has the docids of file and one more.
OneDocidMore(new, file, docid) ==
  /\ ReadRecord(new, Len(file) + 1, Clear).docid = docid
  /\ \A n \in 1 .. Len(file) :
       ReadRecord(new, n, Clear).docid = ReadRecord(file, n, Clear).docid

\* A document that is written is read back with its docid, set or not.
LEMMA DocidWritten ==
  ASSUME NEW R, NEW file \in Seq(R), NEW doc, DOMAIN doc = Fields,
         NEW new, new = Append(file, SerializeToString(doc))
  PROVE  OneDocidMore(new, file, doc.docid)
<1>1. PICK r : r = SerializeToString(doc)
  OBVIOUS
<1>2. PICK k \in Nat : k = Len(file) /\ DOMAIN file = 1 .. k
  OBVIOUS
<1>3. PICK T : T = R \cup {r}
  OBVIOUS
<1>4. file \in Seq(T) /\ r \in T
  <2>1. R \subseteq T
    BY <1>3
  <2> QED  BY <1>3, <2>1
<1>5. DOMAIN new = 1 .. k + 1 /\ new[k + 1] = r /\ \A n \in 1 .. k : new[n] = file[n]
  BY <1>1, <1>2, <1>4
<1>6. IF "docid" \in DOMAIN r THEN r["docid"] = doc.docid ELSE doc.docid = 0
  <2>1. Clear["docid"] = 0 /\ "docid" \in Fields
    BY DEF Clear, Fields
  <2>2. DOMAIN r = {g \in Fields : doc[g] # Clear[g]} /\ \A g \in DOMAIN r : r[g] = doc[g]
    BY <1>1 DEF SerializeToString
  <2> QED  BY <2>1, <2>2
<1>7. ASSUME NEW x, NEW n, n \in DOMAIN x
      PROVE  ReadRecord(x, n, Clear).docid
               = IF "docid" \in DOMAIN x[n] THEN x[n]["docid"] ELSE 0
  <2>1. ReadRecord(x, n, Clear) = MergePartialFromCodedStream(Clear, x[n])
    BY <1>7 DEF ReadRecord
  <2>2. Clear["docid"] = 0 /\ "docid" \in Fields
    BY DEF Clear, Fields
  <2>3. MergePartialFromCodedStream(Clear, x[n])["docid"]
          = IF "docid" \in DOMAIN x[n] THEN x[n]["docid"] ELSE 0
    BY <2>2 DEF MergePartialFromCodedStream
  <2> QED  BY <2>1, <2>3
<1>8. ReadRecord(new, k + 1, Clear).docid = doc.docid
  <2>1. PICK m : m = k + 1
    OBVIOUS
  <2>2. m \in DOMAIN new /\ new[m] = r
    BY <1>5, <2>1
  <2>3. ReadRecord(new, m, Clear).docid = IF "docid" \in DOMAIN r THEN r["docid"] ELSE 0
    BY <1>7, <2>2
  <2> QED  BY <1>6, <2>1, <2>3
<1>9. ASSUME NEW n \in 1 .. k
      PROVE  ReadRecord(new, n, Clear).docid = ReadRecord(file, n, Clear).docid
  <2>1. n \in DOMAIN new /\ n \in DOMAIN file /\ new[n] = file[n]
    BY <1>2, <1>5
  <2>2. ReadRecord(new, n, Clear).docid
          = IF "docid" \in DOMAIN new[n] THEN new[n]["docid"] ELSE 0
    BY <1>7, <2>1
  <2>3. ReadRecord(file, n, Clear).docid
          = IF "docid" \in DOMAIN file[n] THEN file[n]["docid"] ELSE 0
    BY <1>7, <2>1
  <2> QED  BY <2>1, <2>2, <2>3, Zenon
<1> QED  BY <1>2, <1>8, <1>9 DEF OneDocidMore

LEMMA DocumentWritten ==
  ASSUME NEW W, NEW out, NEW ls, HasDocuments(out, ls, W),
         NEW line, IsList(line.words), NEW unknown, Admits(line.words, W, unknown),
         NEW e, e = AddLine(out, line, unknown)
  PROVE  HasDocuments(e, AddDocument(ls, line, W), W)
<1>1. PICK f : f = read_from_inp(out.dict, line, unknown)
  OBVIOUS
<1>2. PICK d, c, docid : d = out.dict /\ c = Counting(line, W) /\ docid = line.docid
  OBVIOUS
<1>3. Spells(f, d, c, docid, W)
  BY <1>1, <1>2, LineSpelt DEF HasDocuments
<1>4. PICK R : out.output_w \in Seq(R)
  BY DEF HasDocuments
<1>5. PICK file \in Seq(R) : file = out.output_w
  BY <1>4
<1>6. PICK S : ls \in Seq(S)
  BY DEF HasDocuments
<1>7. PICK k \in Nat : k = Len(file) /\ k = Len(ls)
  BY <1>5, <1>6 DEF HasDocuments
<1>8. /\ WellMade(f.dict) /\ Keeps(d, f.dict) /\ DOMAIN f.dict.word_ind_map \subseteq W
      /\ DOMAIN f.wdoc = Fields /\ f.wdoc.docid = docid
      /\ c \in Seq(W) /\ Written(f.wdoc.body, c, f.dict)
  BY <1>3 DEF Spells
<1>9. ASSUME NEW n \in 1 .. k PROVE HasDocument(file, n, ls[n], f.dict, W)
  <2>1. HasDocument(file, n, ls[n], d, W)
    BY <1>2, <1>5, <1>7 DEF HasDocuments
  <2> QED  BY <1>8, <2>1, StillWritten DEF HasDocument
<1>10. c = <<>> <=> f.wdoc.body = <<>>
  <2>1. PICK b \in Seq(Nat) : b = f.wdoc.body /\ Len(c) = Len(b)
    BY <1>8 DEF Written
  <2> QED  BY <1>8, <2>1
<1>11. CASE ~line.newline
  <2>1. e = out /\ AddDocument(ls, line, W) = ls
    <3>1. e = out
      BY <1>11, Zenon DEF AddLine
    <3> QED  BY <1>11, <3>1 DEF AddDocument
  <2> QED  BY <2>1
<1>12. CASE line.newline /\ c = <<>>
  <2>1. e.dict = f.dict /\ e.output_w = file
    BY <1>1, <1>5, <1>10, <1>12, Zenon DEF AddLine
  <2>2. AddDocument(ls, line, W) = ls
    BY <1>2, <1>12 DEF AddDocument
  <2> QED  BY <1>5, <1>6, <1>7, <1>8, <1>9, <2>1, <2>2 DEF HasDocuments
<1>13. CASE line.newline /\ c # <<>>
  <2>1. PICK new : new = Append(file, SerializeToString(f.wdoc))
    OBVIOUS
  <2>2. e.dict = f.dict /\ e.output_w = new
    BY <1>1, <1>5, <1>10, <1>13, <2>1, Zenon DEF AddLine
  <2>3. PICK doc : doc = f.wdoc
    OBVIOUS
  <2>4. DOMAIN doc = Fields /\ doc.body \in Seq(Nat) /\ doc.body # <<>>
          /\ new = Append(file, SerializeToString(doc))
    BY <1>8, <1>10, <1>13, <2>1, <2>3 DEF Written
  <2>5. Longer(new, file, doc.body)
    BY <2>4, BodyWritten
  <2>6. /\ ReadRecord(new, k + 1, Clear).docid = doc.docid
        /\ \A n \in 1 .. k :
             ReadRecord(new, n, Clear).docid = ReadRecord(file, n, Clear).docid
    <3>1. OneDocidMore(new, file, doc.docid)
      BY <2>4, DocidWritten
    <3> QED  BY <1>7, <3>1 DEF OneDocidMore
  <2>7. /\ \E T : new \in Seq(T)
        /\ Len(new) = k + 1
        /\ BodyOf(new, k + 1) = doc.body
        /\ \A n \in 1 .. k : BodyOf(new, n) = BodyOf(file, n)
    BY <1>7, <2>5 DEF Longer
  <2>8. PICK longer : longer = AddDocument(ls, line, W)
    OBVIOUS
  <2>9. longer = Append(ls, line)
    BY <1>2, <1>13, <2>8 DEF AddDocument
  <2>10. PICK T : T = S \cup {line}
    OBVIOUS
  <2>11. ls \in Seq(T) /\ line \in T
    <3>1. S \subseteq T
      BY <2>10
    <3> QED  BY <1>6, <2>10, <3>1
  <2>12. /\ longer \in Seq(T) /\ Len(longer) = k + 1 /\ longer[k + 1] = line
         /\ \A n \in 1 .. k : longer[n] = ls[n]
    BY <1>7, <2>9, <2>11
  <2>13. ASSUME NEW n \in 1 .. k + 1 PROVE HasDocument(new, n, longer[n], f.dict, W)
    <3>1. CASE n = k + 1
      <4>1. c \in Seq(W) /\ Written(doc.body, c, f.dict) /\ doc.docid = docid
        BY <1>8, <2>3
      <4>2. BodyOf(new, n) = doc.body /\ ReadRecord(new, n, Clear).docid = doc.docid
        BY <2>6, <2>7, <3>1
      <4>3. longer[n] = line
        BY <2>12, <3>1
      <4> QED  BY <1>2, <4>1, <4>2, <4>3 DEF HasDocument
    <3>2. CASE n # k + 1
      <4>1. n \in 1 .. k
        BY <3>2
      <4>2. /\ BodyOf(new, n) = BodyOf(file, n)
            /\ ReadRecord(new, n, Clear).docid = ReadRecord(file, n, Clear).docid
        BY <2>6, <2>7, <4>1
      <4>3. longer[n] = ls[n] /\ HasDocument(file, n, ls[n], f.dict, W)
        BY <1>9, <2>12, <4>1
      <4> QED  BY <4>2, <4>3 DEF HasDocument
    <3> QED  BY <3>1, <3>2
  <2>14. HasDocuments(e, longer, W)
    BY <1>8, <2>2, <2>7, <2>12, <2>13 DEF HasDocuments
  <2> QED  BY <2>8, <2>14
<1> QED  BY <1>11, <1>12, <1>13

(***************************************************************************)
(* The formatter, with words it does not know: every line with a word that *)
(* counts, and no other, has become a document, which has the line's docid *)
(* and names the words that count in it by their indexes.                  *)
(***************************************************************************)
THEOREM FormatSpells ==
  ASSUME NEW lines, IsLines(lines), NEW W, NEW unknown,
         \A n \in DOMAIN lines : Admits(lines[n].words, W, unknown)
  PROVE  HasDocuments(format(lines, unknown), DocumentLines(lines, W), W)
<1>1. PICK k \in Nat : DOMAIN lines = 1 .. k
  BY DEF IsLines, IsList
<1>2. format(lines, unknown) = AllLines(lines, unknown)
  BY Zenon DEF format, AllLines, NoLines
<1>3. PICK g : LineRun(lines, unknown, k, g)
  BY <1>1, LineFold
<1>4. PICK h : DocumentRun(lines, W, k, h)
  BY <1>1, DocumentsUnfold
<1> DEFINE Good == {n \in Nat : n <= k => HasDocuments(g[1 .. n], h[1 .. n], W)}
<1>5. 0 \in Good
  <2>1. g[1 .. 0] = NoLines /\ h[1 .. 0] = <<>>
    BY <1>3, <1>4 DEF LineRun, DocumentRun
  <2>2. NoLines.dict = Empty /\ NoLines.output_w = <<>>
    BY DEF NoLines
  <2>3. HasDocuments(NoLines, <<>>, W)
    BY <2>2, MadeEmpty DEF HasDocuments
  <2> QED  BY <2>1, <2>3
<1>6. ASSUME NEW n \in Nat, n \in Good PROVE n + 1 \in Good
  <2> SUFFICES ASSUME n + 1 <= k PROVE HasDocuments(g[1 .. n + 1], h[1 .. n + 1], W)
    OBVIOUS
  <2>1. PICK out, ls, line : out = g[1 .. n] /\ ls = h[1 .. n] /\ line = lines[n + 1]
    OBVIOUS
  <2>2. HasDocuments(out, ls, W)
    BY <1>6, <2>1
  <2>3. IsList(line.words) /\ Admits(line.words, W, unknown)
    BY <1>1, <2>1 DEF IsLines
  <2>4. PICK e : e = AddLine(out, line, unknown)
    OBVIOUS
  <2>5. HasDocuments(e, AddDocument(ls, line, W), W)
    BY <2>2, <2>3, <2>4, DocumentWritten
  <2>6. n \in 0 .. k - 1
    OBVIOUS
  <2>7. g[1 .. n + 1] = e
    BY <1>3, <2>1, <2>4, <2>6 DEF LineRun
  <2>8. h[1 .. n + 1] = AddDocument(ls, line, W)
    BY <1>4, <2>1, <2>6 DEF DocumentRun
  <2> QED  BY <2>5, <2>7, <2>8
<1> HIDE DEF Good
<1>7. k \in Good
  BY <1>5, <1>6, NatSetInduction
<1>8. HasDocuments(g[1 .. k], h[1 .. k], W)
  BY <1>7 DEF Good
<1>9. AllLines(lines, unknown) = g[1 .. k]
  BY <1>3 DEF LineRun
<1>10. DocumentLines(lines, W) = h[1 .. k]
  BY <1>4 DEF DocumentRun
<1> QED  BY <1>2, <1>8, <1>9, <1>10

-----------------------------------------------------------------------------
(***************************************************************************)
(* How many words fit.  The memory that the first words take grows with    *)
(* their number, so that those that fit are the first ones: together they  *)
(* fit, and with the next one they do not.                                 *)
(***************************************************************************)
LEMMA FirstOnes ==
  ASSUME NEW n \in Nat, NEW S, S \subseteq 1 .. n,
         \A i \in 1 .. n : i + 1 \in S => i \in S
  PROVE  \E k \in 0 .. n : S = 1 .. k /\ Cardinality(S) = k
<1> DEFINE Good == {m \in Nat : m <= n => \E k \in 0 .. m : S \cap (1 .. m) = 1 .. k}
<1>1. 0 \in Good
  <2>1. S \cap (1 .. 0) = 1 .. 0
    OBVIOUS
  <2> QED  BY <2>1
<1>2. ASSUME NEW m \in Nat, m \in Good PROVE m + 1 \in Good
  <2> SUFFICES ASSUME m + 1 <= n PROVE \E k \in 0 .. m + 1 : S \cap (1 .. m + 1) = 1 .. k
    OBVIOUS
  <2>1. PICK k \in 0 .. m : S \cap (1 .. m) = 1 .. k
    BY <1>2
  <2>2. CASE m + 1 \notin S
    <3>1. S \cap (1 .. m + 1) = S \cap (1 .. m)
      BY <2>2
    <3> QED  BY <2>1, <3>1
  <2>3. CASE m + 1 \in S
    <3>1. k = m
      <4>1. CASE m = 0
        BY <4>1
      <4>2. CASE m # 0
        <5>1. m \in S \cap (1 .. m)
          BY <2>3, <4>2
        <5> QED  BY <2>1, <5>1
      <4> QED  BY <4>1, <4>2
    <3>2. S \cap (1 .. m + 1) = 1 .. m + 1
      <4>1. \A i \in 1 .. m + 1 : i \in 1 .. m \/ i = m + 1
        OBVIOUS
      <4> QED  BY <2>1, <2>3, <3>1, <4>1
    <3> QED  BY <3>2
  <2> QED  BY <2>2, <2>3
<1> HIDE DEF Good
<1>3. n \in Good
  BY <1>1, <1>2, NatSetInduction
<1>4. PICK k \in 0 .. n : S \cap (1 .. n) = 1 .. k
  BY <1>3 DEF Good
<1>5. S = 1 .. k
  BY <1>4
<1>6. Cardinality(1 .. k) = k
  BY FS_Interval
<1> QED  BY <1>5, <1>6

\* A sum over indexes from 0 is one over places from 1.
LEMMA SumFromZero ==
  ASSUME NEW n \in Nat, NEW f, NEW g,
         \A i \in 1 .. n : f[i] \in Int /\ g[i - 1] = f[i]
  PROVE  SumFunctionOnSet(g, 0 .. n - 1) = SumFunctionOnSet(f, 1 .. n)
<1> DEFINE Good == {m \in Nat : m <= n =>
                      SumFunctionOnSet(g, 0 .. m - 1) = SumFunctionOnSet(f, 1 .. m)}
<1>1. 0 \in Good
  <2>0. PICK S, T : S = 0 .. 0 - 1 /\ T = 1 .. 0
    OBVIOUS
  <2>1. S = 0 .. 0 - 1 /\ T = 1 .. 0 /\ S = {} /\ T = {}
    BY <2>0
  <2>2. SumFunctionOnSet(g, S) = 0 /\ SumFunctionOnSet(f, T) = 0
    BY <2>1, SumEmpty
  <2> QED  BY <2>1, <2>2
<1>2. ASSUME NEW m \in Nat, m \in Good PROVE m + 1 \in Good
  <2> SUFFICES ASSUME m + 1 <= n
               PROVE  SumFunctionOnSet(g, 0 .. (m + 1) - 1) = SumFunctionOnSet(f, 1 .. m + 1)
    OBVIOUS
  <2>1. PICK S : S = 1 .. m
    OBVIOUS
  <2>2. SumFunctionOnSet(f, S \cup {m + 1}) = f[m + 1] + SumFunctionOnSet(f, S)
    <3>1. IsFiniteSet(1 .. m)
      BY FS_Interval
    <3>2. IsFiniteSet(S) /\ m + 1 \notin S /\ \A i \in S \cup {m + 1} : f[i] \in Int
      BY <2>1, <3>1
    <3> QED  BY <3>2, SumAdd
  <2>3. PICK T : T = 0 .. m - 1
    OBVIOUS
  <2>4. \A i \in 0 .. m : i + 1 \in 1 .. n /\ (i + 1) - 1 = i /\ g[i] \in Int /\ g[i] = f[i + 1]
    <3> SUFFICES ASSUME NEW i \in 0 .. m
                 PROVE  i + 1 \in 1 .. n /\ (i + 1) - 1 = i /\ g[i] \in Int /\ g[i] = f[i + 1]
      OBVIOUS
    <3>1. PICK j \in 1 .. n : j = i + 1 /\ j - 1 = i
      OBVIOUS
    <3>2. f[j] \in Int /\ g[j - 1] = f[j]
      OBVIOUS
    <3> QED  BY <3>1, <3>2
  <2>5. SumFunctionOnSet(g, T \cup {m}) = g[m] + SumFunctionOnSet(g, T)
    <3>1. IsFiniteSet(0 .. m - 1)
      <4>1. 0 \in Int /\ m - 1 \in Int
        OBVIOUS
      <4> QED  BY <4>1, FS_Interval
    <3>2. IsFiniteSet(T) /\ m \notin T /\ \A i \in T \cup {m} : g[i] \in Int
      BY <2>3, <2>4, <3>1
    <3> QED  BY <3>2, SumAdd
  <2>6. g[m] = f[m + 1]
    BY <2>4
  <2>7. SumFunctionOnSet(g, T) = SumFunctionOnSet(f, S)
    BY <1>2, <2>1, <2>3
  <2>8. S \cup {m + 1} = 1 .. m + 1 /\ T \cup {m} = 0 .. (m + 1) - 1
    BY <2>1, <2>3
  <2> QED  BY <2>2, <2>5, <2>6, <2>7, <2>8
<1> HIDE DEF Good
<1>3. n \in Good
  BY <1>1, <1>2, NatSetInduction
<1> QED  BY <1>3 DEF Good

LEMMA LengthIsNat ==
  ASSUME ModelFilesAssumption, NEW c
  PROVE  Length(c) \in Nat
<1>1. IsFiniteSet(Topics)
  <2>1. IsFiniteSet(1 .. num_topics)
    BY FS_Interval DEF ModelFilesAssumption
  <2> QED  BY <2>1 DEF Topics
<1>2. IsFiniteSet({t \in Topics : c[t] > 0})
  BY <1>1, FS_Subset
<1> QED  BY <1>2, FS_CardinalityType DEF Length

\* The memory that the first words take, one word more and beside those before.
LEMMA SumOneMore ==
  ASSUME NEW i \in Nat, NEW f, \A j \in 1 .. i + 1 : f[j] \in Nat
  PROVE  /\ SumFunctionOnSet(f, 1 .. i) \in Nat
         /\ SumFunctionOnSet(f, 1 .. i + 1) = SumFunctionOnSet(f, 1 .. i) + f[i + 1]
<1>1. PICK S : S = 1 .. i
  OBVIOUS
<1>2. IsFiniteSet(S) /\ i + 1 \notin S /\ \A j \in S \cup {i + 1} : f[j] \in Nat
  <2>1. IsFiniteSet(1 .. i)
    BY FS_Interval
  <2> QED  BY <1>1, <2>1
<1>3. SumFunctionOnSet(f, S \cup {i + 1}) = f[i + 1] + SumFunctionOnSet(f, S)
  BY <1>2, SumAdd
<1>4. SumFunctionOnSet(f, S) \in Nat
  BY <1>2, SumNat
<1>5. S \cup {i + 1} = 1 .. i + 1
  BY <1>1
<1>6. f[i + 1] \in Nat
  BY <1>2
<1>7. PICK a, b \in Nat : a = SumFunctionOnSet(f, S) /\ b = f[i + 1]
  BY <1>4, <1>6
<1>8. SumFunctionOnSet(f, 1 .. i + 1) = b + a
  BY <1>3, <1>5, <1>7
<1> QED  BY <1>1, <1>7, <1>8

LEMMA SumBeside ==
  ASSUME NEW o \in Nat, NEW n \in Nat, NEW f, NEW g,
         \A i \in 1 .. o + n : f[i] \in Nat, \A i \in 1 .. n : g[i] = f[o + i]
  PROVE  SumFunctionOnSet(f, 1 .. o + n)
           = SumFunctionOnSet(f, 1 .. o) + SumFunctionOnSet(g, 1 .. n)
<1> DEFINE U(i) == SumFunctionOnSet(f, 1 .. i)
           V(i) == SumFunctionOnSet(g, 1 .. i)
           Good == {m \in Nat : m <= n => U(o + m) = U(o) + V(m)}
<1>1. U(o) \in Nat
  <2>1. \A j \in 1 .. o : f[j] \in Nat
    OBVIOUS
  <2>2. IsFiniteSet(1 .. o)
    BY FS_Interval
  <2> QED  BY <2>1, <2>2, SumNat
<1>2. V(0) = 0
  <2>1. PICK T : T = 1 .. 0
    OBVIOUS
  <2>2. SumFunctionOnSet(g, T) = 0
    <3>1. T = {}
      BY <2>1
    <3> QED  BY <3>1, SumEmpty
  <2> QED  BY <2>1, <2>2
<1>3. 0 \in Good
  BY <1>1, <1>2
<1>4. ASSUME NEW m \in Nat, m \in Good PROVE m + 1 \in Good
  <2> SUFFICES ASSUME m + 1 <= n PROVE U(o + (m + 1)) = U(o) + V(m + 1)
    OBVIOUS
  <2>1. PICK q \in Nat : q = o + m /\ q + 1 = o + (m + 1)
    OBVIOUS
  <2>2. U(q) \in Nat /\ U(q + 1) = U(q) + f[q + 1]
    BY <2>1, SumOneMore
  <2>3. \A j \in 1 .. m + 1 : g[j] \in Nat
    <3> SUFFICES ASSUME NEW j \in 1 .. m + 1 PROVE g[j] \in Nat
      OBVIOUS
    <3>1. PICK i \in 1 .. o + n : i = o + j
      OBVIOUS
    <3>2. g[j] = f[i] /\ f[i] \in Nat
      BY <3>1
    <3> QED  BY <3>2
  <2>4. V(m) \in Nat /\ V(m + 1) = V(m) + g[m + 1]
    BY <2>3, SumOneMore
  <2>5. g[m + 1] = f[q + 1] /\ f[q + 1] \in Nat
    <3>1. m + 1 \in 1 .. n /\ q + 1 \in 1 .. o + n
      BY <2>1
    <3> QED  BY <2>1, <3>1
  <2>6. U(q) = U(o) + V(m)
    BY <1>4, <2>1
  <2> HIDE DEF U, V
  <2>7. PICK a, b, c \in Nat : a = U(o) /\ b = V(m) /\ c = f[q + 1]
    BY <1>1, <2>4, <2>5
  <2> QED  BY <2>1, <2>2, <2>4, <2>5, <2>6, <2>7
<1> HIDE DEF Good
<1>5. n \in Good
  BY <1>3, <1>4, NatSetInduction
<1> QED  BY <1>5 DEF Good

\* The words that fit beside what is used, k of them, fit together; no more do.
Fits(lengths, used, k) ==
  /\ Fit(lengths, used) = k
  /\ k > 0 => used + Used(lengths, k) < MaxMemory
  /\ k + 1 \in DOMAIN lengths => used + Used(lengths, k + 1) >= MaxMemory

LEMMA FittingWords ==
  ASSUME ModelFilesAssumption, NEW n \in Nat, NEW used \in Nat,
         NEW lengths, DOMAIN lengths = 1 .. n, \A i \in 1 .. n : lengths[i] \in Nat
  PROVE  \E k \in 0 .. n : Fits(lengths, used, k)
<1>1. MaxMemory \in Nat
  BY DEF ModelFilesAssumption
<1>2. ASSUME NEW i \in 1 .. n
      PROVE  Used(lengths, i) \in Nat
  <2>1. IsFiniteSet(1 .. i) /\ \A j \in 1 .. i : lengths[j] \in Nat
    BY FS_Interval
  <2> QED  BY <2>1, SumNat DEF Used
<1>3. ASSUME NEW i \in 1 .. n, i + 1 \in 1 .. n
      PROVE  Used(lengths, i) <= Used(lengths, i + 1)
  <2>1. Used(lengths, i) \in Nat /\ Used(lengths, i + 1) = Used(lengths, i) + lengths[i + 1]
    <3>1. i \in Nat /\ \A j \in 1 .. i + 1 : lengths[j] \in Nat
      BY <1>3
    <3> QED  BY <3>1, SumOneMore DEF Used
  <2>2. PICK a, b \in Nat : a = Used(lengths, i) /\ b = lengths[i + 1]
    BY <1>3, <2>1
  <2> QED  BY <2>1, <2>2
<1>4. PICK S : S = {i \in DOMAIN lengths : used + Used(lengths, i) < MaxMemory}
  OBVIOUS
<1>5. \A i \in 1 .. n : i + 1 \in S => i \in S
  <2> SUFFICES ASSUME NEW i \in 1 .. n, i + 1 \in S PROVE i \in S
    OBVIOUS
  <2>1. i + 1 \in 1 .. n /\ used + Used(lengths, i + 1) < MaxMemory
    BY <1>4
  <2>2. PICK a, b \in Nat : a = Used(lengths, i) /\ b = Used(lengths, i + 1) /\ a <= b
    BY <1>2, <1>3, <2>1
  <2>3. used + a < MaxMemory
    BY <1>1, <2>1, <2>2
  <2> QED  BY <1>4, <2>2, <2>3
<1>6. S \subseteq 1 .. n
  BY <1>4
<1>7. PICK k \in 0 .. n : S = 1 .. k /\ Cardinality(S) = k
  BY <1>5, <1>6, FirstOnes
<1>8. Fit(lengths, used) = k
  BY <1>4, <1>7 DEF Fit
<1>9. k > 0 => used + Used(lengths, k) < MaxMemory
  <2>1. k > 0 => k \in S
    BY <1>7
  <2> QED  BY <1>4, <2>1
<1>10. ASSUME k + 1 \in DOMAIN lengths PROVE used + Used(lengths, k + 1) >= MaxMemory
  <2>1. k + 1 \notin S /\ k + 1 \in 1 .. n
    BY <1>7, <1>10
  <2>2. ~(used + Used(lengths, k + 1) < MaxMemory)
    BY <1>4, <2>1
  <2>3. PICK a \in Nat : a = Used(lengths, k + 1)
    BY <1>2, <2>1
  <2> QED  BY <1>1, <2>2, <2>3
<1> QED  BY <1>8, <1>9, <1>10 DEF Fits

-----------------------------------------------------------------------------
(***************************************************************************)
(* What is dumped: the header of a dump, a record for every word and the   *)
(* one of the totals; and the cut of the dictionary into parts, which      *)
(* leaves no word out.                                                     *)
(***************************************************************************)
Joined(s, u, v, T) ==
  /\ s \in Seq(T) /\ Len(s) = Len(u) + Len(v)
  /\ \A i \in 1 .. Len(u) : s[i] = u[i]
  /\ \A i \in 1 .. Len(v) : s[Len(u) + i] = v[i]

LEMMA JoinedAs ==
  ASSUME NEW T, NEW u \in Seq(T), NEW v \in Seq(T)
  PROVE  Joined(u \o v, u, v, T)
<1>1. u \o v \in Seq(T)
  OBVIOUS
<1>2. Len(u \o v) = Len(u) + Len(v)
  OBVIOUS
<1>3. \A i \in 1 .. Len(u) + Len(v) : (u \o v)[i] = IF i <= Len(u) THEN u[i] ELSE v[i - Len(u)]
  OBVIOUS
<1> QED  BY <1>1, <1>2, <1>3 DEF Joined

DumpOf(records, table, num) ==
  /\ Len(records) = num + 2 /\ Head(records).num_words = num
  /\ \A k \in 0 .. num - 1 : records[k + 2].cnt_topics = table[k]

LEMMA TableDumped ==
  ASSUME NEW num \in Nat, NEW table, DOMAIN table = 0 .. num - 1
  PROVE  DumpOf(Dumped(table), table, num)
<1>1. Cardinality(DOMAIN table) = num
  <2>1. 0 \in Int /\ num - 1 \in Int
    OBVIOUS
  <2>2. Cardinality(0 .. num - 1) = IF 0 > num - 1 THEN 0 ELSE (num - 1) - 0 + 1
    BY <2>1, FS_Interval
  <2> QED  BY <2>2
<1>2. PICK h, t, b : h = Header(num) /\ t = [topic_counts |-> Total(table)]
        /\ b = [n \in 1 .. num |-> [cnt_topics |-> table[n - 1]]]
  OBVIOUS
<1>3. Dumped(table) = <<h>> \o b \o <<t>>
  <2>1. Dumped(table) = <<Header(Cardinality(DOMAIN table))>>
          \o [n \in 1 .. Cardinality(DOMAIN table) |-> [cnt_topics |-> table[n - 1]]]
          \o <<[topic_counts |-> Total(table)]>>
    BY Zenon DEF Dumped
  <2> QED  BY <1>1, <1>2, <2>1
<1>4. PICK T : T = {h, t} \cup {b[n] : n \in 1 .. num}
  OBVIOUS
<1>5. h \in T /\ t \in T /\ b \in Seq(T) /\ Len(b) = num
  <2>1. b \in [1 .. num -> T]
    BY <1>2, <1>4
  <2> QED  BY <1>4, <2>1
<1>6. PICK s : s = <<h>> \o b
  OBVIOUS
<1>7. s \in Seq(T) /\ Len(s) = num + 1 /\ s[1] = h /\ \A n \in 1 .. num : s[n + 1] = b[n]
  <2>1. PICK u : u = <<h>>
    OBVIOUS
  <2>2. u \in Seq(T) /\ Len(u) = 1 /\ u[1] = h
    BY <1>5, <2>1
  <2>3. Joined(s, u, b, T)
    BY <1>5, <1>6, <2>1, <2>2, JoinedAs
  <2>4. \A n \in 1 .. num : s[1 + n] = b[n]
    BY <1>5, <2>2, <2>3 DEF Joined
  <2> QED  BY <1>5, <2>2, <2>3, <2>4 DEF Joined
<1>8. PICK r : r = s \o <<t>>
  OBVIOUS
<1>9. r \in Seq(T) /\ Len(r) = num + 2 /\ \A n \in 1 .. num + 1 : r[n] = s[n]
  <2>1. PICK u : u = <<t>>
    OBVIOUS
  <2>2. u \in Seq(T) /\ Len(u) = 1
    BY <1>5, <2>1
  <2>3. Joined(r, s, u, T)
    BY <1>7, <1>8, <2>1, <2>2, JoinedAs
  <2> QED  BY <1>7, <2>2, <2>3 DEF Joined
<1>10. Head(r).num_words = num
  <2>1. Head(r) = h
    BY <1>7, <1>9
  <2> QED  BY <1>2, <2>1 DEF Header
<1>11. ASSUME NEW k \in 0 .. num - 1 PROVE r[k + 2].cnt_topics = table[k]
  <2>1. PICK n \in 1 .. num : n = k + 1 /\ n - 1 = k /\ n + 1 = k + 2
    OBVIOUS
  <2>2. r[n + 1] = b[n]
    BY <1>7, <1>9, <2>1
  <2>3. b[n].cnt_topics = table[k]
    BY <1>2, <2>1
  <2> QED  BY <2>1, <2>2, <2>3
<1>12. Dumped(table) = r
  BY <1>3, <1>6, <1>8
<1> QED  BY <1>10, <1>11, <1>9, <1>12 DEF DumpOf

\* All words, cut into n equal parts of q and what remains.
CutAs(words, n, q) == q \in Nat /\ n * q <= words

LEMMA WordsCut ==
  ASSUME NEW words \in Nat, NEW n \in Nat \ {0}
  PROVE  CutAs(words, n, words \div n)
BY DEF CutAs

LEMMA PartCut ==
  ASSUME NEW words \in Nat, NEW n \in Nat \ {0}, NEW q, CutAs(words, n, q),
         NEW part \in 1 .. n
  PROVE  (part - 1) * q \in Nat /\ (part - 1) * q + q = part * q /\ part * q <= words
<1>1. q \in Nat /\ n * q <= words
  BY DEF CutAs
<1>2. PICK i, j \in Nat : i = part - 1 /\ j = n - part
  OBVIOUS
<1>3. i * q \in Nat /\ j * q \in Nat
  BY <1>1
<1>4. part = i + 1 /\ n = part + j
  BY <1>2
<1>5. part * q = i * q + q
  <2>1. (i + 1) * q = i * q + q
    BY <1>1
  <2> QED  BY <1>4, <2>1
<1>6. n * q = part * q + j * q
  <2>1. (part + j) * q = part * q + j * q
    BY <1>1
  <2> QED  BY <1>4, <2>1
<1>7. part * q <= words
  <2>1. PICK a, b, c \in Nat : a = part * q /\ b = j * q /\ c = n * q
    BY <1>1, <1>3
  <2>2. c = a + b /\ c <= words
    BY <1>1, <1>6, <2>1
  <2>3. a <= words
    BY <2>1, <2>2
  <2> QED  BY <2>1, <2>3
<1> QED  BY <1>2, <1>3, <1>5, <1>7

\* The words that are in the first parts.
Upto(n) == IF n < numdumps THEN n * num_words_per_client ELSE num_words(global_dict)

LEMMA SomeMachines ==
  ASSUME IsCorpus(corpus)
  PROVE  numdumps \in Nat \ {0} /\ Machines = 1 .. numdumps
<1>1. PICK k \in Nat : k > 0 /\ DOMAIN corpus = 1 .. k
  BY DEF IsCorpus, IsLines, IsList
<1>2. Cardinality(1 .. k) = k
  BY FS_Interval
<1> QED  BY <1>1, <1>2 DEF numdumps, Machines

LEMMA PartsAdjoin ==
  ASSUME IsCorpus(corpus), num_words(global_dict) \in Nat, NEW part \in Machines
  PROVE  /\ Offset(part) \in Nat /\ End(part) - Offset(part) \in Nat
         /\ End(part) <= num_words(global_dict)
         /\ Upto(part - 1) = Offset(part) /\ Upto(part) = End(part)
         /\ Offset(part) + (End(part) - Offset(part)) = End(part)
         /\ Upto(0) = 0
<1>1. PICK n \in Nat \ {0} : n = numdumps /\ part \in 1 .. n
  BY SomeMachines
<1>2. PICK words \in Nat : words = num_words(global_dict)
  OBVIOUS
<1>3. PICK q : q = num_words_per_client /\ CutAs(words, n, q)
  <2>1. num_words_per_client = words \div n
    BY <1>1, <1>2 DEF num_words_per_client
  <2> QED  BY <2>1, WordsCut
<1>4. q \in Nat
  BY <1>3 DEF CutAs
<1>5. PICK a, b \in Nat : a = (part - 1) * q /\ b = part * q /\ b = a + q /\ b <= words
  <2>1. (part - 1) * q \in Nat /\ (part - 1) * q + q = part * q /\ part * q <= words
    BY <1>1, <1>3, PartCut
  <2>2. part * q \in Nat
    BY <1>1, <1>4
  <2> QED  BY <2>1, <2>2
<1>6. Offset(part) = a
  BY <1>3, <1>5 DEF Offset
<1>7. End(part) = IF part < n THEN b ELSE words
  <2>1. End(part) = IF part < n THEN a + q ELSE words
    BY <1>1, <1>2, <1>3, <1>6 DEF End
  <2> QED  BY <1>5, <2>1
<1>8. Upto(part) = IF part < n THEN b ELSE words
  BY <1>1, <1>2, <1>3, <1>5 DEF Upto
<1>9. Upto(part - 1) = a
  <2>1. part - 1 < n
    BY <1>1
  <2> QED  BY <1>1, <1>3, <1>5, <2>1 DEF Upto
<1>10. Upto(0) = 0
  <2>1. Upto(0) = 0 * q
    BY <1>1, <1>3 DEF Upto
  <2> QED  BY <1>4, <2>1
<1> QED  BY <1>2, <1>4, <1>5, <1>6, <1>7, <1>8, <1>9, <1>10

-----------------------------------------------------------------------------
(***************************************************************************)
(* How many words fit, dump after dump (init_dict()): always the first     *)
(* ones of the whole dictionary, as the memory used is carried along.      *)
(***************************************************************************)
PartDumped(part) == PartHas(part, Offset(part), End(part) - Offset(part))

WordLengths ==
  [i \in 1 .. num_words(global_dict) |-> Length(counts[global_dict.ind_word_map[i - 1]])]

FirstUsed(n) == SumFunctionOnSet(WordLengths, 1 .. n)

\* The first k words fit, and with the next one they do not.
FirstFit(k) ==
  /\ k > 0 => FirstUsed(k) < MaxMemory
  /\ k < num_words(global_dict) => FirstUsed(k + 1) >= MaxMemory

\* After m dumps.
FitTo(fit, m) ==
  /\ fit.num_words \in 0 .. Upto(m) /\ fit.used_mem = FirstUsed(fit.num_words)
  /\ fit.num_words > 0 => FirstUsed(fit.num_words) < MaxMemory
  /\ IF fit.full
       THEN /\ fit.num_words < num_words(global_dict)
            /\ FirstUsed(fit.num_words + 1) >= MaxMemory
       ELSE fit.num_words = Upto(m)

LEMMA FirstUsedIsNat ==
  ASSUME ModelFilesAssumption, num_words(global_dict) \in Nat,
         NEW n \in 0 .. num_words(global_dict)
  PROVE  /\ \A i \in 1 .. num_words(global_dict) : WordLengths[i] \in Nat
         /\ FirstUsed(n) \in Nat
<1>1. \A i \in 1 .. num_words(global_dict) : WordLengths[i] \in Nat
  BY LengthIsNat DEF WordLengths
<1>2. IsFiniteSet(1 .. n) /\ \A j \in 1 .. n : WordLengths[j] \in Nat
  BY <1>1, FS_Interval
<1> QED  BY <1>1, <1>2, SumNat DEF FirstUsed

\* What the words of a part take is what they take in the whole dictionary.
PartOf(part, from, num) ==
  /\ DOMAIN PartLengths(part) = 1 .. num
  /\ \A i \in 1 .. num :
       PartLengths(part)[i] \in Nat /\ PartLengths(part)[i] = WordLengths[from + i]

LEMMA PartMeasured ==
  ASSUME ModelFilesAssumption, num_words(global_dict) \in Nat,
         NEW part, NEW from, NEW num, PartHas(part, from, num)
  PROVE  PartOf(part, from, num)
<1>1. /\ from \in Nat /\ num \in Nat /\ from + num <= num_words(global_dict)
      /\ incoming_words(part) = num
      /\ \A k \in 0 .. num - 1 :
           dump[part][k + 2].cnt_topics = counts[global_dict.ind_word_map[k + from]]
  BY DEF PartHas
<1>2. PartLengths(part) = [i \in 1 .. num |-> RecordLength(part, i - 1)]
  BY <1>1 DEF PartLengths
<1>3. ASSUME NEW i \in 1 .. num
      PROVE  PartLengths(part)[i] \in Nat /\ PartLengths(part)[i] = WordLengths[from + i]
  <2>1. PICK k \in 0 .. num - 1 : k = i - 1
    BY <1>1
  <2>2. PICK c : c = counts[global_dict.ind_word_map[k + from]]
    OBVIOUS
  <2>3. RecordLength(part, k) = Length(c)
    BY <1>1, <2>2 DEF RecordLength
  <2>4. PICK j \in 1 .. num_words(global_dict) : j = from + i /\ j - 1 = k + from
    BY <1>1, <2>1
  <2>5. WordLengths[j] = Length(c)
    BY <2>2, <2>4 DEF WordLengths
  <2>6. Length(c) \in Nat
    BY LengthIsNat
  <2> QED  BY <1>2, <2>1, <2>3, <2>4, <2>5, <2>6
<1> QED  BY <1>2, <1>3 DEF PartOf

\* A dump more, when those before have fitted.
Took(fit, next, part, n) ==
  /\ next.num_words = fit.num_words + n
  /\ next.used_mem = fit.used_mem + Used(PartLengths(part), n)
  /\ next.full <=> n < incoming_words(part)

LEMMA DumpAdded ==
  ASSUME NEW fit, NEW part, ~fit.full, NEW n, n = Fit(PartLengths(part), fit.used_mem)
  PROVE  Took(fit, AddDump(fit, part), part, n)
<1>1. AddDump(fit, part) =
        [num_words |-> fit.num_words + n,
         used_mem |-> fit.used_mem + Used(PartLengths(part), n),
         full |-> n < incoming_words(part)]
  BY Zenon DEF AddDump
<1>2. /\ AddDump(fit, part).num_words = fit.num_words + n
      /\ AddDump(fit, part).used_mem = fit.used_mem + Used(PartLengths(part), n)
  BY <1>1
<1>3. AddDump(fit, part).full = (n < incoming_words(part))
  BY <1>1
<1>4. AddDump(fit, part).full <=> n < incoming_words(part)
  BY <1>3, Zenon
<1> QED  BY <1>2, <1>4, Zenon DEF Took

LEMMA DumpFits ==
  ASSUME ModelFilesAssumption, IsCorpus(corpus), num_words(global_dict) \in Nat,
         NEW part \in Machines, PartDumped(part), NEW fit, FitTo(fit, part - 1)
  PROVE  FitTo(AddDump(fit, part), part)
<1>1. PICK W \in Nat : W = num_words(global_dict)
  OBVIOUS
<1>2. PICK from, num \in Nat :
        /\ from = Offset(part) /\ num = End(part) - Offset(part) /\ from + num <= W
        /\ Upto(part - 1) = from /\ Upto(part) = from + num
  BY <1>1, PartsAdjoin
<1>3. PartHas(part, from, num) /\ incoming_words(part) = num
  BY <1>2 DEF PartDumped, PartHas
<1>4. PICK k \in Nat : k = fit.num_words /\ k <= from
  BY <1>2 DEF FitTo
<1>5. CASE fit.full
  <2>1. AddDump(fit, part) = fit
    BY <1>5, Zenon DEF AddDump
  <2>2. k \in 0 .. Upto(part)
    BY <1>2, <1>4
  <2> QED  BY <1>4, <1>5, <2>1, <2>2 DEF FitTo
<1>6. CASE ~fit.full
  <2>1. k = from /\ fit.used_mem = FirstUsed(from)
    BY <1>2, <1>4, <1>6 DEF FitTo
  <2>2. PICK used \in Nat : used = FirstUsed(from)
    BY <1>1, <1>2, FirstUsedIsNat
  <2>3. PICK lengths : lengths = PartLengths(part)
    OBVIOUS
  <2>4. /\ DOMAIN lengths = 1 .. num
        /\ \A i \in 1 .. num : lengths[i] \in Nat /\ lengths[i] = WordLengths[from + i]
    BY <1>3, <2>3, PartMeasured DEF PartOf
  <2>5. PICK n \in 0 .. num : Fits(lengths, used, n)
    BY <2>4, FittingWords
  <2>6. ASSUME NEW i \in 0 .. num PROVE FirstUsed(from + i) = used + Used(lengths, i)
    <3>1. \A j \in 1 .. from + i : WordLengths[j] \in Nat
      BY <1>1, <1>2, FirstUsedIsNat
    <3>2. \A j \in 1 .. i : lengths[j] = WordLengths[from + j]
      BY <2>4
    <3>3. SumFunctionOnSet(WordLengths, 1 .. from + i)
            = SumFunctionOnSet(WordLengths, 1 .. from) + SumFunctionOnSet(lengths, 1 .. i)
      BY <3>1, <3>2, SumBeside
    <3> QED  BY <2>2, <3>3 DEF FirstUsed, Used
  <2>7. PICK next : next = AddDump(fit, part)
    OBVIOUS
  <2>8. Took(fit, next, part, n)
    BY <1>6, <2>1, <2>2, <2>3, <2>5, <2>7, DumpAdded DEF Fits
  <2>9. next.num_words = from + n /\ next.used_mem = FirstUsed(from + n)
    BY <1>4, <2>1, <2>2, <2>3, <2>6, <2>8 DEF Took
  <2>10. from + n > 0 => FirstUsed(from + n) < MaxMemory
    <3>1. CASE n > 0
      BY <2>5, <2>6, <3>1 DEF Fits
    <3>2. CASE n = 0
      <4>1. from + n = from
        BY <3>2
      <4> QED  BY <1>4, <2>1, <4>1 DEF FitTo
    <3> QED  BY <3>1, <3>2
  <2>11. ASSUME n < num
         PROVE  from + n < W /\ FirstUsed((from + n) + 1) >= MaxMemory
    <3>1. n + 1 \in 0 .. num /\ n + 1 \in DOMAIN lengths /\ from + (n + 1) = (from + n) + 1
      BY <2>4, <2>11
    <3>2. FirstUsed(from + (n + 1)) >= MaxMemory
      BY <2>5, <2>6, <3>1 DEF Fits
    <3> QED  BY <1>2, <2>11, <3>1, <3>2
  <2>12. next.full <=> n < num
    BY <1>3, <2>8 DEF Took
  <2>13. from + n \in 0 .. Upto(part) /\ (~(n < num) => from + n = Upto(part))
    BY <1>2
  <2>14. IF next.full
           THEN /\ next.num_words < num_words(global_dict)
                /\ FirstUsed(next.num_words + 1) >= MaxMemory
           ELSE next.num_words = Upto(part)
    BY <1>1, <2>9, <2>11, <2>12, <2>13
  <2> QED  BY <2>7, <2>9, <2>10, <2>13, <2>14 DEF FitTo
<1> QED  BY <1>5, <1>6

\* The fold of init_dict() over the dumps.
NoDump == [num_words |-> 0, used_mem |-> 0, full |-> FALSE]

DumpsAdded(s) == FoldLeft(AddDump, NoDump, s)

Measuring(s, g) ==
  g = [t \in SUBSET DOMAIN s |-> IF t = {} THEN NoDump ELSE AddDump(g[t \ {Max(t)}], s[Max(t)])]

MeasuringOf(s) == CHOOSE g : Measuring(s, g)

AddRun(s, n, g) ==
  /\ DumpsAdded(s) = g[1 .. n] /\ g[1 .. 0] = NoDump
  /\ \A i \in 0 .. n - 1 : g[1 .. i + 1] = AddDump(g[1 .. i], s[i + 1])

LEMMA AddFold ==
  ASSUME NEW s, NEW n \in Nat, DOMAIN s = 1 .. n
  PROVE  \E g : AddRun(s, n, g)
<1>1. DumpsAdded(s) = MeasuringOf(s)[DOMAIN s]
  BY Zenon DEF DumpsAdded, FoldLeft, MapThenFoldSet, MeasuringOf, Measuring
<1>2. \A acc, x : OneStep(Fold("fits", {}), acc, x) = AddDump(acc, x)
  BY DEF OneStep, Fold
<1>3. \A g : Folds(Fold("fits", {}), NoDump, s, g) <=> Measuring(s, g)
  BY <1>2 DEF Folds, Measuring, Unfolded
<1>4. Measuring(s, MeasuringOf(s))
  BY <1>3, FoldExists, Zenon DEF MeasuringOf
<1>5. Folds(Fold("fits", {}), NoDump, s, MeasuringOf(s))
  BY <1>3, <1>4
<1>6. PICK g : g = MeasuringOf(s)
  OBVIOUS
<1>7. Runs(Fold("fits", {}), NoDump, s, n, g)
  BY <1>5, <1>6, FoldUnfolds
<1>8. AddRun(s, n, g)
  BY <1>1, <1>2, <1>6, <1>7 DEF Runs, AddRun
<1> QED  BY <1>8

LEMMA DumpsFit ==
  ASSUME ModelFilesAssumption, IsCorpus(corpus), num_words(global_dict) \in Nat,
         \A part \in Machines : PartDumped(part)
  PROVE  FitInDumps \in 0 .. num_words(global_dict) /\ FirstFit(FitInDumps)
<1>1. PICK n \in Nat \ {0} : n = numdumps /\ Machines = 1 .. n
  BY SomeMachines
<1>2. PICK s : s = [part \in Machines |-> part]
  OBVIOUS
<1>3. DOMAIN s = 1 .. n /\ \A i \in 1 .. n : s[i] = i
  BY <1>1, <1>2
<1>4. PICK g : AddRun(s, n, g)
  BY <1>3, AddFold
<1> DEFINE Good == {m \in Nat : m <= n => FitTo(g[1 .. m], m)}
<1>5. 0 \in Good
  <2>1. Upto(0) = 0
    BY <1>1, 1 \in 1 .. n, PartsAdjoin
  <2>2. FirstUsed(0) = 0
    <3>1. PICK T : T = 1 .. 0
      OBVIOUS
    <3>2. SumFunctionOnSet(WordLengths, T) = 0
      <4>1. T = {}
        BY <3>1
      <4> QED  BY <4>1, SumEmpty
    <3> QED  BY <3>1, <3>2 DEF FirstUsed
  <2>3. PICK fit : fit = g[1 .. 0] /\ fit = NoDump
    BY <1>4 DEF AddRun
  <2>4. fit.num_words = 0 /\ fit.used_mem = 0 /\ ~fit.full
    BY <2>3 DEF NoDump
  <2>5. FitTo(fit, 0)
    BY <2>1, <2>2, <2>4 DEF FitTo
  <2> QED  BY <2>3, <2>5
<1>6. ASSUME NEW m \in Nat, m \in Good PROVE m + 1 \in Good
  <2> SUFFICES ASSUME m + 1 <= n PROVE FitTo(g[1 .. m + 1], m + 1)
    OBVIOUS
  <2>1. PICK part \in Machines : part = m + 1 /\ part - 1 = m /\ s[part] = part
    BY <1>1, <1>3
  <2>2. PICK fit : fit = g[1 .. m] /\ FitTo(fit, part - 1)
    BY <1>6, <2>1
  <2>3. g[1 .. m + 1] = AddDump(fit, part)
    <3>1. m \in 0 .. n - 1
      OBVIOUS
    <3> QED  BY <1>4, <2>1, <2>2, <3>1 DEF AddRun
  <2>4. FitTo(AddDump(fit, part), part)
    BY <2>2, DumpFits
  <2> QED  BY <2>1, <2>3, <2>4
<1> HIDE DEF Good
<1>7. n \in Good
  BY <1>5, <1>6, NatSetInduction
<1>8. PICK fit : fit = g[1 .. n] /\ FitTo(fit, n)
  BY <1>7 DEF Good
<1>9. FitInDumps = fit.num_words
  BY <1>2, <1>4, <1>8, Zenon DEF FitInDumps, AddRun, DumpsAdded, NoDump
<1>10. Upto(n) = num_words(global_dict)
  BY <1>1 DEF Upto
<1> QED  BY <1>8, <1>9, <1>10 DEF FitTo, FirstFit

-----------------------------------------------------------------------------
(***************************************************************************)
(* The inductive invariant: a dictionary that has been made, and the       *)
(* documents with it, are what the formatter makes of the machine's lines, *)
(* and all have been made before the learner counts; the last likelihood   *)
(* has counts of every word, and the lists kept since are of them.         *)
(***************************************************************************)
FormattedOnly ==
  /\ IsCorpus(corpus) /\ DOMAIN dict = DOMAIN corpus /\ DOMAIN input_w = DOMAIN corpus
  /\ \A m \in DOMAIN corpus :
       /\ \/ dict[m] = Empty
          \/ /\ dict[m] = format(corpus[m], {}).dict
             /\ input_w[m] = format(corpus[m], {}).output_w
       /\ pc # "format" => dict[m] # Empty

CountsTyped(c) ==
  \A m \in DOMAIN corpus : \A w \in DOMAIN dict[m].word_ind_map :
    c[w] \in [Topics -> Nat]

\* A list may be any of those that come of the pushes after it was cleared.
Ranked(t) == \E list : top_words[t] \in TopWords(list, dict[1], evaluated, t)

Evaluated ==
  /\ \A m \in DOMAIN corpus : dict[m] # Empty
  /\ CountsTyped(evaluated) /\ \A t \in Topics : Ranked(t)

StatisticsAsEvaluated ==
  /\ ~top_words_empty => Evaluated
  /\ pc = "learnt" => CountsTyped(counts)
  /\ pc = "written" => ~top_words_empty

FilesInv == FormattedOnly /\ StatisticsAsEvaluated /\ GlobalDictionaryIsRight

LEMMA Formatted ==
  ASSUME FormattedOnly, pc # "format", NEW m \in DOMAIN corpus
  PROVE  IsFiniteSet(CountedOf(m)) /\ Of(dict[m], FrequencyAt(CountedOf(m)))
<1>1. CountsPlaces(dict[m], CountedOf(m))
  BY FormatCounts DEF FormattedOnly
<1> QED  BY <1>1, FrequencyParts DEF CountsPlaces, Grown, Lists, Of

LEMMA SavedRight ==
  ASSUME FormattedOnly, Save
  PROVE  Lists(global_dict', FrequencyAt(CorpusPlaces)') /\ GlobalDictionaryIsRight'
<1>1. /\ pc = "written" /\ numdumps = 1 /\ corpus' = corpus
      /\ \E file \in Dumps(dict[1]) :
           global_dict' = initialize_from_dump(file, num_words(dict[1]))
  BY DEF Save, formatVars
<1>2. PICK k \in Nat : DOMAIN corpus = 1 .. k
  BY DEF FormattedOnly, IsCorpus, IsLines, IsList
<1>3. k = 1
  <2>1. Cardinality(1 .. k) = k
    BY FS_Interval
  <2> QED  BY <1>1, <1>2, <2>1 DEF numdumps, Machines
<1>4. Of(dict[1], FrequencyAt(CountedOf(1)))
  BY <1>1, <1>2, <1>3, Formatted
<1>5. Lists(global_dict', FrequencyAt(CountedOf(1)))
  BY <1>1, <1>4, LoadedWhole
<1>6. CorpusPlaces = CountedOf(1)
  BY <1>2, <1>3 DEF CorpusPlaces, CountedOf, Machines
<1>7. FrequencyAt(CorpusPlaces)' = FrequencyAt(CorpusPlaces) /\ numdumps' = numdumps
  BY <1>1 DEF FrequencyAt, CorpusPlaces, WordAt, PlacesOf, IsCounted, Machines, numdumps
<1>8. Lists(global_dict', FrequencyAt(CorpusPlaces)')
  BY <1>5, <1>6, <1>7
<1>9. IsDictionaryOf(global_dict', FrequencyAt(CorpusPlaces)')
  BY <1>8 DEF Lists
<1> QED  BY <1>1, <1>7, <1>8, <1>9 DEF GlobalDictionaryIsRight

LEMMA MergedRight ==
  ASSUME FormattedOnly, Merge
  PROVE  Lists(global_dict', FrequencyAt(CorpusPlaces)') /\ GlobalDictionaryIsRight'
<1>1. pc = "written" /\ numdumps > 1 /\ corpus' = corpus
  BY DEF Merge, formatVars
<1>2. PICK merged \in initialize_from_dumps([m \in Machines |-> Dumps(dict[m])]) :
        \E file \in Dumps(merged) :
          global_dict' = initialize_from_dump(file, num_words(merged))
  BY DEF Merge
<1>3. PICK file \in Dumps(merged) :
        global_dict' = initialize_from_dump(file, num_words(merged))
  BY <1>2
<1>4. PICK k \in Nat : DOMAIN corpus = 1 .. k
  BY DEF FormattedOnly, IsCorpus, IsLines, IsList
<1>5. \A m \in 1 .. k : IsFiniteSet(CountedOf(m)) /\ Of(dict[m], FrequencyAt(CountedOf(m)))
  BY <1>1, <1>4, Formatted
<1>6. PICK f : f = [m \in 1 .. k |-> FrequencyAt(CountedOf(m))]
  OBVIOUS
<1>7. DOMAIN f = 1 .. k /\ \A m \in 1 .. k : Of(dict[m], f[m])
  BY <1>5, <1>6
<1>8. merged \in initialize_from_dumps([m \in 1 .. k |-> Dumps(dict[m])])
  BY <1>2, <1>4 DEF Machines
<1>9. IsDictionaryOf(merged, SumOfAll(f)) /\ IsByFrequency(merged)
  BY <1>7, <1>8, DictionariesAddUp
<1>10. FrequencyAt(CorpusPlaces) = SumOfAll(f)
  BY <1>4, <1>5, <1>6, FrequenciesAddUp
<1>11. IsFiniteSet(CorpusPlaces)
  <2>1. CorpusPlaces = CountedTo(k)
    BY <1>4 DEF CorpusPlaces, CountedTo, CountedOf, Machines
  <2> QED  BY <1>5, <2>1, PlacesAddUp
<1>12. Of(merged, FrequencyAt(CorpusPlaces))
  BY <1>9, <1>10, <1>11, FrequencyParts DEF Of
<1>13. /\ Lists(global_dict', FrequencyAt(CorpusPlaces))
       /\ IsByFrequency(global_dict')
  BY <1>3, <1>9, <1>12, LoadedWhole
<1>14. FrequencyAt(CorpusPlaces)' = FrequencyAt(CorpusPlaces)
  BY <1>1 DEF FrequencyAt, CorpusPlaces, WordAt, PlacesOf, IsCounted, Machines
<1>15. Lists(global_dict', FrequencyAt(CorpusPlaces)')
  BY <1>13, <1>14
<1>16. IsDictionaryOf(global_dict', FrequencyAt(CorpusPlaces)')
  BY <1>15 DEF Lists
<1> QED  BY <1>13, <1>15, <1>16 DEF GlobalDictionaryIsRight

\* The steps that leave the dictionary of the dumps alone.
LEMMA StillRight ==
  ASSUME GlobalDictionaryIsRight, corpus' = corpus, global_dict' = global_dict
  PROVE  GlobalDictionaryIsRight'
<1>1. FrequencyAt(CorpusPlaces)' = FrequencyAt(CorpusPlaces) /\ numdumps' = numdumps
  BY DEF FrequencyAt, CorpusPlaces, WordAt, PlacesOf, IsCounted, Machines, numdumps
<1> QED  BY <1>1 DEF GlobalDictionaryIsRight

LEMMA StillFormatted ==
  ASSUME FormattedOnly, corpus' = corpus, dict' = dict, input_w' = input_w,
         pc' # "format" => pc # "format" \/ \A m \in Machines : dict[m] # Empty
  PROVE  FormattedOnly'
BY DEF FormattedOnly, Machines

LEMMA AllDocumented ==
  ASSUME FormattedOnly, \A m \in DOMAIN corpus : dict[m] # Empty
  PROVE  \A m \in Machines : Documented(m)
<1> SUFFICES ASSUME NEW m \in DOMAIN corpus PROVE Documented(m)
  BY DEF Machines
<1>1. PICK out : out = format(corpus[m], {})
  OBVIOUS
<1>2. IsList(corpus[m]) /\ \A n \in DOMAIN corpus[m] : IsList(corpus[m][n].words)
  BY DEF FormattedOnly, IsCorpus, IsLines
<1>3. DocumentsName(out)
  BY <1>1, <1>2, FormatNames
<1>4. out.dict = dict[m] /\ out.output_w = input_w[m]
  BY <1>1 DEF FormattedOnly
<1> QED  BY <1>3, <1>4 DEF DocumentsName, Documented

\* The steps that leave the statistics alone, once they are written or before.
LEMMA StillEvaluated ==
  ASSUME StatisticsAsEvaluated, corpus' = corpus, dict' = dict, UNCHANGED statistics,
         pc' = "learnt" => CountsTyped(counts)',
         pc' = "written" => pc = "written"
  PROVE  StatisticsAsEvaluated'
<1>1. /\ evaluated' = evaluated /\ top_words' = top_words
      /\ top_words_empty' = top_words_empty
  BY DEF statistics
<1>2. CountsTyped(evaluated)' <=> CountsTyped(evaluated)
  BY <1>1 DEF CountsTyped, Topics
<1>3. \A t : Ranked(t)' <=> Ranked(t)
  BY <1>1 DEF Ranked
<1>4. Evaluated' <=> Evaluated
  BY <1>2, <1>3 DEF Evaluated, Topics
<1> QED  BY <1>1, <1>4 DEF StatisticsAsEvaluated

\* No likelihood has been computed while a formatter has still to run.
LEMMA FormatEvaluates ==
  ASSUME StatisticsAsEvaluated, NEW m \in Machines, Format(m)
  PROVE  StatisticsAsEvaluated'
<1>1. /\ pc = "format" /\ pc' = "format" /\ dict[m] = Empty /\ m \in DOMAIN corpus
      /\ UNCHANGED statistics
  BY Zenon DEF Format, trainVars, Machines
<1>2. top_words_empty /\ top_words_empty' = top_words_empty
  BY <1>1 DEF StatisticsAsEvaluated, Evaluated, statistics
<1> QED  BY <1>1, <1>2 DEF StatisticsAsEvaluated

LEMMA CountingsCount ==
  ASSUME ModelFilesAssumption, FormattedOnly, AllFormatted, NEW c \in Countings
  PROVE  CountsTyped(c)
<1>1. \A m \in Machines : Documented(m)
  BY AllDocumented DEF AllFormatted, Machines
<1>2. IsCorpus(corpus)
  BY DEF FormattedOnly
<1> QED  BY <1>1, <1>2, CountingsTyped DEF CountsTyped, Machines

LEMMA EvalEvaluates ==
  ASSUME \A m \in DOMAIN corpus : dict[m] # Empty, corpus' = corpus, dict' = dict,
         NEW table, CountsTyped(table), get_eval(table)
  PROVE  Evaluated' /\ ~top_words_empty'
<1>1. PICK lists : lists = [t \in Topics |-> TopWords(top_words[t], dict[1], table, t)]
  OBVIOUS
<1>2. /\ evaluated' = table /\ top_words_empty' = FALSE
      /\ top_words' \in {f \in [Topics -> UNION Range(lists)] :
                           \A t \in Topics : f[t] \in lists[t]}
  BY <1>1, Zenon DEF get_eval
<1>3. CountsTyped(evaluated)'
  BY <1>2 DEF CountsTyped, Topics
<1>4. ASSUME NEW t \in Topics PROVE Ranked(t)'
  <2>1. PICK list : list = top_words[t]
    OBVIOUS
  <2>2. top_words'[t] \in TopWords(list, dict[1], table, t)
    BY <1>1, <1>2, <2>1
  <2>3. TopWords(list, dict[1], evaluated, t)' = TopWords(list, dict[1], table, t)
    BY <1>2
  <2> QED  BY <2>2, <2>3 DEF Ranked
<1> QED  BY <1>2, <1>3, <1>4 DEF Evaluated, Topics

LEMMA EvaluateEvaluates ==
  ASSUME ModelFilesAssumption, FormattedOnly, StatisticsAsEvaluated, Evaluate
  PROVE  StatisticsAsEvaluated'
<1>1. /\ pc = "format" /\ pc' = pc /\ AllFormatted /\ corpus' = corpus /\ dict' = dict
      /\ \E table \in Countings : get_eval(table)
  BY Zenon DEF Evaluate, formatVars
<1>2. PICK table \in Countings : get_eval(table)
  BY <1>1
<1>3. CountsTyped(table)
  BY <1>1, CountingsCount
<1>4. Evaluated' /\ ~top_words_empty'
  BY <1>1, <1>2, <1>3, EvalEvaluates DEF AllFormatted, Machines
<1> QED  BY <1>1, <1>4 DEF StatisticsAsEvaluated

LEMMA LearnEvaluates ==
  ASSUME ModelFilesAssumption, FormattedOnly, StatisticsAsEvaluated, Learn
  PROVE  StatisticsAsEvaluated'
<1>1. /\ pc' = "learnt" /\ AllFormatted /\ corpus' = corpus /\ dict' = dict
      /\ counts' \in Countings /\ UNCHANGED statistics
  BY Zenon DEF Learn, formatVars
<1>2. PICK c \in Countings : c = counts'
  BY <1>1
<1>3. CountsTyped(c)
  BY <1>1, CountingsCount
<1>4. CountsTyped(counts)'
  BY <1>1, <1>2, <1>3 DEF CountsTyped, Topics
<1> QED  BY <1>1, <1>4, StillEvaluated

LEMMA WriteEvaluates ==
  ASSUME FormattedOnly, StatisticsAsEvaluated, WriteStatistics
  PROVE  StatisticsAsEvaluated'
<1>1. /\ pc = "learnt" /\ pc' = "written" /\ corpus' = corpus /\ dict' = dict
      /\ IF top_words_empty THEN get_eval(counts) ELSE UNCHANGED statistics
  BY Zenon DEF WriteStatistics, formatVars
<1>2. CASE top_words_empty
  <2>1. PICK c : c = counts
    OBVIOUS
  <2>2. get_eval(c) /\ CountsTyped(c)
    BY <1>1, <1>2, <2>1 DEF StatisticsAsEvaluated
  <2>3. Evaluated' /\ ~top_words_empty'
    BY <1>1, <2>2, EvalEvaluates DEF FormattedOnly
  <2> QED  BY <1>1, <2>3 DEF StatisticsAsEvaluated
<1>3. CASE ~top_words_empty
  <2>1. UNCHANGED statistics
    BY <1>1, <1>3
  <2>2. /\ evaluated' = evaluated /\ top_words' = top_words
        /\ top_words_empty' = top_words_empty
    BY <2>1 DEF statistics
  <2>3. CountsTyped(evaluated)' <=> CountsTyped(evaluated)
    BY <1>1, <2>2 DEF CountsTyped, Topics
  <2>4. \A t : Ranked(t)' <=> Ranked(t)
    BY <1>1, <2>2 DEF Ranked
  <2>5. Evaluated'
    BY <1>1, <1>3, <2>3, <2>4 DEF StatisticsAsEvaluated, Evaluated, Topics
  <2> QED  BY <1>1, <1>3, <2>2, <2>5 DEF StatisticsAsEvaluated
<1> QED  BY <1>2, <1>3

LEMMA FilesInit ==
  ASSUME ModelFilesAssumption, Init
  PROVE  FilesInv
<1>1. /\ IsCorpus(corpus) /\ pc = "format" /\ dict = [m \in Machines |-> Empty]
      /\ input_w = [m \in Machines |-> <<>>] /\ top_words_empty = TRUE /\ global_dict = Empty
  BY DEF ModelFilesAssumption, Init
<1>2. FormattedOnly
  BY <1>1 DEF FormattedOnly, Machines
<1>3. GlobalDictionaryIsRight
  BY <1>1 DEF GlobalDictionaryIsRight
<1>4. StatisticsAsEvaluated
  BY <1>1 DEF StatisticsAsEvaluated
<1> QED  BY <1>2, <1>3, <1>4 DEF FilesInv

\* The steps that leave the formatters' files and the statistics alone.
LEMMA StillInv ==
  ASSUME FilesInv, UNCHANGED formatVars, UNCHANGED trainVars,
         pc' = pc \/ (pc # "format" /\ pc' \notin {"format", "learnt", "written"})
  PROVE  FormattedOnly' /\ StatisticsAsEvaluated'
<1>1. corpus' = corpus /\ dict' = dict /\ input_w' = input_w
  BY DEF formatVars
<1>2. counts' = counts /\ UNCHANGED statistics
  BY DEF trainVars
<1>3. FormattedOnly'
  BY <1>1, StillFormatted DEF FilesInv
<1>4. pc' = "learnt" => CountsTyped(counts)'
  BY <1>1, <1>2 DEF FilesInv, StatisticsAsEvaluated, CountsTyped, Topics
<1>5. StatisticsAsEvaluated'
  BY <1>1, <1>2, <1>4, StillEvaluated DEF FilesInv
<1> QED  BY <1>3, <1>5

LEMMA FilesStep ==
  ASSUME ModelFilesAssumption, FilesInv, [Next]_vars
  PROVE  FilesInv'
<1>0. FormattedOnly /\ StatisticsAsEvaluated /\ GlobalDictionaryIsRight
  BY DEF FilesInv
<1>1. ASSUME NEW m \in Machines, Format(m) PROVE FilesInv'
  <2>1. /\ pc = "format" /\ pc' = pc /\ corpus' = corpus /\ global_dict' = global_dict
        /\ dict' = [dict EXCEPT ![m] = format(corpus[m], {}).dict]
        /\ input_w' = [input_w EXCEPT ![m] = format(corpus[m], {}).output_w]
    BY <1>1 DEF Format, modelFiles
  <2>2. PICK out : out = format(corpus[m], {})
    OBVIOUS
  <2>3. /\ DOMAIN dict' = DOMAIN dict
        /\ \A n \in DOMAIN dict : dict'[n] = IF n = m THEN out.dict ELSE dict[n]
        /\ DOMAIN input_w' = DOMAIN input_w
        /\ \A n \in DOMAIN input_w : input_w'[n] = IF n = m THEN out.output_w ELSE input_w[n]
    BY <2>1, <2>2
  <2>4. FormattedOnly'
    BY <1>0, <2>1, <2>2, <2>3 DEF FormattedOnly
  <2>5. GlobalDictionaryIsRight'
    BY <1>0, <2>1, StillRight
  <2>6. StatisticsAsEvaluated'
    BY <1>0, <1>1, FormatEvaluates
  <2> QED  BY <2>4, <2>5, <2>6 DEF FilesInv
<1>11. CASE Evaluate
  <2>1. /\ pc' = pc /\ UNCHANGED formatVars /\ UNCHANGED modelFiles
    BY <1>11, Zenon DEF Evaluate
  <2>2. FormattedOnly' /\ GlobalDictionaryIsRight'
    BY <1>0, <2>1, StillRight, StillFormatted DEF formatVars, modelFiles
  <2> QED  BY <1>0, <1>11, <2>2, EvaluateEvaluates DEF FilesInv
<1>2. CASE Learn
  <2>0. /\ AllFormatted /\ UNCHANGED formatVars /\ UNCHANGED modelFiles
    BY <1>2, Zenon DEF Learn
  <2>1. FormattedOnly' /\ GlobalDictionaryIsRight'
    BY <1>0, <2>0, StillRight, StillFormatted DEF AllFormatted, formatVars, modelFiles
  <2> QED  BY <1>0, <1>2, <2>1, LearnEvaluates DEF FilesInv
<1>3. CASE WriteStatistics
  <2>0. pc = "learnt" /\ UNCHANGED formatVars /\ UNCHANGED modelFiles
    BY <1>3, Zenon DEF WriteStatistics
  <2>1. FormattedOnly' /\ GlobalDictionaryIsRight'
    BY <1>0, <2>0, StillRight, StillFormatted DEF formatVars, modelFiles
  <2> QED  BY <1>0, <1>3, <2>1, WriteEvaluates DEF FilesInv
<1>4. CASE Save
  <2>1. FormattedOnly' /\ StatisticsAsEvaluated'
    BY <1>4, StillInv DEF Save
  <2> QED  BY <1>0, <1>4, <2>1, SavedRight DEF FilesInv
<1>5. CASE Merge
  <2>1. FormattedOnly' /\ StatisticsAsEvaluated'
    BY <1>5, StillInv DEF Merge
  <2> QED  BY <1>0, <1>5, <2>1, MergedRight DEF FilesInv
<1>6. CASE GetCounts
  <2>1. FormattedOnly' /\ StatisticsAsEvaluated'
    BY <1>6, StillInv DEF GetCounts
  <2> QED  BY <1>0, <1>6, <2>1, StillRight DEF GetCounts, formatVars, FilesInv
<1>7. CASE FormatTest
  <2>1. FormattedOnly' /\ StatisticsAsEvaluated'
    BY <1>7, StillInv DEF FormatTest
  <2> QED  BY <1>0, <1>7, <2>1, StillRight DEF FormatTest, formatVars, modelFiles, FilesInv
<1>8. CASE InitDict
  <2>1. FormattedOnly' /\ StatisticsAsEvaluated'
    BY <1>8, StillInv DEF InitDict
  <2> QED  BY <1>0, <1>8, <2>1, StillRight DEF InitDict, formatVars, modelFiles, FilesInv
<1>9. ASSUME NEW part \in Machines, Load(part) PROVE FilesInv'
  <2>1. /\ pc = "load" /\ (pc' = pc \/ pc' = "ready")
        /\ UNCHANGED formatVars /\ UNCHANGED trainVars /\ UNCHANGED modelFiles
    BY <1>9, Zenon DEF Load
  <2>2. FormattedOnly' /\ StatisticsAsEvaluated'
    BY <2>1, StillInv
  <2> QED  BY <1>0, <2>1, <2>2, StillRight DEF formatVars, modelFiles, FilesInv
<1>10. CASE UNCHANGED vars
  <2>1. UNCHANGED formatVars /\ UNCHANGED trainVars /\ UNCHANGED modelFiles /\ pc' = pc
    BY <1>10 DEF vars
  <2>2. FormattedOnly' /\ StatisticsAsEvaluated'
    BY <2>1, StillInv
  <2> QED  BY <1>0, <2>1, <2>2, StillRight DEF formatVars, modelFiles, FilesInv
<1> QED  BY <1>1, <1>2, <1>3, <1>4, <1>5, <1>6, <1>7, <1>8, <1>9, <1>10, <1>11 DEF Next

LEMMA WrittenRank ==
  ASSUME ModelFilesAssumption, FilesInv
  PROVE  TopWordsRank
<1> SUFFICES ASSUME pc = "written" PROVE TopWordsRank
  BY DEF TopWordsRank
<1>1. FormattedOnly /\ CountsTyped(evaluated) /\ \A t \in Topics : Ranked(t)
  BY DEF FilesInv, StatisticsAsEvaluated, Evaluated
<1>2. 1 \in DOMAIN corpus
  <2>1. Len(corpus) > 0 /\ Len(corpus) \in Nat /\ DOMAIN corpus = 1 .. Len(corpus)
    BY <1>1 DEF FormattedOnly, IsCorpus, IsLines, IsList
  <2> QED  BY <2>1
<1>3. PICK d, f : d = dict[1] /\ f = FrequencyAt(CountedOf(1)) /\ Of(d, f)
  BY <1>1, <1>2, Formatted
<1>4. ASSUME NEW t \in Topics
      PROVE  Prints(PrintedOf(top_words[t]), HasOf(d, evaluated, t), evaluated, t)
  <2>1. \A w \in DOMAIN d.word_ind_map : evaluated[w][t] \in Nat
    BY <1>1, <1>2, <1>3 DEF CountsTyped
  <2>2. NUM_WORDS_PER_TOP \in Nat \ {0}
    BY DEF ModelFilesAssumption
  <2>3. PICK list : top_words[t] \in TopWords(list, d, evaluated, t)
    BY <1>1, <1>3 DEF Ranked
  <2>4. AllRank(TopWords(list, d, evaluated, t), TopEntries(d, evaluated, t))
    BY <1>3, <2>1, <2>2, TopWordsRanked
  <2>5. Ranks(top_words[t], TopEntries(d, evaluated, t))
    BY <2>3, <2>4 DEF AllRank
  <2> QED  BY <1>3, <2>1, <2>2, <2>5, RanksPrint
<1> QED  BY <1>3, <1>4, Zenon DEF TopWordsRank, Prints, PrintedOf, HasOf

-----------------------------------------------------------------------------
(***************************************************************************)
(* The second invariant, on top of the first: the learnt counts are of the *)
(* words of the corpus, and the dictionary the dumps are in the order of   *)
(* has just these; every dump has the counts of its part; what is loaded   *)
(* has the counts of the parts so far at the tester's own indexes; the     *)
(* documents to be tested are in the tester's dictionary, and the words a  *)
(* streaming learner has taken fit.                                        *)
(***************************************************************************)
CorpusWords == {WordAt(p) : p \in CorpusPlaces}

LearntAll == pc # "format" => DOMAIN counts = CorpusWords

ModelMade ==
  pc \in {"merged", "saved", "load", "ready"} =>
    Lists(global_dict, FrequencyAt(CorpusPlaces))

AllDumped == pc \in {"saved", "load", "ready"} => \A part \in Machines : PartDumped(part)

TableLoaded ==
  pc \in {"load", "ready"} =>
    /\ TesterKnows
    /\ loaded \in 0 .. numdumps
    /\ IF pc = "load" THEN loaded < numdumps ELSE loaded = numdumps
    /\ HasCounts(wt, Upto(loaded))

Tested == [dict |-> local_dict, output_w |-> test_w]

TestSpelt ==
  pc \in {"load", "ready"} /\ mode = "test" =>
    HasDocuments(Tested, DocumentLines(TestCorpus, CorpusWords), CorpusWords)

\* The tester has the first k words, at the indexes they have in the dumps.
FirstWords(k) ==
  /\ DOMAIN local_dict.word_ind_map
       = {w \in DOMAIN global_dict.word_ind_map : global_dict.word_ind_map[w] < k}
  /\ \A w \in DOMAIN local_dict.word_ind_map :
       local_dict.word_ind_map[w] = global_dict.word_ind_map[w]

FittingTaken ==
  \E k \in 0 .. num_words(global_dict) : FirstFit(k) /\ FirstWords(k)

StreamFitted ==
  pc \in {"load", "ready"} /\ mode = "stream" /\ numdumps > 1 => FittingTaken

LoadInv ==
  /\ LearntAll /\ ModelMade /\ AllDumped /\ TableLoaded /\ TestSpelt /\ StreamFitted

\* The parts that a step leaves alone.
LEMMA StillLearnt ==
  ASSUME LearntAll, corpus' = corpus, counts' = counts, pc' # "format" => pc # "format"
  PROVE  LearntAll'
<1>1. CorpusWords' = CorpusWords
  BY DEF CorpusWords, CorpusPlaces, WordAt, PlacesOf, IsCounted, Machines
<1> QED  BY <1>1 DEF LearntAll

LEMMA StillMade ==
  ASSUME ModelMade, corpus' = corpus, global_dict' = global_dict,
         pc' \in {"merged", "saved", "load", "ready"}
           => pc \in {"merged", "saved", "load", "ready"}
  PROVE  ModelMade'
<1>1. FrequencyAt(CorpusPlaces)' = FrequencyAt(CorpusPlaces)
  BY DEF FrequencyAt, CorpusPlaces, WordAt, PlacesOf, IsCounted, Machines
<1> QED  BY <1>1 DEF ModelMade

LEMMA StillDumped ==
  ASSUME AllDumped, corpus' = corpus, counts' = counts, global_dict' = global_dict,
         dump' = dump,
         pc' \in {"saved", "load", "ready"} => pc \in {"saved", "load", "ready"}
  PROVE  AllDumped'
<1>1. Machines' = Machines /\ numdumps' = numdumps
  BY DEF Machines, numdumps
<1>2. num_words_per_client' = num_words_per_client
  BY <1>1 DEF num_words_per_client
<1>3. \A part : Offset(part)' = Offset(part)
  BY <1>2 DEF Offset
<1>4. \A part : End(part)' = End(part)
  BY <1>1, <1>2, <1>3 DEF End
<1>5. \A part, from, num : PartHas(part, from, num)' <=> PartHas(part, from, num)
  BY <1>3 DEF PartHas, incoming_words
<1>6. \A part : PartDumped(part)' <=> PartDumped(part)
  BY <1>3, <1>4, <1>5 DEF PartDumped
<1> QED  BY <1>1, <1>6 DEF AllDumped

LEMMA StillSpelt ==
  ASSUME TestSpelt, corpus' = corpus, mode' = mode, local_dict' = local_dict,
         test_w' = test_w, pc' \in {"load", "ready"} => pc \in {"load", "ready"}
  PROVE  TestSpelt'
<1>1. CorpusWords' = CorpusWords
  BY DEF CorpusWords, CorpusPlaces, WordAt, PlacesOf, IsCounted, Machines
<1>2. Tested' = Tested
  BY DEF Tested
<1> QED  BY <1>1, <1>2 DEF TestSpelt

LEMMA StillFitted ==
  ASSUME StreamFitted, corpus' = corpus, mode' = mode, counts' = counts,
         local_dict' = local_dict, global_dict' = global_dict,
         pc' \in {"load", "ready"} => pc \in {"load", "ready"}
  PROVE  StreamFitted'
<1>1. numdumps' = numdumps
  BY DEF Machines, numdumps
<1>2. \A k : FirstWords(k)' <=> FirstWords(k)
  BY DEF FirstWords
<1>3. WordLengths' = WordLengths
  BY DEF WordLengths, Length, Topics
<1>4. \A k : FirstFit(k)' <=> FirstFit(k)
  BY <1>3 DEF FirstFit, FirstUsed
<1>5. FittingTaken' <=> FittingTaken
  BY <1>2, <1>4 DEF FittingTaken
<1> QED  BY <1>1, <1>5 DEF StreamFitted

LEMMA StillLoaded ==
  ASSUME LoadInv, corpus' = corpus, mode' = mode, counts' = counts,
         global_dict' = global_dict, dump' = dump, pc \notin {"load", "ready"},
         pc' = pc \/ (pc = "learnt" /\ pc' = "written")
  PROVE  LoadInv'
<1>1. LearntAll' /\ ModelMade' /\ AllDumped'
  BY StillLearnt, StillMade, StillDumped DEF LoadInv
<1>2. TableLoaded' /\ TestSpelt' /\ StreamFitted'
  BY DEF TableLoaded, TestSpelt, StreamFitted
<1> QED  BY <1>1, <1>2 DEF LoadInv

LEMMA StutterLoaded ==
  ASSUME LoadInv, UNCHANGED vars
  PROVE  LoadInv'
<1>1. /\ corpus' = corpus /\ mode' = mode /\ counts' = counts /\ pc' = pc
      /\ global_dict' = global_dict /\ dump' = dump /\ local_dict' = local_dict
      /\ test_w' = test_w /\ wt' = wt /\ loaded' = loaded
  BY DEF vars, formatVars, trainVars, modelFiles, testVars, tableVars
<1>2. LearntAll' /\ ModelMade' /\ AllDumped' /\ TestSpelt' /\ StreamFitted'
  BY <1>1, StillLearnt, StillMade, StillDumped, StillSpelt, StillFitted DEF LoadInv
<1>3. TableLoaded'
  <2>1. numdumps' = numdumps
    BY <1>1 DEF numdumps, Machines
  <2>2. Upto(loaded)' = Upto(loaded)
    BY <1>1, <2>1 DEF Upto, num_words_per_client
  <2>3. TesterKnows' <=> TesterKnows
    BY <1>1 DEF TesterKnows
  <2>4. \A table, n : HasCounts(table, n)' <=> HasCounts(table, n)
    BY <1>1 DEF HasCounts
  <2>5. HasCounts(wt, Upto(loaded))' <=> HasCounts(wt, Upto(loaded))
    BY <1>1, <2>2, <2>4 DEF HasCounts
  <2>6. TableLoaded
    BY DEF LoadInv
  <2> QED  BY <1>1, <2>1, <2>3, <2>5, <2>6 DEF TableLoaded
<1> QED  BY <1>2, <1>3 DEF LoadInv

\* The corpus is finite, and so are the words the dictionary of the dumps has.
LEMMA CorpusCounted ==
  ASSUME FormattedOnly, pc # "format"
  PROVE  IsFiniteSet(CorpusPlaces)
<1>1. PICK k \in Nat : DOMAIN corpus = 1 .. k
  BY DEF FormattedOnly, IsCorpus, IsLines, IsList
<1>2. \A m \in 1 .. k : IsFiniteSet(CountedOf(m))
  BY <1>1, Formatted
<1>3. CorpusPlaces = CountedTo(k)
  BY <1>1 DEF CorpusPlaces, CountedTo, CountedOf, Machines
<1> QED  BY <1>2, <1>3, PlacesAddUp

GlobalParts ==
  /\ Of(global_dict, FrequencyAt(CorpusPlaces)) /\ Sound(global_dict)
  /\ DOMAIN global_dict.word_ind_map = CorpusWords
  /\ num_words(global_dict) \in Nat

LEMMA GlobalWords ==
  ASSUME FormattedOnly, pc # "format", Lists(global_dict, FrequencyAt(CorpusPlaces))
  PROVE  GlobalParts
<1>1. PICK f : f = FrequencyAt(CorpusPlaces)
  OBVIOUS
<1>2. IsFiniteSet(DOMAIN f) /\ IsDictionaryOf(global_dict, f)
  BY <1>1 DEF Lists
<1>3. Of(global_dict, f)
  <2>1. IsFiniteSet(CorpusPlaces)
    BY CorpusCounted
  <2>2. \A w \in DOMAIN FrequencyAt(CorpusPlaces) : FrequencyAt(CorpusPlaces)[w] \in Nat
    BY <2>1, FrequencyParts
  <2> QED  BY <1>1, <1>2, <2>2 DEF Of
<1>4. DOMAIN f = CorpusWords
  BY <1>1 DEF FrequencyAt, CorpusWords
<1>5. num_words(global_dict) \in Nat
  <2>1. PICK j \in Nat : IndexesAs(global_dict, f, j)
    BY <1>2, IndexParts
  <2> QED  BY <2>1 DEF IndexesAs
<1>6. DOMAIN global_dict.word_ind_map = DOMAIN f
  BY <1>2 DEF IsDictionaryOf
<1> QED  BY <1>1, <1>2, <1>3, <1>4, <1>5, <1>6 DEF Sound, GlobalParts

\* Every index in a document is the one of a word of its machine's dictionary.
LEMMA PlacedWord ==
  ASSUME \A m \in Machines : Documented(m), NEW p \in FormattedPlaces
  PROVE  \E m \in Machines : FormattedWord(p) \in DOMAIN dict[m].word_ind_map
<1>1. PICK m \in Machines : \E n \in DOMAIN input_w[m] :
        \E i \in DOMAIN BodyOf(input_w[m], n) : p = <<m, n, i>>
  BY DEF FormattedPlaces
<1>2. PICK n \in DOMAIN input_w[m] : \E i \in DOMAIN BodyOf(input_w[m], n) : p = <<m, n, i>>
  BY <1>1
<1>3. PICK body : body = BodyOf(input_w[m], n)
  OBVIOUS
<1>4. PICK i \in DOMAIN body : p = <<m, n, i>>
  BY <1>2, <1>3
<1>5. Documented(m)
  OBVIOUS
<1>6. n \in 1 .. Len(input_w[m])
  BY <1>5 DEF Documented
<1>7. PICK d : d = dict[m]
  OBVIOUS
<1>8. WellMade(d) /\ Indexes(body, d.current_index)
  BY <1>3, <1>5, <1>6, <1>7 DEF Documented
<1>9. i \in 1 .. Len(body) /\ body[i] \in Nat /\ body[i] < d.current_index
  BY <1>8 DEF Indexes
<1>10. d.current_index \in Nat
         /\ \A j \in 0 .. d.current_index - 1 : d.ind_word_map[j] \in DOMAIN d.word_ind_map
  BY <1>8, MadeParts
<1>11. d.ind_word_map[body[i]] \in DOMAIN d.word_ind_map
  BY <1>9, <1>10
<1>12. FormattedWord(p) = d.ind_word_map[body[i]]
  <2>1. p[1] = m /\ p[2] = n /\ p[3] = i
    BY <1>4
  <2> QED  BY <1>3, <1>7, <2>1 DEF FormattedWord
<1> QED  BY <1>7, <1>11, <1>12

LEMMA LearntWords ==
  ASSUME FormattedOnly, \A m \in DOMAIN corpus : dict[m] # Empty, NEW c \in Countings
  PROVE  DOMAIN c = CorpusWords
<1>1. \A m \in Machines : Documented(m)
  BY AllDocumented
<1>2. ASSUME NEW m \in Machines
      PROVE  DOMAIN dict[m].word_ind_map = {WordAt(p) : p \in CountedOf(m)}
  <2>1. IsCorpus(corpus) /\ m \in DOMAIN corpus /\ dict[m] = format(corpus[m], {}).dict
    BY <1>2 DEF FormattedOnly, Machines
  <2>2. CountsPlaces(dict[m], CountedOf(m))
    BY <2>1, FormatCounts
  <2>3. IsDictionaryOf(dict[m], FrequencyAt(CountedOf(m)))
    BY <2>2 DEF CountsPlaces, Grown, Lists
  <2> QED  BY <2>3 DEF IsDictionaryOf, FrequencyAt
<1>3. PICK words : words = {FormattedWord(p) : p \in FormattedPlaces}
  OBVIOUS
<1>4. DOMAIN c = words
  BY <1>3, Zenon DEF Countings
<1>5. \A w : w \in CorpusWords <=> \E m \in Machines : w \in DOMAIN dict[m].word_ind_map
  <2>1. CorpusPlaces = UNION {CountedOf(m) : m \in Machines}
    BY DEF CorpusPlaces, CountedOf
  <2>2. \A w : w \in CorpusWords <=> \E m \in Machines : \E p \in CountedOf(m) : WordAt(p) = w
    BY <2>1 DEF CorpusWords
  <2> QED  BY <1>2, <2>2
<1>6. \A w : w \in words <=> \E m \in Machines : w \in DOMAIN dict[m].word_ind_map
  <2>1. ASSUME NEW w, w \in words PROVE \E m \in Machines : w \in DOMAIN dict[m].word_ind_map
    BY <1>1, <1>3, <2>1, PlacedWord
  <2>2. ASSUME NEW m \in Machines, NEW w \in DOMAIN dict[m].word_ind_map PROVE w \in words
    BY <1>1, <1>3, WordPlaced
  <2> QED  BY <2>1, <2>2
<1> QED  BY <1>4, <1>5, <1>6

LEMMA LearnLoads ==
  ASSUME FormattedOnly, LoadInv, Learn
  PROVE  LoadInv'
<1>1. /\ pc' = "learnt" /\ corpus' = corpus /\ counts' \in Countings
      /\ \A m \in Machines : dict[m] # Empty
  BY Zenon DEF Learn, AllFormatted, formatVars
<1>2. DOMAIN counts' = CorpusWords
  BY <1>1, LearntWords DEF Machines
<1>3. CorpusWords' = CorpusWords
  BY <1>1 DEF CorpusWords, CorpusPlaces, WordAt, PlacesOf, IsCounted, Machines
<1>4. LearntAll'
  BY <1>2, <1>3 DEF LearntAll
<1>5. ModelMade' /\ AllDumped' /\ TableLoaded' /\ TestSpelt' /\ StreamFitted'
  BY <1>1 DEF ModelMade, AllDumped, TableLoaded, TestSpelt, StreamFitted
<1> QED  BY <1>4, <1>5 DEF LoadInv

\* The dump of a part has the counts of its words.
RecordsHave(records, d, from, num) ==
  /\ Len(records) = num + 2 /\ Head(records).num_words = num
  /\ \A k \in 0 .. num - 1 :
       records[k + 2].cnt_topics = counts[d.ind_word_map[k + from]]

LEMMA PartOfTable ==
  ASSUME NEW d, NEW from \in Nat, NEW num \in Nat, NEW records,
         records = Dumped(Table(d, from, from + num))
  PROVE  RecordsHave(records, d, from, num)
<1>1. PICK table : table = Table(d, from, from + num)
  OBVIOUS
<1>2. DOMAIN table = 0 .. num - 1
        /\ \A k \in 0 .. num - 1 : table[k] = counts[d.ind_word_map[k + from]]
  <2>1. from + num - from - 1 = num - 1
    OBVIOUS
  <2>2. table = [k \in 0 .. num - 1 |-> counts[d.ind_word_map[from + k]]]
    BY <1>1, <2>1 DEF Table
  <2>3. \A k \in 0 .. num - 1 : from + k = k + from
    OBVIOUS
  <2> QED  BY <2>2, <2>3
<1>3. DumpOf(records, table, num)
  BY <1>1, <1>2, TableDumped
<1> QED  BY <1>2, <1>3 DEF DumpOf, RecordsHave

LEMMA SaveLoads ==
  ASSUME FormattedOnly, LoadInv, Save
  PROVE  LoadInv'
<1>1. /\ pc = "written" /\ pc' = "saved" /\ numdumps = 1 /\ corpus' = corpus
      /\ counts' = counts
      /\ dump' = <<Dumped(Table(global_dict', 0, num_words(global_dict')))>>
  BY DEF Save, formatVars, trainVars
<1>2. LearntAll'
  BY <1>1, StillLearnt DEF LoadInv
<1>3. Lists(global_dict', FrequencyAt(CorpusPlaces)')
  BY SavedRight
<1>4. ModelMade'
  BY <1>3 DEF ModelMade
<1>5. PICK words \in Nat : words = num_words(global_dict')
  <2>1. PICK f : Lists(global_dict', f)
    BY <1>3
  <2>2. PICK j \in Nat : IndexesAs(global_dict', f, j)
    BY <2>1, IndexParts DEF Lists
  <2> QED  BY <2>2 DEF IndexesAs
<1>6. Machines' = {1} /\ numdumps' = 1
  <2>1. IsCorpus(corpus)
    BY DEF FormattedOnly
  <2>2. Machines = 1 .. 1
    BY <1>1, <2>1, SomeMachines
  <2> QED  BY <1>1, <2>2 DEF Machines, numdumps
<1>7. num_words_per_client' = words
  <2>1. num_words_per_client' = words \div 1
    BY <1>5, <1>6 DEF num_words_per_client
  <2> QED  BY <2>1
<1>8. Offset(1)' = 0 /\ End(1)' = words
  <2>1. Offset(1)' = (1 - 1) * words
    BY <1>7 DEF Offset
  <2>2. End(1)' = words
    BY <1>5, <1>6 DEF End
  <2> QED  BY <2>1, <2>2
<1>9. PICK d, records : d = global_dict' /\ records = dump'[1]
        /\ records = Dumped(Table(d, 0, 0 + words))
  BY <1>1, <1>5
<1>10. RecordsHave(records, d, 0, words)
  BY <1>9, PartOfTable
<1>11. PartHas(1, 0, words)'
  BY <1>1, <1>5, <1>8, <1>9, <1>10 DEF PartHas, incoming_words, RecordsHave
<1>12. AllDumped'
  BY <1>5, <1>6, <1>8, <1>11 DEF AllDumped, PartDumped
<1>13. TableLoaded' /\ TestSpelt' /\ StreamFitted'
  BY <1>1 DEF TableLoaded, TestSpelt, StreamFitted
<1> QED  BY <1>2, <1>4, <1>12, <1>13 DEF LoadInv

LEMMA MergeLoads ==
  ASSUME FormattedOnly, LoadInv, Merge
  PROVE  LoadInv'
<1>1. pc = "written" /\ pc' = "merged" /\ corpus' = corpus /\ counts' = counts
  BY DEF Merge, formatVars, trainVars
<1>2. LearntAll'
  BY <1>1, StillLearnt DEF LoadInv
<1>3. ModelMade'
  BY MergedRight DEF ModelMade
<1>4. AllDumped' /\ TableLoaded' /\ TestSpelt' /\ StreamFitted'
  BY <1>1 DEF AllDumped, TableLoaded, TestSpelt, StreamFitted
<1> QED  BY <1>2, <1>3, <1>4 DEF LoadInv

LEMMA GetCountsLoads ==
  ASSUME FormattedOnly, LoadInv, GetCounts
  PROVE  LoadInv'
<1>1. /\ pc = "merged" /\ pc' = "saved" /\ corpus' = corpus /\ counts' = counts
      /\ global_dict' = global_dict
      /\ dump' = [part \in Machines |-> Dumped(Table(global_dict, Offset(part), End(part)))]
  BY DEF GetCounts, formatVars, trainVars
<1>2. LearntAll' /\ ModelMade'
  BY <1>1, StillLearnt, StillMade DEF LoadInv
<1>3. num_words(global_dict) \in Nat /\ IsCorpus(corpus)
  <2>1. Lists(global_dict, FrequencyAt(CorpusPlaces))
    BY <1>1 DEF LoadInv, ModelMade
  <2> QED  BY <1>1, <2>1, GlobalWords DEF GlobalParts, FormattedOnly
<1>4. Machines' = Machines /\ numdumps' = numdumps
  BY <1>1 DEF Machines, numdumps
<1>5. \A part : Offset(part)' = Offset(part) /\ End(part)' = End(part)
  BY <1>1, <1>4 DEF Offset, End, num_words_per_client
<1>6. ASSUME NEW part \in Machines PROVE PartDumped(part)'
  <2>1. PICK from, num \in Nat : from = Offset(part) /\ num = End(part) - Offset(part)
          /\ from + num = End(part) /\ End(part) <= num_words(global_dict)
    BY <1>3, PartsAdjoin
  <2>2. PICK d, records : d = global_dict /\ records = dump'[part]
          /\ records = Dumped(Table(d, from, from + num))
    BY <1>1, <2>1
  <2>3. RecordsHave(records, d, from, num)
    BY <2>2, PartOfTable
  <2>4. PartHas(part, from, num)'
    BY <1>1, <1>5, <2>1, <2>2, <2>3 DEF PartHas, incoming_words, RecordsHave
  <2>5. Offset(part)' = from /\ (End(part) - Offset(part))' = num
    BY <1>5, <2>1
  <2> QED  BY <2>4, <2>5 DEF PartDumped
<1>7. AllDumped'
  BY <1>4, <1>6 DEF AllDumped
<1>8. TableLoaded' /\ TestSpelt' /\ StreamFitted'
  BY <1>1 DEF TableLoaded, TestSpelt, StreamFitted
<1> QED  BY <1>2, <1>7, <1>8 DEF LoadInv

\* A new table has no counts yet, of a tester that knows words of the model.
LEMMA NewTableLoads ==
  ASSUME FormattedOnly, LoadInv, pc = "saved", pc' = "load", NewTable,
         corpus' = corpus, global_dict' = global_dict,
         NEW d, d = local_dict', Sound(d),
         DOMAIN d.word_ind_map \subseteq DOMAIN global_dict.word_ind_map
  PROVE  TableLoaded'
<1>1. GlobalParts
  BY GlobalWords DEF LoadInv, ModelMade
<1>2. TesterKnows'
  BY <1>1 DEF GlobalParts, TesterKnows, Sound
<1>3. numdumps' = numdumps /\ numdumps \in Nat \ {0} /\ Machines' = Machines
        /\ Machines = 1 .. numdumps
  BY SomeMachines DEF FormattedOnly, numdumps, Machines
<1>4. loaded' = 0 /\ wt' = [i \in 0 .. num_words(d) - 1 |-> Zero]
  BY DEF NewTable
<1>5. Upto(loaded)' = 0
  <2>1. 0 < numdumps
    BY <1>3
  <2>2. Upto(loaded)' = 0 * num_words_per_client'
    BY <1>3, <1>4, <2>1 DEF Upto
  <2>3. num_words_per_client' = num_words_per_client
    BY <1>3 DEF num_words_per_client
  <2>4. Upto(0) = 0 * num_words_per_client
    BY <2>1 DEF Upto
  <2>5. Upto(0) = 0
    BY <1>1, <1>3, PartsAdjoin, 1 \in 1 .. numdumps DEF FormattedOnly, GlobalParts
  <2> QED  BY <2>2, <2>3, <2>4, <2>5
<1>6. \A w \in DOMAIN global_dict.word_ind_map : ~(global_dict.word_ind_map[w] < 0)
  <2>1. PICK f : IsFiniteSet(DOMAIN f) /\ IsDictionaryOf(global_dict, f)
    BY <1>1 DEF GlobalParts, Sound
  <2>2. PICK j \in Nat : IndexesAs(global_dict, f, j)
    BY <2>1, IndexParts
  <2>3. \A w \in DOMAIN global_dict.word_ind_map : global_dict.word_ind_map[w] \in 0 .. j - 1
    BY <2>2 DEF IndexesAs
  <2> QED  BY <2>3
<1>7. HasCounts(wt, 0)'
  BY <1>4, <1>6 DEF HasCounts
<1>8. HasCounts(wt, Upto(loaded))'
  BY <1>5, <1>7 DEF HasCounts
<1> QED  BY <1>2, <1>3, <1>4, <1>8 DEF TableLoaded

\* The words of the lines to be tested that the model knows.
KnownLines(unknown) ==
  \A n \in DOMAIN TestCorpus : Admits(TestCorpus[n].words, CorpusWords, unknown)

LEMMA UnknownLeftOut ==
  ASSUME DOMAIN global_dict.word_ind_map = CorpusWords,
         NEW words, words = UNION {Range(line.words) : line \in Range(TestCorpus)},
         NEW unknown, unknown = {w \in words : ~Has(global_dict, w)}
  PROVE  KnownLines(unknown)
<1>1. \A w \in CorpusWords : w \notin Stopwords
  BY DEF CorpusWords, CorpusPlaces, IsCounted
<1>2. ASSUME NEW n \in DOMAIN TestCorpus, NEW i \in DOMAIN TestCorpus[n].words
      PROVE  TestCorpus[n].words[i] \in words
  BY DEF Range
<1>3. \A w : Has(global_dict, w) <=> w \in CorpusWords
  BY DEF Has
<1> QED  BY <1>1, <1>2, <1>3 DEF KnownLines, Admits

LEMMA FormatTestLoads ==
  ASSUME ModelFilesAssumption, FormattedOnly, LoadInv, FormatTest
  PROVE  LoadInv'
<1>1. /\ pc = "saved" /\ pc' = "load" /\ mode = "test" /\ mode' = mode
      /\ corpus' = corpus /\ counts' = counts /\ global_dict' = global_dict
      /\ dump' = dump /\ NewTable
  BY Zenon DEF FormatTest, formatVars, trainVars, modelFiles
<1>2. LearntAll' /\ ModelMade' /\ AllDumped'
  BY <1>1, StillLearnt, StillMade, StillDumped DEF LoadInv
<1>3. GlobalParts
  BY <1>1, GlobalWords DEF LoadInv, ModelMade
<1>4. PICK words : words = UNION {Range(line.words) : line \in Range(TestCorpus)}
  OBVIOUS
<1>5. PICK unknown : unknown = {w \in words : ~Has(global_dict, w)}
  OBVIOUS
<1>6. PICK out : out = format(TestCorpus, unknown)
  OBVIOUS
<1>7. local_dict' = out.dict /\ test_w' = out.output_w
  BY <1>4, <1>5, <1>6, Zenon DEF FormatTest
<1>8. KnownLines(unknown)
  BY <1>3, <1>4, <1>5, UnknownLeftOut DEF GlobalParts
<1>9. PICK W : W = CorpusWords
  OBVIOUS
<1>10. HasDocuments(out, DocumentLines(TestCorpus, W), W)
  <2>1. IsLines(TestCorpus)
    BY DEF ModelFilesAssumption
  <2>2. \A n \in DOMAIN TestCorpus : Admits(TestCorpus[n].words, W, unknown)
    BY <1>8, <1>9 DEF KnownLines
  <2> QED  BY <1>6, <2>1, <2>2, FormatSpells
<1>11. Sound(out.dict) /\ DOMAIN out.dict.word_ind_map \subseteq DOMAIN global_dict.word_ind_map
  <2>1. WellMade(out.dict) /\ DOMAIN out.dict.word_ind_map \subseteq W
    BY <1>10 DEF HasDocuments
  <2>2. Sound(out.dict)
    BY <2>1 DEF WellMade, Grown, Lists, Sound
  <2> QED  BY <1>3, <1>9, <2>1, <2>2 DEF GlobalParts
<1>12. TableLoaded'
  BY <1>1, <1>7, <1>11, NewTableLoads
<1>13. TestSpelt'
  <2>1. CorpusWords' = W
    BY <1>1, <1>9 DEF CorpusWords, CorpusPlaces, WordAt, PlacesOf, IsCounted, Machines
  <2>2. Tested'.dict = out.dict /\ Tested'.output_w = out.output_w
    BY <1>7 DEF Tested
  <2>3. PICK ls : ls = DocumentLines(TestCorpus, W)
    OBVIOUS
  <2>4. HasDocuments(Tested', ls, W)
    BY <1>10, <2>2, <2>3 DEF HasDocuments
  <2>5. HasDocuments(Tested', DocumentLines(TestCorpus, CorpusWords'), CorpusWords')
    BY <2>1, <2>3, <2>4
  <2> QED  BY <2>5 DEF TestSpelt
<1>14. StreamFitted'
  BY <1>1 DEF StreamFitted
<1> QED  BY <1>2, <1>12, <1>13, <1>14 DEF LoadInv

\* The first words of a dictionary, in a dictionary that is made of its dump.
Takes(e, d, kept, limit) ==
  /\ Lists(e, kept)
  /\ DOMAIN kept = {w \in DOMAIN d.word_ind_map : d.word_ind_map[w] < limit}
  /\ \A w \in DOMAIN kept : e.word_ind_map[w] = d.word_ind_map[w]

LEMMA FirstTaken ==
  ASSUME NEW d, NEW f, Of(d, f), NEW file \in Dumps(d), NEW limit \in Nat,
         NEW e, e = initialize_from_dump(file, limit)
  PROVE  \E kept : Takes(e, d, kept, limit)
<1>1. /\ Lists(e, Kept(d, f, limit))
      /\ \A w \in DOMAIN Kept(d, f, limit) : e.word_ind_map[w] = d.word_ind_map[w]
  BY LoadedAsDumped
<1>2. PICK kept : kept = Kept(d, f, limit)
  OBVIOUS
<1>3. DOMAIN kept = {w \in DOMAIN f : d.word_ind_map[w] < limit}
  BY <1>2 DEF Kept
<1>4. DOMAIN f = DOMAIN d.word_ind_map
  BY DEF Of, IsDictionaryOf
<1> QED  BY <1>1, <1>2, <1>3, <1>4 DEF Takes

\* How many words of a single dump fit is a number, in any order of them.
LEMMA SingleFit ==
  ASSUME ModelFilesAssumption, PartDumped(1), NEW sorted
  PROVE  Fit(SortedLengths(sorted), 0) \in Nat
<1>1. PICK n \in Nat : n = incoming_words(1)
  BY DEF PartDumped, PartHas
<1>2. PICK lengths : lengths = SortedLengths(sorted)
  OBVIOUS
<1>3. DOMAIN lengths = 1 .. n /\ \A i \in 1 .. n : lengths[i] \in Nat
  BY <1>1, <1>2, LengthIsNat DEF SortedLengths, RecordLength
<1>4. PICK k \in 0 .. n : Fits(lengths, 0, k)
  BY <1>3, FittingWords
<1> QED  BY <1>2, <1>4 DEF Fits

LEMMA InitDictLoads ==
  ASSUME ModelFilesAssumption, FormattedOnly, LoadInv, InitDict
  PROVE  LoadInv'
<1>1. /\ pc = "saved" /\ pc' = "load" /\ mode = "stream" /\ mode' = mode
      /\ corpus' = corpus /\ counts' = counts /\ global_dict' = global_dict
      /\ dump' = dump /\ NewTable
  BY Zenon DEF InitDict, formatVars, trainVars, modelFiles
<1>2. LearntAll' /\ ModelMade' /\ AllDumped'
  BY <1>1, StillLearnt, StillMade, StillDumped DEF LoadInv
<1>3. GlobalParts
  BY <1>1, GlobalWords DEF LoadInv, ModelMade
<1>4. PICK f : f = FrequencyAt(CorpusPlaces) /\ Of(global_dict, f) /\ Lists(global_dict, f)
  BY <1>1, <1>3 DEF GlobalParts, LoadInv, ModelMade
<1>5. PICK file \in Dumps(global_dict) :
        IF numdumps = 1
        THEN \E sorted \in sort_on_freq(global_dict) :
               local_dict' \in sort_on_freq(
                 initialize_from_dump(file, Fit(SortedLengths(sorted), 0)))
        ELSE local_dict' = initialize_from_dump(file, FitInDumps)
  BY DEF InitDict
<1>6. PICK d : d = local_dict'
  OBVIOUS
<1>7. TestSpelt'
  BY <1>1 DEF TestSpelt
<1>8. numdumps' = numdumps
  BY <1>1 DEF numdumps, Machines
<1>9. CASE numdumps = 1
  <2>1. PICK sorted \in sort_on_freq(global_dict) :
          d \in sort_on_freq(initialize_from_dump(file, Fit(SortedLengths(sorted), 0)))
    BY <1>5, <1>6, <1>9
  <2>2. PartDumped(1)
    BY <1>1, <1>9, SomeMachines, 1 \in 1 .. 1 DEF FormattedOnly, LoadInv, AllDumped
  <2>3. PICK limit \in Nat : limit = Fit(SortedLengths(sorted), 0)
    BY <2>2, SingleFit
  <2>4. PICK e : e = initialize_from_dump(file, limit)
    OBVIOUS
  <2>5. PICK kept : Takes(e, global_dict, kept, limit)
    BY <1>4, <1>5, <2>3, <2>4, FirstTaken
  <2>6. d \in sort_on_freq(e)
    BY <2>1, <2>3, <2>4
  <2>7. IsDictionaryOf(d, kept) /\ IsFiniteSet(DOMAIN kept)
    BY <2>5, <2>6, SortKeepsWords DEF Takes, Lists
  <2>8. Sound(d) /\ DOMAIN d.word_ind_map \subseteq DOMAIN global_dict.word_ind_map
    BY <2>5, <2>7 DEF Sound, Takes, IsDictionaryOf
  <2>9. TableLoaded'
    BY <1>1, <1>6, <2>8, NewTableLoads
  <2>10. StreamFitted'
    BY <1>8, <1>9 DEF StreamFitted
  <2> QED  BY <1>2, <1>7, <2>9, <2>10 DEF LoadInv
<1>10. CASE numdumps # 1
  <2>1. PICK k \in 0 .. num_words(global_dict) : k = FitInDumps /\ FirstFit(k)
    BY <1>1, <1>3, DumpsFit DEF FormattedOnly, GlobalParts, LoadInv, AllDumped
  <2>2. k \in Nat /\ d = initialize_from_dump(file, k)
    BY <1>3, <1>5, <1>6, <1>10, <2>1 DEF GlobalParts
  <2>3. PICK kept : Takes(d, global_dict, kept, k)
    BY <1>4, <1>5, <2>2, FirstTaken
  <2>4. DOMAIN d.word_ind_map = DOMAIN kept /\ Sound(d)
    BY <2>3 DEF Sound, Takes, Lists, IsDictionaryOf
  <2>5. TableLoaded'
    BY <1>1, <1>6, <2>3, <2>4, NewTableLoads DEF Takes
  <2>6. FirstWords(k)'
    BY <1>1, <1>6, <2>3, <2>4 DEF FirstWords, Takes
  <2>7. FirstFit(k)'
    <3>1. WordLengths' = WordLengths
      BY <1>1 DEF WordLengths, Length, Topics
    <3> QED  BY <1>1, <2>1, <3>1 DEF FirstFit, FirstUsed
  <2>8. num_words(global_dict)' = num_words(global_dict)
    BY <1>1
  <2>9. FittingTaken'
    BY <2>1, <2>6, <2>7, <2>8 DEF FittingTaken
  <2>10. StreamFitted'
    BY <2>9 DEF StreamFitted
  <2> QED  BY <1>2, <1>7, <2>5, <2>10 DEF LoadInv
<1> QED  BY <1>9, <1>10

LEMMA LoadLoads ==
  ASSUME ModelFilesAssumption, FormattedOnly, LoadInv, NEW part \in Machines, Load(part)
  PROVE  LoadInv'
<1>1. PICK s, t : /\ s = [n \in 1 .. Len(dump[part]) - 1 |-> n - 1]
                  /\ t = RecordsLoaded(part, [counts |-> wt, totals |-> tokens_per_topic], s)
  OBVIOUS
<1>2. /\ pc = "load" /\ part = loaded + 1 /\ loaded' = part /\ wt' = t.counts
      /\ pc' = IF part < numdumps THEN pc ELSE "ready"
      /\ corpus' = corpus /\ mode' = mode /\ counts' = counts
      /\ global_dict' = global_dict /\ dump' = dump /\ local_dict' = local_dict
      /\ test_w' = test_w
  BY <1>1, Zenon DEF Load, RecordsLoaded, formatVars, trainVars, modelFiles, testVars
<1>3. pc' \in {"load", "ready"}
  BY <1>2
<1>4. LearntAll' /\ ModelMade' /\ AllDumped' /\ TestSpelt' /\ StreamFitted'
  <2>1. LearntAll'
    BY <1>2, StillLearnt DEF LoadInv
  <2>2. ModelMade'
    BY <1>2, StillMade DEF LoadInv
  <2>3. AllDumped'
    BY <1>2, StillDumped DEF LoadInv
  <2>4. TestSpelt'
    BY <1>2, StillSpelt DEF LoadInv
  <2>5. StreamFitted'
    BY <1>2, StillFitted DEF LoadInv
  <2> QED  BY <2>1, <2>2, <2>3, <2>4, <2>5
<1>5. /\ TesterKnows /\ loaded \in 0 .. numdumps /\ HasCounts(wt, Upto(loaded))
      /\ PartDumped(part)
  BY <1>2 DEF LoadInv, TableLoaded, AllDumped
<1>6. PICK from, num : /\ from = Offset(part) /\ num = End(part) - Offset(part)
                       /\ Upto(part - 1) = from /\ Upto(part) = from + num
  BY <1>5, KnownWords, PartsAdjoin DEF FormattedOnly
<1>7. numdumps \in Nat \ {0} /\ Machines = 1 .. numdumps
  BY SomeMachines DEF FormattedOnly
<1>8. loaded = part - 1
  BY <1>2, <1>5, <1>7
<1>9. HasCounts(t.counts, from + num)
  <2>1. PICK base : base = [counts |-> wt, totals |-> tokens_per_topic]
    OBVIOUS
  <2>2. DOMAIN base = TableFields /\ base.counts = wt
    BY <2>1 DEF TableFields
  <2>3. HasCounts(base.counts, from)
    BY <1>5, <1>6, <1>8, <2>2
  <2>4. PartHas(part, from, num)
    BY <1>5, <1>6 DEF PartDumped
  <2>5. HasCounts(RecordsLoaded(part, base, s).counts, from + num)
    BY <1>1, <1>5, <2>2, <2>3, <2>4, PartLoaded
  <2> QED  BY <1>1, <2>1, <2>5
<1>10. TableLoaded'
  <2>1. numdumps' = numdumps
    BY <1>2 DEF numdumps, Machines
  <2>2. Upto(loaded)' = from + num
    <3>1. Upto(loaded)' = Upto(part)
      BY <1>2, <2>1 DEF Upto, num_words_per_client
    <3> QED  BY <1>6, <3>1
  <2>3. TesterKnows'
    BY <1>2, <1>5 DEF TesterKnows
  <2>4. HasCounts(wt, Upto(loaded))'
    BY <1>2, <1>9, <2>2 DEF HasCounts
  <2>5. loaded' \in 0 .. numdumps
          /\ IF pc' = "load" THEN loaded' < numdumps ELSE loaded' = numdumps
    BY <1>2, <1>7
  <2> QED  BY <2>1, <2>3, <2>4, <2>5 DEF TableLoaded
<1> QED  BY <1>4, <1>10 DEF LoadInv

LEMMA LoadInit ==
  ASSUME Init
  PROVE  LoadInv
BY DEF Init, LoadInv, LearntAll, ModelMade, AllDumped, TableLoaded, TestSpelt, StreamFitted

LEMMA LoadStep ==
  ASSUME ModelFilesAssumption, FilesInv, LoadInv, [Next]_vars
  PROVE  LoadInv'
<1>1. FormattedOnly
  BY DEF FilesInv
<1>2. ASSUME NEW m \in Machines, Format(m) PROVE LoadInv'
  <2>1. /\ pc = "format" /\ pc' = pc /\ corpus' = corpus /\ mode' = mode
        /\ counts' = counts /\ global_dict' = global_dict /\ dump' = dump
    BY <1>2, Zenon DEF Format, trainVars, modelFiles
  <2> QED  BY <2>1, StillLoaded
<1>3. CASE Learn
  BY <1>1, <1>3, LearnLoads
<1>4. CASE WriteStatistics
  <2>1. /\ pc = "learnt" /\ pc' = "written" /\ corpus' = corpus
        /\ mode' = mode /\ counts' = counts /\ global_dict' = global_dict /\ dump' = dump
    BY <1>4, Zenon DEF WriteStatistics, formatVars, modelFiles
  <2> QED  BY <2>1, StillLoaded
<1>5. CASE Save
  BY <1>1, <1>5, SaveLoads
<1>6. CASE Merge
  BY <1>1, <1>6, MergeLoads
<1>7. CASE GetCounts
  BY <1>1, <1>7, GetCountsLoads
<1>8. CASE FormatTest
  BY <1>1, <1>8, FormatTestLoads
<1>9. CASE InitDict
  BY <1>1, <1>9, InitDictLoads
<1>10. ASSUME NEW part \in Machines, Load(part) PROVE LoadInv'
  BY <1>1, <1>10, LoadLoads
<1>11. CASE UNCHANGED vars
  BY <1>11, StutterLoaded
<1>12. CASE Evaluate
  <2>1. /\ pc = "format" /\ pc' = pc /\ corpus' = corpus
        /\ mode' = mode /\ counts' = counts /\ global_dict' = global_dict /\ dump' = dump
    BY <1>12, Zenon DEF Evaluate, formatVars, modelFiles
  <2> QED  BY <2>1, StillLoaded
<1> QED  BY <1>2, <1>3, <1>4, <1>5, <1>6, <1>7, <1>8, <1>9, <1>10, <1>11, <1>12 DEF Next

\* With every part loaded, a word's counts are at its index in the tester's table.
LEMMA WordsLoaded ==
  ASSUME FormattedOnly, LoadInv, pc = "ready",
         NEW w \in DOMAIN local_dict.word_ind_map
  PROVE  wt[local_dict.word_ind_map[w]] = counts[w]
<1>1. numdumps \in Nat \ {0}
  BY SomeMachines DEF FormattedOnly
<1>2. TesterKnows /\ HasCounts(wt, num_words(global_dict))
  BY <1>1 DEF LoadInv, TableLoaded, Upto
<1>3. global_dict.word_ind_map[w] < num_words(global_dict)
  BY <1>2, KnownWords
<1> QED  BY <1>2, <1>3 DEF HasCounts

\* A dictionary of some words is one of just its own.
LEMMA SoundWords ==
  ASSUME NEW d, Sound(d)
  PROVE  IsDictionaryOf(d, [w \in DOMAIN d.word_ind_map |-> Freq(d, d.word_ind_map[w])])
<1>1. PICK f : IsDictionaryOf(d, f)
  BY DEF Sound
<1>2. PICK g : g = [w \in DOMAIN d.word_ind_map |-> Freq(d, d.word_ind_map[w])]
  OBVIOUS
<1>3. IsDictionaryOf(d, g)
  BY <1>1, <1>2 DEF IsDictionaryOf
<1> QED  BY <1>2, <1>3

\* The words of a document, by the table and by what was learnt.
CountsRead(body, words) ==
  [i \in DOMAIN body |-> wt[body[i]]] = [i \in DOMAIN words |-> counts[words[i]]]

LEMMA DocumentRead ==
  ASSUME FormattedOnly, LoadInv, pc = "ready",
         NEW body, NEW words, NEW R, words \in Seq(R), Written(body, words, local_dict)
  PROVE  CountsRead(body, words)
<1>1. body \in Seq(Nat) /\ Len(words) = Len(body)
  BY DEF Written
<1>2. DOMAIN words = DOMAIN body /\ DOMAIN body = 1 .. Len(body)
  BY <1>1
<1>3. ASSUME NEW i \in DOMAIN body PROVE wt[body[i]] = counts[words[i]]
  <2>1. words[i] \in DOMAIN local_dict.word_ind_map
          /\ body[i] = local_dict.word_ind_map[words[i]]
    BY <1>2, <1>3 DEF Written
  <2> QED  BY <2>1, WordsLoaded
<1> QED  BY <1>2, <1>3 DEF CountsRead

LEMMA LoadedLearnt ==
  ASSUME FormattedOnly, LoadInv
  PROVE  LoadedCountsAreTheLearnt
<1> SUFFICES ASSUME pc = "ready" PROVE LoadedCountsAreTheLearnt
  BY DEF LoadedCountsAreTheLearnt
<1>1. Sound(local_dict)
  BY DEF LoadInv, TableLoaded, TesterKnows
<1>2. IsDictionaryOf(local_dict, [w \in DOMAIN local_dict.word_ind_map |->
                                    Freq(local_dict, local_dict.word_ind_map[w])])
  BY <1>1, SoundWords
<1>3. \A w \in DOMAIN local_dict.word_ind_map :
        wt[local_dict.word_ind_map[w]] = counts[w]
  BY WordsLoaded
<1>4. PICK W : W = DOMAIN counts /\ W = CorpusWords
  BY DEF LoadInv, LearntAll
<1>5. PICK ls : ls = DocumentLines(TestCorpus, W)
  OBVIOUS
<1>6. ASSUME mode = "test"
      PROVE  /\ DOMAIN test_w = DOMAIN ls
             /\ \A n \in DOMAIN ls :
                  /\ ReadRecord(test_w, n, Clear).docid = ls[n].docid
                  /\ CountsRead(BodyOf(test_w, n), Counting(ls[n], W))
  <2>1. HasDocuments(Tested, ls, W)
    BY <1>4, <1>5, <1>6 DEF LoadInv, TestSpelt
  <2>2. PICK R, S : test_w \in Seq(R) /\ ls \in Seq(S)
    BY <2>1 DEF HasDocuments, Tested
  <2>3. Len(test_w) = Len(ls)
          /\ \A n \in 1 .. Len(ls) : HasDocument(test_w, n, ls[n], local_dict, W)
    BY <2>1 DEF HasDocuments, Tested
  <2>4. DOMAIN test_w = DOMAIN ls /\ DOMAIN ls = 1 .. Len(ls)
    BY <2>2, <2>3
  <2>5. ASSUME NEW n \in DOMAIN ls
        PROVE  /\ ReadRecord(test_w, n, Clear).docid = ls[n].docid
               /\ CountsRead(BodyOf(test_w, n), Counting(ls[n], W))
    <3>1. PICK body, words : body = BodyOf(test_w, n) /\ words = Counting(ls[n], W)
      OBVIOUS
    <3>2. /\ words \in Seq(W) /\ Written(body, words, local_dict)
          /\ ReadRecord(test_w, n, Clear).docid = ls[n].docid
      BY <2>3, <2>4, <3>1 DEF HasDocument
    <3>3. CountsRead(body, words)
      BY <3>2, DocumentRead
    <3> QED  BY <3>1, <3>2, <3>3
  <2> QED  BY <2>4, <2>5
<1>7. mode = "test" =>
        /\ DOMAIN test_w = DOMAIN ls
        /\ \A n \in DOMAIN ls :
             /\ ReadRecord(test_w, n, Clear).docid = ls[n].docid
             /\ [i \in DOMAIN BodyOf(test_w, n) |-> wt[BodyOf(test_w, n)[i]]]
                = [i \in DOMAIN Counting(ls[n], W) |-> counts[Counting(ls[n], W)[i]]]
  BY <1>6 DEF CountsRead
<1>8. mode = "test" =>
        LET lines == DocumentLines(TestCorpus, DOMAIN counts)
            words(n) == Counting(lines[n], DOMAIN counts) IN
        /\ DOMAIN test_w = DOMAIN lines
        /\ \A n \in DOMAIN lines :
             /\ ReadRecord(test_w, n, Clear).docid = lines[n].docid
             /\ [i \in DOMAIN BodyOf(test_w, n) |-> wt[BodyOf(test_w, n)[i]]]
                = [i \in DOMAIN words(n) |-> counts[words(n)[i]]]
  <2>1. DOMAIN counts = W /\ DocumentLines(TestCorpus, DOMAIN counts) = ls
    BY <1>4, <1>5
  <2> QED  BY <1>7, <2>1
<1> QED  BY <1>2, <1>3, <1>8, Zenon DEF LoadedCountsAreTheLearnt

\* A tester with the first k words of the dumps has k of them.
LEMMA FirstCounted ==
  ASSUME TesterKnows, NEW k \in 0 .. num_words(global_dict), FirstWords(k)
  PROVE  num_words(local_dict) = k
<1>1. PICK l, g \in Nat : l = num_words(local_dict) /\ g = num_words(global_dict)
  BY KnownWords
<1>2. k \in Nat /\ k <= g
  BY <1>1
<1>3. ASSUME NEW i \in Nat PROVE i < l <=> i < k
  <2>1. ASSUME i < l PROVE i < k
    <3>1. i \in 0 .. l - 1
      BY <1>1, <2>1
    <3>2. PICK w \in DOMAIN local_dict.word_ind_map : local_dict.word_ind_map[w] = i
      BY <1>1, <3>1, KnownWords
    <3> QED  BY <3>2 DEF FirstWords
  <2>2. ASSUME i < k PROVE i < l
    <3>1. i \in 0 .. g - 1
      BY <1>1, <1>2, <2>2
    <3>2. PICK w : w = global_dict.ind_word_map[i]
      OBVIOUS
    <3>3. global_dict.word_ind_map[w] = i
      BY <1>1, <3>1, <3>2, KnownWords
    <3>4. w \in DOMAIN global_dict.word_ind_map
      <4>1. PICK f : IsFiniteSet(DOMAIN f) /\ IsDictionaryOf(global_dict, f)
        BY DEF TesterKnows, Sound
      <4>2. PICK j \in Nat : IndexesAs(global_dict, f, j)
        BY <4>1, IndexParts
      <4>3. i \in 0 .. j - 1
        BY <1>1, <3>1, <4>2 DEF IndexesAs
      <4>4. PICK v \in DOMAIN f : global_dict.word_ind_map[v] = i
        BY <4>2, <4>3 DEF IndexesAs
      <4>5. v \in DOMAIN global_dict.word_ind_map /\ global_dict.ind_word_map[i] = v
        BY <4>2, <4>4 DEF IndexesAs
      <4> QED  BY <3>2, <4>5
    <3>5. w \in DOMAIN local_dict.word_ind_map /\ local_dict.word_ind_map[w] = i
      BY <2>2, <3>3, <3>4 DEF FirstWords
    <3>6. i \in 0 .. l - 1
      BY <1>1, <3>5, KnownWords
    <3> QED  BY <1>1, <3>6
  <2> QED  BY <2>1, <2>2
<1>4. ~(l < k) /\ ~(k < l)
  BY <1>1, <1>2, <1>3
<1> QED  BY <1>1, <1>2, <1>4

LEMMA StreamFit ==
  ASSUME ModelFilesAssumption, FormattedOnly, LoadInv
  PROVE  LoadedWordsFit
<1> SUFFICES ASSUME pc = "ready", mode = "stream", numdumps > 1 PROVE LoadedWordsFit
  BY DEF LoadedWordsFit
<1>1. TesterKnows /\ DOMAIN wt = 0 .. num_words(local_dict) - 1
  BY DEF LoadInv, TableLoaded, HasCounts
<1>2. PICK k \in 0 .. num_words(global_dict) : FirstFit(k) /\ FirstWords(k)
  BY DEF LoadInv, StreamFitted, FittingTaken
<1>3. PICK W \in Nat : W = num_words(global_dict) /\ k \in Nat /\ k <= W
  BY <1>1, <1>2, KnownWords
<1>4. num_words(local_dict) = k /\ DOMAIN wt = 0 .. k - 1
  BY <1>1, <1>2, FirstCounted
<1>5. PICK f, g : f = WordLengths /\ g = [i \in DOMAIN wt |-> Length(wt[i])]
  OBVIOUS
<1>6. ASSUME NEW i \in 1 .. W
      PROVE  f[i] = Length(counts[global_dict.ind_word_map[i - 1]]) /\ f[i] \in Nat
  BY <1>3, <1>5, LengthIsNat DEF WordLengths
<1>7. ASSUME NEW i \in 1 .. k PROVE f[i] \in Int /\ g[i - 1] = f[i]
  <2>1. i \in 1 .. W /\ i - 1 \in 0 .. k - 1 /\ i - 1 < k
    BY <1>3
  <2>2. PICK w : w = global_dict.ind_word_map[i - 1]
    OBVIOUS
  <2>3. f[i] = Length(counts[w]) /\ f[i] \in Nat /\ g[i - 1] = Length(wt[i - 1])
    BY <1>4, <1>5, <1>6, <2>1, <2>2
  <2>4. PICK v \in DOMAIN local_dict.word_ind_map : local_dict.word_ind_map[v] = i - 1
    BY <1>1, <1>4, <2>1, KnownWords
  <2>5. v = w
    <3>1. global_dict.word_ind_map[v] = i - 1
      BY <1>2, <2>4 DEF FirstWords
    <3> QED  BY <1>1, <2>2, <2>4, <3>1, KnownWords
  <2>6. wt[i - 1] = counts[w]
    BY <2>4, <2>5, WordsLoaded
  <2> QED  BY <2>3, <2>6
<1>8. SumFunction(g) = FirstUsed(k)
  <2>1. SumFunctionOnSet(g, 0 .. k - 1) = SumFunctionOnSet(f, 1 .. k)
    BY <1>3, <1>7, SumFromZero
  <2>2. DOMAIN g = 0 .. k - 1
    BY <1>4, <1>5
  <2> QED  BY <1>5, <2>1, <2>2 DEF SumFunction, FirstUsed
<1>9. DOMAIN wt # {} => FirstUsed(k) < MaxMemory
  <2>1. DOMAIN wt # {} => k > 0
    BY <1>3, <1>4
  <2> QED  BY <1>2, <2>1 DEF FirstFit
<1>10. ASSUME k < W
       PROVE  FirstUsed(k) + Length(counts[global_dict.ind_word_map[k]]) >= MaxMemory
  <2>1. PICK i \in 1 .. W : i = k + 1 /\ i - 1 = k
    BY <1>3, <1>10
  <2>2. f[i] = Length(counts[global_dict.ind_word_map[k]])
    BY <1>6, <2>1
  <2>3. FirstUsed(i) = FirstUsed(k) + f[i]
    <3>1. \A j \in 1 .. k + 1 : f[j] \in Nat
      BY <1>6, <2>1
    <3> QED  BY <1>3, <1>5, <2>1, <3>1, SumOneMore DEF FirstUsed
  <2>4. FirstUsed(k + 1) >= MaxMemory
    BY <1>2, <1>3, <1>10 DEF FirstFit
  <2> QED  BY <2>1, <2>2, <2>3, <2>4
<1>11. PICK used, next : used = SumFunction(g) /\ next = num_words(local_dict)
  OBVIOUS
<1>12. /\ DOMAIN wt # {} => used < MaxMemory
       /\ next < num_words(global_dict) =>
            used + Length(counts[global_dict.ind_word_map[next]]) >= MaxMemory
  BY <1>3, <1>4, <1>8, <1>9, <1>10, <1>11
<1> QED  BY <1>5, <1>11, <1>12, Zenon DEF LoadedWordsFit

-----------------------------------------------------------------------------
(***************************************************************************)
(* The dictionary the dumps are in the order of has every word of the      *)
(* corpus with its frequency over all machines, and a merged one is sorted *)
(* by them, for every corpus, number of machines, size of a file's records *)
(* and set of stop words, and in every order the hash maps and std::sort   *)
(* may leave things.                                                       *)
(***************************************************************************)
THEOREM GlobalDictionaryRight == Spec => []GlobalDictionaryIsRight
<1>1. Init => FilesInv
  BY FilesInit, ModelFilesAssumption
<1>2. FilesInv /\ [Next]_vars => FilesInv'
  BY FilesStep, ModelFilesAssumption
<1>3. FilesInv => GlobalDictionaryIsRight
  BY DEF FilesInv
<1> QED  BY <1>1, <1>2, <1>3, PTL DEF Spec

(***************************************************************************)
(* The words printed for a topic are those counted most often in it at the *)
(* last likelihood, as many as the list is long or the topic has, for      *)
(* every number of topics and length of the lists, whichever of several    *)
(* smallest entries GenericTopKList replaces, and with the entries without *)
(* a count that get_eval() pushes first.                                   *)
(***************************************************************************)
THEOREM TopWordsAreRanked == Spec => []TopWordsRank
<1>1. Init => FilesInv
  BY FilesInit, ModelFilesAssumption
<1>2. FilesInv /\ [Next]_vars => FilesInv'
  BY FilesStep, ModelFilesAssumption
<1>3. FilesInv => TopWordsRank
  BY WrittenRank, ModelFilesAssumption
<1> QED  BY <1>1, <1>2, <1>3, PTL DEF Spec

(***************************************************************************)
(* A model that is ready has for each of the tester's words the counts it  *)
(* was learnt with, and the documents to be tested name each of their      *)
(* words by the index of its counts (initialize_from_dump(), the formatter *)
(* with the global dictionary): for any corpora, machines and dumps.       *)
(***************************************************************************)
THEOREM LoadedAsLearnt == Spec => []LoadedCountsAreTheLearnt
<1> USE ModelFilesAssumption
<1>1. Init => FilesInv /\ LoadInv
  BY FilesInit, LoadInit
<1>2. FilesInv /\ LoadInv /\ [Next]_vars => (FilesInv /\ LoadInv)'
  BY FilesStep, LoadStep
<1>3. FilesInv /\ LoadInv => LoadedCountsAreTheLearnt
  BY LoadedLearnt DEF FilesInv
<1> QED  BY <1>1, <1>2, <1>3, PTL DEF Spec

(***************************************************************************)
(* The words a streaming learner takes of a model that several machines    *)
(* made have counts for less than the memory it was given, and with the    *)
(* next one they would not (estimate_fit(), the loop over the dumps in     *)
(* init_dict(), and the limit the dictionary is read to): for any number   *)
(* of machines, and whichever dump ends the loop.                          *)
(***************************************************************************)
THEOREM StreamFits == Spec => []LoadedWordsFit
<1> USE ModelFilesAssumption
<1>1. Init => FilesInv /\ LoadInv
  BY FilesInit, LoadInit
<1>2. FilesInv /\ LoadInv /\ [Next]_vars => (FilesInv /\ LoadInv)'
  BY FilesStep, LoadStep
<1>3. FilesInv /\ LoadInv => LoadedWordsFit
  BY StreamFit DEF FilesInv
<1> QED  BY <1>1, <1>2, <1>3, PTL DEF Spec
=============================================================================
