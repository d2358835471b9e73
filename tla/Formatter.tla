----------------------------- MODULE Formatter -----------------------------
(***************************************************************************)
(* The formatter (Unigram_Train_Data_Formatter, and the test formatter and *)
(* the streamer by the words they know): it makes a document of every line *)
(* of the corpus, with the dictionary's indexes for the words, and the     *)
(* dictionary.  A line is its docid, its words, and whether a newline ends *)
(* it.                                                                     *)
(***************************************************************************)
EXTENDS Documents, WordIndexDictionary

CONSTANT Stopwords

\* insert_word_to_dict() and add_body() of a word that is no stop word and not
\* unknown to the model's dictionary, if there is one.
AddWord(f, word, unknown) ==
  IF word \in Stopwords \cup unknown THEN f
  ELSE LET dict == insert_word(f.dict, word) IN
       [dict |-> dict,
        wdoc |-> [f.wdoc EXCEPT !.body = Append(@, dict.word_ind_map[word])]]

read_from_inp(dict, line, unknown) ==
  FoldLeft(LAMBDA f, word : AddWord(f, word, unknown),
           [dict |-> dict, wdoc |-> [Clear EXCEPT !.docid = line.docid]], line.words)

\* The documents without words are not written, and a line that ends with the
\* file is not read: getline() has met the end there.
AddLine(out, line, unknown) ==
  LET f == read_from_inp(out.dict, line, unknown) IN
  IF ~line.newline THEN out
  ELSE [dict     |-> f.dict,
        output_w |-> IF f.wdoc.body = <<>> THEN out.output_w
                     ELSE Append(out.output_w, SerializeToString(f.wdoc))]

format(lines, unknown) ==
  FoldLeft(LAMBDA out, line : AddLine(out, line, unknown),
           [dict |-> Empty, output_w |-> <<>>], lines)

BodyOf(file, n) == ReadRecord(file, n, Clear).body
=============================================================================
