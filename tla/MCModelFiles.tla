---------------------------- MODULE MCModelFiles ----------------------------
(***************************************************************************)
(* Corpora of one, two and three machines whose words overlap, with equal  *)
(* frequencies and numbers of words that the machines do not divide; lines *)
(* with stop words, without other words, and one that the file ends.       *)
(***************************************************************************)
EXTENDS ModelFiles

CONSTANTS a, b, c, d, x, the

Line(docid, words) == [docid |-> docid, words |-> words, newline |-> TRUE]

MCCorpora ==
  {<<<<Line(1, <<the, a, a, c>>), Line(2, <<the>>), Line(3, <<c, b, b, the, b>>)>>>>,
   <<<<Line(1, <<a, b>>)>>, <<Line(2, <<c, b>>),
     [docid |-> 3, words |-> <<d, a>>, newline |-> FALSE]>>>>,
   <<<<Line(1, <<a, the>>)>>, <<Line(2, <<b, a>>)>>, <<Line(3, <<c, b, d>>)>>>>}
MCTestCorpus ==
  <<Line(4, <<x>>), Line(5, <<c, x, the, b>>), Line(6, <<b, c>>)>>
MCModes == {"test", "stream"}
=============================================================================
