------------------------------ MODULE Documents ------------------------------
(***************************************************************************)
(* The documents of a corpus: protobuf's unigram_document (document.proto, *)
(* document.pb.cc), and files of them, one record after the other          *)
(* (DocumentReader, DocumentWriter).  A document is a function of its      *)
(* fields.  Its docid is a number here, and 0 while it is not set; a       *)
(* record has the fields that are set.                                     *)
(***************************************************************************)
EXTENDS Integers, Sequences

Fields == {"docid", "body", "topic_assignment"}

Clear == [f \in Fields |-> IF f = "docid" THEN 0 ELSE <<>>]

SerializeToString(doc) ==
  [f \in {g \in Fields : doc[g] # Clear[g]} |-> doc[f]]

\* What is read replaces a string, and is appended to a repeated field.
MergePartialFromCodedStream(doc, record) ==
  [f \in Fields |-> IF f \notin DOMAIN record THEN doc[f]
                    ELSE IF f = "docid" THEN record[f] ELSE doc[f] \o record[f]]

MergeFrom(doc, from) ==
  [f \in Fields |-> IF f # "docid" THEN doc[f] \o from[f]
                    ELSE IF from[f] # 0 THEN from[f] ELSE doc[f]]

\* read() of the n-th record of a file into a document; past the end of the
\* file it leaves the document as it is.
ReadRecord(file, n, doc) ==
  IF n \in DOMAIN file THEN MergePartialFromCodedStream(Clear, file[n]) ELSE doc
=============================================================================
