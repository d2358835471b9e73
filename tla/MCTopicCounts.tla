--------------------------- MODULE MCTopicCounts ---------------------------
(***************************************************************************)
(* Four topics and blocks of one item, the smallest with a table that is   *)
(* compacted: four items of five allocated, then three.                    *)
(***************************************************************************)
EXTENDS TopicCounts, TLC

Symmetric == Permutations(Topics)
=============================================================================
