----------------------------- MODULE CountTable -----------------------------
(***************************************************************************)
(* The values of the distributed table: partial functions from words to    *)
(* counts, and what the server's operations do to them.  A value is one    *)
(* topic's count of the word; the code keeps the counts of all topics of   *)
(* the word in one string and combines them topic by topic, so that each   *)
(* topic evolves like the one modelled.                                    *)
(***************************************************************************)
EXTENDS Integers

\* operator[] of the hash map creates an absent key with no counts.
CountsOf(t, w) == IF w \in DOMAIN t THEN t[w] ELSE 0

Stored(t, w, v) == [x \in DOMAIN t \cup {w} |-> IF x = w THEN v ELSE t[x]]

\* upd_counts: Unigram_Model_Server_Helper::combine adds delta to the entry.
Accumulated(t, w, delta) == Stored(t, w, CountsOf(t, w) + delta)

Forgotten(t, w) == [x \in DOMAIN t \ {w} |-> t[x]]
=============================================================================
