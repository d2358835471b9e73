--------------------------- MODULE DistributedMap ---------------------------
(***************************************************************************)
(* What the interface commons/Server/DistributedMap.ice promises its       *)
(* clients, whatever the server does inside. The map associates words with *)
(* accumulated counts. put accumulates, set replaces, remove forgets, and  *)
(* putNget "puts a value for the given key and returns the result of the   *)
(* accumulate operation": it is combined exactly once, in one step, and    *)
(* its answer is the value of the entry right after that very step. Calls  *)
(* in progress are combined and answered in any order.                     *)
(***************************************************************************)
EXTENDS CountTable

CONSTANTS Words,    \* keys of the map
          Vals,     \* the deltas and counts clients send
          Calls     \* putNget calls: records with at least a word and a val

VARIABLES table,    \* the entries present: a function from a subset of Words
          pending,  \* calls invoked and not combined yet
          answers   \* answers computed and not received yet

mapVars == <<table, pending, answers>>

Answer == [call : Calls, counts : Int]

MapTypeOK ==
  /\ DOMAIN table \subseteq Words
  /\ \A w \in DOMAIN table : table[w] \in Int
  /\ pending \subseteq Calls
  /\ answers \subseteq Answer

-----------------------------------------------------------------------------
MapInit ==
  /\ table = [w \in {} |-> 0]
  /\ pending = {}
  /\ answers = {}

Put(w, delta) ==
  /\ table' = Accumulated(table, w, delta)
  /\ UNCHANGED <<pending, answers>>

Set(w, counts) ==
  /\ table' = Stored(table, w, counts)
  /\ UNCHANGED <<pending, answers>>

Remove(w) ==
  /\ table' = Forgotten(table, w)
  /\ UNCHANGED <<pending, answers>>

Invoke(c) ==
  /\ c \notin pending
  /\ \A a \in answers : a.call # c
  /\ pending' = pending \cup {c}
  /\ UNCHANGED <<table, answers>>

Combine(c) ==
  /\ c \in pending
  /\ pending' = pending \ {c}
  /\ table' = Accumulated(table, c.word, c.val)
  /\ answers' = answers \cup {[call |-> c, counts |-> table'[c.word]]}

Receive(a) ==
  /\ a \in answers
  /\ answers' = answers \ {a}
  /\ UNCHANGED <<table, pending>>

MapNext ==
  \/ \E w \in Words, v \in Vals : Put(w, v) \/ Set(w, v)
  \/ \E w \in Words : Remove(w)
  \/ \E c \in Calls : Invoke(c) \/ Combine(c)
  \/ \E a \in answers : Receive(a)

MapSpec == MapInit /\ [][MapNext]_mapVars
=============================================================================
