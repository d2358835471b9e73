----------------------------- MODULE TopicCounts -----------------------------
(***************************************************************************)
(* The packed array of (topic, count) pairs of one word                    *)
(* (Unigram_Model/TopicLearner/TopicCounts.cpp) under the updates of       *)
(* TypeTopicCounts: the updater's upd_count(word, old, new), the           *)
(* synchronizer's upd_count(word, delta) and the counting of documents     *)
(* during initialization, each under the word's lock.                      *)
(*                                                                         *)
(* "This is always sorted in descending order and only has non-zero        *)
(* entries.  Methods do not check for uniqueness but assume uniqueness"    *)
(* (TopicCounts.h:58).  The array is reallocated as it grows and shrinks,  *)
(* which leaves pointers into it dangling; upd_count(word, old, new) holds *)
(* one across a decrement that moves entries and may reallocate.           *)
(*                                                                         *)
(* Indices count from 1.  A table tc is a record: its first length items,  *)
(* origLength, and the allocation its items live in, of which only the     *)
(* change from one to the next matters.                                    *)
(***************************************************************************)
EXTENDS Integers, Sequences, FiniteSets

CONSTANTS Topics,
          INIT_TC_SIZE,   \* types.h: 8
          SUBSEQ_ALLOCS,  \* types.h: 4
          NULL,           \* the null pointer
          NoJob,          \* no upd_count(word, old, new) in progress
          MaxCount        \* bound on the tokens of the word with one topic

\* "Usually SUBSEQ_ALLOCS should be set to half of INIT_TC_SIZE"
\* (TopicCounts.cpp:217): were it larger, compact() would cut off items.
ASSUME TopicCountsAssumption ==
  /\ IsFiniteSet(Topics)
  /\ INIT_TC_SIZE \in Nat \ {0}
  /\ SUBSEQ_ALLOCS \in 1..INIT_TC_SIZE
  /\ MaxCount \in Nat
  /\ NULL \notin [alloc : {0, 1}, index : Nat]

VARIABLES
  tc,      \* wt[word]
  tokens,  \* tokens_per_topic, the share of this word
  job      \* upd_count(word, old, new) after its decrement: new and newTop

vars == <<tc, tokens, job>>

Item(t, n) == [top |-> t, cnt |-> n]

ItemsOf(q) == {q[i] : i \in 1..Len(q)}

\* get_counts(topic)
CountOf(q, t) ==
  IF \E i \in 1..Len(q) : q[i].top = t
    THEN q[CHOOSE i \in 1..Len(q) : q[i].top = t].cnt
    ELSE 0

\* The orders std::sort with cnt_cmp_ttc may leave: equal counts in any order.
Sorted(q) == \A i, j \in 1..Len(q) : i < j => q[i].cnt >= q[j].cnt

Sortings(S) == {q \in [1..Cardinality(S) -> S] : ItemsOf(q) = S /\ Sorted(q)}

-----------------------------------------------------------------------------
\* setLength: room for n items, block aligned.
AlignedLength(n) ==
  IF n < INIT_TC_SIZE
    THEN INIT_TC_SIZE
    ELSE INIT_TC_SIZE + ((n - INIT_TC_SIZE) \div SUBSEQ_ALLOCS + 1) * SUBSEQ_ALLOCS

\* assign and init, from a sequence of items.
Assigned(q) == [items |-> q, origLength |-> AlignedLength(Len(q)), alloc |-> 0]

\* The default constructor allocates nothing.
Unallocated == [items |-> <<>>, origLength |-> 0, alloc |-> 0]

Reallocated(r, size) == [r EXCEPT !.origLength = size, !.alloc = 1 - @]

AddNewTop(r, t, n) ==
  LET grown == IF Len(r.items) < r.origLength
                 THEN r
                 ELSE Reallocated(r, r.origLength + SUBSEQ_ALLOCS)
  IN [grown EXCEPT !.items = Append(@, Item(t, n))]

AddNewTopAftChk(r, t, n) ==
  IF r.origLength = 0
    THEN [Reallocated(r, INIT_TC_SIZE) EXCEPT !.items = <<Item(t, n)>>]
    ELSE AddNewTop(r, t, n)

Compact(r) ==
  IF /\ Len(r.items) > INIT_TC_SIZE + SUBSEQ_ALLOCS
     /\ r.origLength - Len(r.items) > INIT_TC_SIZE
    THEN Reallocated(r, r.origLength - SUBSEQ_ALLOCS)
    ELSE r

Swapped(q, i, j) == [q EXCEPT ![i] = q[j], ![j] = q[i]]

\* Item i goes to src, with the count n, and the item there takes its place.
MovedTo(q, i, src, n) == [q EXCEPT ![i] = q[src], ![src] = Item(q[i].top, n)]

\* The last item takes the place of item i.
WithoutItem(q, i) == SubSeq(Swapped(q, i, Len(q)), 1, Len(q) - 1)

RemoveOldTop(r, i) == Compact([r EXCEPT !.items = WithoutItem(r.items, i)])

\* The first index from i to j whose count is not above n, or else j + 1.
FirstAtMost(q, i, j, n) ==
  CHOOSE k \in i..j + 1 :
    /\ k = j + 1 \/ q[k].cnt <= n
    /\ \A l \in i..k - 1 : q[l].cnt > n

-----------------------------------------------------------------------------
(***************************************************************************)
(* Pointers into the array: the allocation they were made in and an index. *)
(***************************************************************************)
PointerTo(r, i) == [alloc |-> r.alloc, index |-> i]

FindTop(r, t) ==
  IF \E i \in 1..Len(r.items) : r.items[i].top = t
    THEN PointerTo(r, CHOOSE i \in 1..Len(r.items) : r.items[i].top = t)
    ELSE NULL

\* Fault: newTop still points at the end when the last item moves to i.
DecrementRemovesLast(r, i, newTop) ==
  LET after == RemoveOldTop(r, i)
  IN [tc |-> after,
      newTop |-> IF newTop # NULL /\ newTop.index <= Len(after.items)
                   THEN PointerTo(after, newTop.index) ELSE NULL]

(***************************************************************************)
(* decrement(ind, &newTop): the table after it, and newTop.                *)
(***************************************************************************)
DecrementRemoves(r, i, newTop) ==
  LET length == Len(r.items)
      at == IF newTop = NULL THEN length + 1 ELSE newTop.index
      newInd == IF at = length THEN i ELSE at
      after == RemoveOldTop(r, i)
  IN [tc |-> after,
      newTop |-> IF newInd <= Len(after.items) THEN PointerTo(after, newInd) ELSE NULL]

DecrementMoves(r, i, newTop) ==
  LET n == r.items[i].cnt - 1
      src == FirstAtMost(r.items, i + 1, Len(r.items), n) - 1
  IN [tc |-> [r EXCEPT !.items = MovedTo(@, i, src, n)],
      newTop |-> IF newTop # NULL /\ newTop.index = src THEN PointerTo(r, i) ELSE newTop]

DecrementInPlace(r, i, newTop) ==
  LET n == r.items[i].cnt - 1
  IN [tc |-> [r EXCEPT !.items = [@ EXCEPT ![i].cnt = n]], newTop |-> newTop]

Decrement(r, i, newTop) ==
  IF r.items[i].cnt = 1
    THEN DecrementRemoves(r, i, newTop)
  ELSE IF i < Len(r.items) /\ r.items[i].cnt - 1 < r.items[i + 1].cnt
    THEN DecrementMoves(r, i, newTop)
  ELSE DecrementInPlace(r, i, newTop)

\* Fault: the item stays where it is.
IncrementInPlace(r, i) == [r EXCEPT !.items[i].cnt = @ + 1]

Increment(r, i) ==
  LET n == r.items[i].cnt + 1
      src == FirstAtMost(r.items, 1, i - 1, n - 1)
  IN [r EXCEPT !.items = IF i > 1 /\ n > r.items[i - 1].cnt
                           THEN MovedTo(@, i, src, n) ELSE [@ EXCEPT ![i].cnt = n]]

-----------------------------------------------------------------------------
\* Fault: the item swapped in for a removed one is skipped.
UpdateItemSkips(s) ==
  LET item == s.items[s.ind]
      n == item.cnt + s.delta[item.top]
      rest == [t \in DOMAIN s.delta \ {item.top} |-> s.delta[t]]
  IN IF s.ind > Len(s.items)
       THEN s
     ELSE IF item.top \notin DOMAIN s.delta
       THEN [s EXCEPT !.ind = @ + 1]
     ELSE IF n = 0
       THEN [s EXCEPT !.items = WithoutItem(s.items, s.ind), !.ind = @ + 1, !.delta = rest]
     ELSE [s EXCEPT !.items[s.ind].cnt = n, !.ind = @ + 1, !.delta = rest]

(***************************************************************************)
(* upd_count(delta): one iteration of its loop, at item s.ind.  An item    *)
(* whose count becomes 0 is swapped with the last one, which the next      *)
(* iteration looks at; so there are as many iterations as items.           *)
(***************************************************************************)
UpdateItem(s) ==
  LET item == s.items[s.ind]
      n == item.cnt + s.delta[item.top]
      rest == [t \in DOMAIN s.delta \ {item.top} |-> s.delta[t]]
  IN IF item.top \notin DOMAIN s.delta
       THEN [s EXCEPT !.ind = @ + 1]
     ELSE IF n = 0
       THEN [s EXCEPT !.items = WithoutItem(@, s.ind), !.delta = rest]
     ELSE [items |-> [s.items EXCEPT ![s.ind].cnt = n], delta |-> rest, ind |-> s.ind + 1]

UpdateItems(q, delta) ==
  LET loop[n \in 0..Len(q)] ==
        IF n = 0 THEN [items |-> q, delta |-> delta, ind |-> 1]
                 ELSE UpdateItem(loop[n - 1])
  IN loop[Len(q)]

\* What is left of the delta is added; each addNewTop may reallocate.
AddAll(r, delta) ==
  LET added == {Item(t, delta[t]) : t \in DOMAIN delta}
      missing == Len(r.items) + Cardinality(added) - r.origLength
      blocks == IF missing <= 0 THEN 0
                ELSE (missing + SUBSEQ_ALLOCS - 1) \div SUBSEQ_ALLOCS
      grown == IF blocks = 0 THEN r
               ELSE Reallocated(r, r.origLength + blocks * SUBSEQ_ALLOCS)
  IN {[grown EXCEPT !.items = q] :
        q \in Sortings(ItemsOf(r.items) \cup added)}

UpdCountDelta(r, delta) ==
  LET s == UpdateItems(r.items, delta)
  IN AddAll([r EXCEPT !.items = s.items], s.delta)

-----------------------------------------------------------------------------
(***************************************************************************)
(* The tables TypeTopicCounts starts from: unallocated, or filled by       *)
(* initialize_from_ttc, _from_string or _from_dump with sorted counts.     *)
(***************************************************************************)
Init ==
  /\ \E f \in [Topics -> 0..MaxCount] :
       LET S == {Item(t, f[t]) : t \in {u \in Topics : f[u] > 0}}
       IN /\ tc \in {Assigned(q) : q \in Sortings(S)}
                      \cup (IF S = {} THEN {Unallocated} ELSE {})
          /\ tokens = f
  /\ job = NoJob

\* initialize_from_docs, and upd_count with ignore_old_topic.
AddToken(new) ==
  LET newTop == FindTop(tc, new)
  IN /\ job = NoJob
     /\ tokens[new] < MaxCount
     /\ tc' = IF newTop # NULL THEN Increment(tc, newTop.index)
                               ELSE AddNewTopAftChk(tc, new, 1)
     /\ tokens' = [tokens EXCEPT ![new] = @ + 1]
     /\ UNCHANGED job

(***************************************************************************)
(* upd_count(word, old, new), in two halves under one lock; n(t), which    *)
(* has no lock, changes after each half.  The updater only takes topics    *)
(* the word has (GlobalSync!OldTopicFound).                                *)
(***************************************************************************)
TakeOld(old, new) ==
  LET oldTop == FindTop(tc, old)
      done == Decrement(tc, oldTop.index, FindTop(tc, new))
  IN /\ job = NoJob
     /\ old # new
     /\ tokens[new] < MaxCount
     /\ oldTop # NULL
     /\ tc' = done.tc
     /\ tokens' = [tokens EXCEPT ![old] = @ - 1]
     /\ job' = [new |-> new, newTop |-> done.newTop]

GiveNew ==
  /\ job # NoJob
  /\ tc' = IF job.newTop = NULL THEN AddNewTop(tc, job.new, 1)
                                ELSE Increment(tc, job.newTop.index)
  /\ tokens' = [tokens EXCEPT ![job.new] = @ + 1]
  /\ job' = NoJob

\* upd_count(word, delta): the counts of f come from the global table.
Synchronize(f) ==
  LET delta == [t \in {u \in Topics : f[u] # tokens[u]} |-> f[t] - tokens[t]]
  IN /\ job = NoJob
     /\ tc' \in UpdCountDelta(tc, delta)
     /\ tokens' = [t \in Topics |->
                     IF t \in DOMAIN delta THEN tokens[t] + delta[t] ELSE tokens[t]]
     /\ UNCHANGED job

Next ==
  \/ \E new \in Topics : AddToken(new)
  \/ \E old, new \in Topics : TakeOld(old, new)
  \/ GiveNew
  \/ \E f \in [Topics -> 0..MaxCount] : Synchronize(f)

Spec == Init /\ [][Next]_vars

-----------------------------------------------------------------------------
(***************************************************************************)
(* The array is sorted by descending count, its counts are positive, each  *)
(* topic occurs once, and it fits its allocation: what every search, swap  *)
(* and append of the code takes for granted (TopicCounts.h:58).            *)
(***************************************************************************)
WellFormed ==
  /\ Sorted(tc.items)
  /\ \A i \in 1..Len(tc.items) : tc.items[i].cnt > 0
  /\ \A i, j \in 1..Len(tc.items) : i # j => tc.items[i].top # tc.items[j].top
  /\ Len(tc.items) <= tc.origLength

(***************************************************************************)
(* Between the two halves of upd_count, newTop is null exactly when the    *)
(* array has no entry for the new topic; otherwise it points into the      *)
(* present allocation, at that entry: whatever the decrement swapped,      *)
(* removed or compacted, the increment hits the right counter.             *)
(***************************************************************************)
NewTopFollows == job # NoJob => job.newTop = FindTop(tc, job.new)

(***************************************************************************)
(* validate(): the counts of the array are those of tokens_per_topic, in   *)
(* the middle of an update too.                                            *)
(***************************************************************************)
CountsValidate == \A t \in Topics : CountOf(tc.items, t) = tokens[t]
=============================================================================
