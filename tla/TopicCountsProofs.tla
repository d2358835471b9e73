------------------------- MODULE TopicCountsProofs -------------------------
(***************************************************************************)
(* Theorems of TopicCounts for any finite set of topics and any sizes of   *)
(* the blocks: the array is sorted and fits, its counts are those of the   *)
(* word's tokens, and the pointer upd_count holds across a decrement       *)
(* points at its topic.                                                    *)
(*                                                                         *)
(* Holds(q, f) says that the array q is a table of the counts f: sorted,   *)
(* each topic once, with its count, and no other.  TopicCountsInv, that    *)
(* the array holds tokens and fits its allocation and that the pointer of  *)
(* an update under way is the one a search would find, is inductive.  The  *)
(* lemmas say of each operation which counts its result holds:             *)
(*   - an item given another count may only go where the items before it   *)
(*     have at least that count and those after it at most that (Fits);    *)
(*     increment and decrement find such a place in the run of equal       *)
(*     counts the item is in (FirstAtMostIs, IncrementFits, DecrementFits);*)
(*   - an item that is removed has count 1, the least there is, so the     *)
(*     last one, which takes its place, has count 1 too (WithoutHolds);    *)
(*   - the loop of upd_count(delta) has LoopedAs as its invariant: the     *)
(*     items before ind have the new counts, the others the old ones, and  *)
(*     the delta still has what later items and additions need.            *)
(***************************************************************************)
EXTENDS TopicCounts, SumTheorems

\* The types of an array's items and of the tables.
Items == [top : Topics, cnt : Nat]
Tables == [items : Seq(Items), origLength : Nat, alloc : {0, 1}]

\* "Methods do not check for uniqueness but assume uniqueness."
UniqueTops(q) == \A i, j \in 1..Len(q) : q[i].top = q[j].top => i = j

\* The array q holds the counts f.
Holds(q, f) ==
  /\ q \in Seq(Items) /\ Sorted(q) /\ UniqueTops(q)
  /\ \A i \in 1..Len(q) : q[i].cnt = f[q[i].top] /\ q[i].cnt > 0
  /\ \A t \in Topics : f[t] > 0 => \E i \in 1..Len(q) : q[i].top = t

LEMMA ItemsAre ==
  ASSUME NEW q \in Seq(Items)
  PROVE  /\ Len(q) \in Nat /\ DOMAIN q = 1..Len(q)
         /\ \A i \in 1..Len(q) : q[i] \in Items /\ q[i].top \in Topics /\ q[i].cnt \in Nat
<1>1. \A i \in 1..Len(q) : q[i] \in Items
  OBVIOUS
<1> QED  BY <1>1 DEF Items

LEMMA ItemIs ==
  ASSUME NEW t \in Topics, NEW n \in Nat
  PROVE  Item(t, n) \in Items /\ Item(t, n).top = t /\ Item(t, n).cnt = n
BY DEF Item, Items

\* Where a topic is.
LEMMA FoundAt ==
  ASSUME NEW r, NEW f, Holds(r.items, f), NEW i \in 1..Len(r.items)
  PROVE  FindTop(r, r.items[i].top) = PointerTo(r, i)
<1>1. i = CHOOSE j \in 1..Len(r.items) : r.items[j].top = r.items[i].top
  BY DEF Holds, UniqueTops
<1> QED  BY <1>1, Zenon DEF FindTop

LEMMA Found ==
  ASSUME NEW r, NEW f \in [Topics -> Nat], Holds(r.items, f), NEW t \in Topics
  PROVE  /\ f[t] = 0 => FindTop(r, t) = NULL
         /\ f[t] > 0 => \E i \in 1..Len(r.items) :
                          r.items[i].top = t /\ FindTop(r, t) = PointerTo(r, i)
<1>1. ASSUME f[t] = 0 PROVE ~\E i \in 1..Len(r.items) : r.items[i].top = t
  <2> SUFFICES ASSUME NEW i \in 1..Len(r.items), r.items[i].top = t PROVE FALSE
    OBVIOUS
  <2>1. r.items[i].cnt = f[t] /\ r.items[i].cnt > 0
    BY DEF Holds
  <2> QED  BY <1>1, <2>1
<1>2. ASSUME f[t] > 0
      PROVE  \E i \in 1..Len(r.items) :
               r.items[i].top = t /\ FindTop(r, t) = PointerTo(r, i)
  BY <1>2, FoundAt DEF Holds
<1>3. f[t] = 0 => FindTop(r, t) = NULL
  BY <1>1 DEF FindTop
<1> QED  BY <1>2, <1>3

LEMMA CountIs ==
  ASSUME NEW q, NEW f \in [Topics -> Nat], Holds(q, f), NEW t \in Topics
  PROVE  CountOf(q, t) = f[t]
<1>1. CASE f[t] > 0
  <2>1. PICK i \in 1..Len(q) : q[i].top = t
    BY <1>1 DEF Holds
  <2>2. i = CHOOSE j \in 1..Len(q) : q[j].top = t
    BY <2>1 DEF Holds, UniqueTops
  <2>3. q[i].cnt = f[t]
    BY <2>1 DEF Holds
  <2> QED  BY <2>1, <2>2, <2>3 DEF CountOf
<1>2. CASE ~(f[t] > 0)
  <2>1. ASSUME NEW i \in 1..Len(q), q[i].top = t PROVE FALSE
    <3>1. q[i].cnt = f[t] /\ q[i].cnt > 0
      BY <2>1 DEF Holds
    <3> QED  BY <1>2, <3>1
  <2>2. f[t] = 0
    BY <1>2
  <2>3. CountOf(q, t) = 0
    BY <2>1 DEF CountOf
  <2> QED  BY <2>2, <2>3
<1> QED  BY <1>1, <1>2

-----------------------------------------------------------------------------
\* The least of a set of numbers.
LEMMA LeastOf ==
  ASSUME NEW T, T \subseteq Nat, T # {}
  PROVE  \E m \in T : \A k \in T : m <= k
<1> DEFINE R == OpToRel(<, Nat)
<1>1. IsWellFoundedOn(R, Nat)
  BY NatLessThanWellFounded
<1>2. PICK m \in T : \A k \in T : <<k, m>> \notin R
  <2> HIDE DEF R
  <2> QED  BY <1>1, WFMin
<1>3. \A k \in T : ~(k < m)
  BY <1>2 DEF OpToRel
<1> QED  BY <1>3

\* k is the first index from i to j whose count is not above n, or j + 1.
IsFirst(q, i, j, n, k) ==
  /\ k \in i..j + 1 /\ (k = j + 1 \/ q[k].cnt <= n)
  /\ \A l \in i..k - 1 : q[l].cnt > n

LEMMA FirstAtMostIs ==
  ASSUME NEW q \in Seq(Items), NEW i \in Nat, NEW j \in Nat, i <= j + 1,
         1 <= i, j <= Len(q), NEW n \in Int
  PROVE  IsFirst(q, i, j, n, FirstAtMost(q, i, j, n))
<1> DEFINE T == {k \in i..j + 1 : k = j + 1 \/ q[k].cnt <= n}
<1>1. T \subseteq Nat /\ j + 1 \in T
  OBVIOUS
<1>2. PICK m \in T : \A k \in T : m <= k
  BY <1>1, LeastOf
<1>3. \A l \in i..m - 1 : q[l].cnt > n
  <2> SUFFICES ASSUME NEW l \in i..m - 1 PROVE q[l].cnt > n
    OBVIOUS
  <2>1. m \in i..j + 1
    BY <1>2
  <2>2. l \in 1..Len(q) /\ l \in i..j + 1 /\ l # j + 1 /\ l < m
    BY <2>1
  <2>3. l \notin T
    BY <1>2, <2>2
  <2>4. ~(q[l].cnt <= n) /\ q[l].cnt \in Nat
    BY <2>2, <2>3, ItemsAre
  <2> QED  BY <2>4
<1>4. \E k \in i..j + 1 :
         /\ k = j + 1 \/ q[k].cnt <= n
         /\ \A l \in i..k - 1 : q[l].cnt > n
  BY <1>2, <1>3
<1> QED  BY <1>4, Zenon DEF FirstAtMost, IsFirst

-----------------------------------------------------------------------------
\* An item gets the count n and changes places with src.
Exchanged(q, p, i, src, n) ==
  /\ p \in Seq(Items) /\ Len(p) = Len(q)
  /\ p[src] = Item(q[i].top, n)
  /\ i # src => p[i] = q[src]
  /\ \A k \in 1..Len(q) \ {i, src} : p[k] = q[k]

\* The counts f with n for the topic t.
Put(f, t, n) == [f EXCEPT ![t] = n]

LEMMA PutIs ==
  ASSUME NEW f \in [Topics -> Nat], NEW t \in Topics, NEW n \in Nat
  PROVE  /\ Put(f, t, n) \in [Topics -> Nat] /\ Put(f, t, n)[t] = n
         /\ \A u \in Topics \ {t} : Put(f, t, n)[u] = f[u]
BY DEF Put

\* The place src is one of the counts equal to item i's where n keeps the order.
Fits(q, i, src, n) ==
  /\ i \in 1..Len(q) /\ src \in 1..Len(q) /\ n \in Nat \ {0}
  /\ q[src].cnt = q[i].cnt
  /\ \A l \in 1..Len(q) : /\ l < src => q[l].cnt >= n
                          /\ l > src => q[l].cnt <= n

LEMMA ExchangeHolds ==
  ASSUME NEW q, NEW f \in [Topics -> Nat], Holds(q, f), NEW p, NEW i, NEW src, NEW n,
         Exchanged(q, p, i, src, n), Fits(q, i, src, n)
  PROVE  Holds(p, Put(f, q[i].top, n))
<1> DEFINE g == [f EXCEPT ![q[i].top] = n]
<1>0. /\ i \in 1..Len(q) /\ src \in 1..Len(q) /\ n \in Nat \ {0}
      /\ q[src].cnt = q[i].cnt
      /\ \A l \in 1..Len(q) : /\ l < src => q[l].cnt >= n
                              /\ l > src => q[l].cnt <= n
  BY DEF Fits
<1>1. q \in Seq(Items) /\ Len(q) \in Nat
  BY DEF Holds
<1>2. /\ \A k \in 1..Len(q) : q[k].top \in Topics /\ q[k].cnt \in Nat
      /\ p[src].top = q[i].top /\ p[src].cnt = n
  BY <1>0, <1>1, ItemsAre, ItemIs DEF Exchanged
<1>3. \A k \in 1..Len(q) \ {src} : p[k].cnt = q[k].cnt
  BY <1>0 DEF Exchanged
<1> DEFINE from(k) == IF k = src THEN i ELSE IF k = i THEN src ELSE k
<1>4. \A k \in 1..Len(q) : from(k) \in 1..Len(q) /\ p[k].top = q[from(k)].top
  BY <1>0, <1>2 DEF Exchanged
<1>5. \A k, l \in 1..Len(q) : from(k) = from(l) => k = l
  BY <1>0
<1>6. \A k \in 1..Len(q) : from(from(k)) = k
  BY <1>0
<1> HIDE DEF from
<1>7. p \in Seq(Items) /\ Len(p) = Len(q)
  BY DEF Exchanged
<1>8. Sorted(p)
  <2> SUFFICES ASSUME NEW a \in 1..Len(q), NEW b \in 1..Len(q), a < b
               PROVE  p[a].cnt >= p[b].cnt
    BY <1>7 DEF Sorted
  <2>1. q[a].cnt >= q[b].cnt
    BY DEF Holds, Sorted
  <2>2. CASE a # src /\ b # src
    BY <1>0, <1>3, <2>1, <2>2
  <2>3. CASE a = src
    BY <1>0, <1>2, <1>3, <2>3
  <2>4. CASE b = src
    BY <1>0, <1>2, <1>3, <2>4
  <2> QED  BY <2>2, <2>3, <2>4
<1>9. UniqueTops(p)
  <2> SUFFICES ASSUME NEW k \in 1..Len(q), NEW l \in 1..Len(q), p[k].top = p[l].top
               PROVE  k = l
    BY <1>7 DEF UniqueTops
  <2>1. q[from(k)].top = q[from(l)].top
    BY <1>4
  <2>2. from(k) = from(l)
    BY <1>4, <2>1 DEF Holds, UniqueTops
  <2> QED  BY <1>5, <2>2
<1>10. ASSUME NEW k \in 1..Len(p) PROVE p[k].cnt = g[p[k].top] /\ p[k].cnt > 0
  <2>1. CASE k = src
    BY <1>0, <1>1, <1>2, <2>1
  <2>2. CASE k # src
    <3>1. PICK j \in 1..Len(q) : j = from(k) /\ p[k].top = q[j].top
      BY <1>4, <1>7
    <3>2. j # i
      BY <1>0, <1>6, <1>7, <2>2, <3>1 DEF from
    <3>3. q[j].top # q[i].top
      BY <1>0, <3>2 DEF Holds, UniqueTops
    <3>4. g[p[k].top] = f[q[j].top]
      BY <1>0, <1>2, <3>1, <3>3
    <3>5. p[k].cnt = q[j].cnt
      BY <1>0, <1>3, <1>7, <2>2, <3>1 DEF from
    <3> QED  BY <3>4, <3>5 DEF Holds
  <2> QED  BY <2>1, <2>2
<1>11. ASSUME NEW t \in Topics, g[t] > 0 PROVE \E k \in 1..Len(p) : p[k].top = t
  <2>1. PICK j \in 1..Len(q) : q[j].top = t
    BY <1>0, <1>11 DEF Holds
  <2>2. p[from(j)].top = t /\ from(j) \in 1..Len(p)
    BY <1>4, <1>6, <1>7, <2>1
  <2> QED  BY <2>2
<1> QED  BY <1>7, <1>8, <1>9, <1>10, <1>11 DEF Holds, Put

-----------------------------------------------------------------------------
LEMMA TableIs ==
  ASSUME NEW r \in Tables
  PROVE  /\ r.items \in Seq(Items) /\ Len(r.items) \in Nat
         /\ r.origLength \in Nat /\ r.alloc \in {0, 1}
BY DEF Tables

\* The table r with the items q.
With(r, q) == [r EXCEPT !.items = q]

LEMMA WithIs ==
  ASSUME NEW r \in Tables, NEW q \in Seq(Items)
  PROVE  /\ With(r, q) \in Tables /\ With(r, q).items = q
         /\ With(r, q).origLength = r.origLength /\ With(r, q).alloc = r.alloc
BY DEF With, Tables

LEMMA PutItem ==
  ASSUME NEW q \in Seq(Items), NEW i \in 1..Len(q), NEW x \in Items,
         NEW p, p = [q EXCEPT ![i] = x]
  PROVE  /\ p \in Seq(Items) /\ Len(p) = Len(q) /\ p[i] = x
         /\ \A k \in 1..Len(q) \ {i} : p[k] = q[k]
OBVIOUS

LEMMA MovedToIs ==
  ASSUME NEW q \in Seq(Items), NEW i \in 1..Len(q), NEW src \in 1..Len(q), NEW n \in Nat
  PROVE  Exchanged(q, MovedTo(q, i, src, n), i, src, n)
<1>1. q[src] \in Items /\ Item(q[i].top, n) \in Items
  BY ItemsAre, ItemIs
<1>2. PICK m : m = [q EXCEPT ![i] = q[src]]
  OBVIOUS
<1>3. /\ m \in Seq(Items) /\ Len(m) = Len(q) /\ m[i] = q[src]
      /\ \A k \in 1..Len(q) \ {i} : m[k] = q[k]
  BY <1>1, <1>2, PutItem
<1>4. PICK x : x = Item(q[i].top, n)
  OBVIOUS
<1>5. PICK p : p = [m EXCEPT ![src] = x]
  OBVIOUS
<1>6. /\ p \in Seq(Items) /\ Len(p) = Len(q) /\ p[src] = x
      /\ \A k \in 1..Len(q) \ {src} : p[k] = m[k]
  BY <1>1, <1>3, <1>4, <1>5, PutItem
<1>7. p = MovedTo(q, i, src, n)
  BY <1>2, <1>4, <1>5, Zenon DEF MovedTo
<1>8. Exchanged(q, p, i, src, n)
  BY <1>3, <1>4, <1>6 DEF Exchanged
<1> QED  BY <1>7, <1>8

LEMMA SetCount ==
  ASSUME NEW q \in Seq(Items), NEW i \in 1..Len(q), NEW n \in Nat
  PROVE  Exchanged(q, [q EXCEPT ![i].cnt = n], i, i, n)
<1>1. PICK x : x = [q[i] EXCEPT !.cnt = n]
  OBVIOUS
<1>2. q[i] \in Items
  BY ItemsAre
<1>3. x = Item(q[i].top, n) /\ x \in Items
  BY <1>1, <1>2 DEF Items, Item
<1>4. PICK p : p = [q EXCEPT ![i] = x]
  OBVIOUS
<1>5. p = [q EXCEPT ![i].cnt = n]
  BY <1>1, <1>4, Zenon
<1>6. Exchanged(q, p, i, i, n)
  BY <1>3, <1>4, PutItem DEF Exchanged
<1> QED  BY <1>5, <1>6

-----------------------------------------------------------------------------
\* Where the item goes that increment(ind) moves.
LEMMA IncrementFits ==
  ASSUME NEW q, NEW f \in [Topics -> Nat], Holds(q, f), NEW i \in 1..Len(q),
         NEW n, n = q[i].cnt + 1,
         NEW src, src = FirstAtMost(q, 1, i - 1, n - 1)
  PROVE  IF i > 1 /\ n > q[i - 1].cnt
         THEN Fits(q, i, src, n) ELSE Fits(q, i, i, n)
<1>1. /\ q \in Seq(Items) /\ Len(q) \in Nat /\ i \in Nat /\ n \in Nat \ {0}
      /\ \A k \in 1..Len(q) : q[k].cnt \in Nat
  <2>1. q \in Seq(Items)
    BY DEF Holds
  <2>2. Len(q) \in Nat /\ \A k \in 1..Len(q) : q[k].cnt \in Nat
    BY <2>1, ItemsAre
  <2> QED  BY <2>1, <2>2
<1>2. src \in 1..i /\ (src = i \/ q[src].cnt <= n - 1)
      /\ \A l \in 1..src - 1 : q[l].cnt > n - 1
  <2>1. PICK j, m : j = i - 1 /\ m = n - 1 /\ j \in Nat /\ m \in Int /\ j + 1 = i
    BY <1>1
  <2>2. IsFirst(q, 1, j, m, FirstAtMost(q, 1, j, m))
    <3>1. 1 <= j + 1 /\ j <= Len(q) /\ 1 \in Nat /\ 1 <= 1
      BY <1>1, <2>1
    <3> QED  BY <1>1, <2>1, <3>1, FirstAtMostIs
  <2>3. IsFirst(q, 1, j, m, src)
    BY <2>1, <2>2
  <2> QED  BY <1>1, <2>1, <2>3 DEF IsFirst
<1>3. \A k, l \in 1..Len(q) : k <= l => q[k].cnt >= q[l].cnt
  BY <1>1 DEF Holds, Sorted
<1>4. CASE i > 1 /\ n > q[i - 1].cnt
  <2>1. src \in 1..Len(q) /\ q[src].cnt >= q[i].cnt
    BY <1>1, <1>2, <1>3
  <2>2. q[src].cnt = q[i].cnt
    BY <1>1, <1>2, <2>1
  <2>3. ASSUME NEW l \in 1..Len(q)
        PROVE  /\ l < src => q[l].cnt >= n
               /\ l > src => q[l].cnt <= n
    BY <1>1, <1>2, <1>3, <2>1, <2>2
  <2>4. Fits(q, i, src, n)
    BY <1>1, <2>1, <2>2, <2>3 DEF Fits
  <2> QED  BY <1>4, <2>4
<1>5. CASE ~(i > 1 /\ n > q[i - 1].cnt)
  <2>1. ASSUME NEW l \in 1..Len(q), l < i PROVE q[l].cnt >= n
    <3>1. i > 1 /\ i - 1 \in 1..Len(q) /\ l <= i - 1
      BY <1>1, <2>1
    <3>2. q[l].cnt >= q[i - 1].cnt
      BY <1>3, <3>1
    <3> QED  BY <1>1, <1>5, <3>1, <3>2
  <2>2. ASSUME NEW l \in 1..Len(q), l > i PROVE q[l].cnt <= n
    BY <1>1, <1>3, <2>2
  <2>3. Fits(q, i, i, n)
    BY <1>1, <2>1, <2>2 DEF Fits
  <2> QED  BY <1>5, <2>3
<1> QED  BY <1>4, <1>5

\* increment(ind): the table holds one token more of the topic.
IncrementKeeps(r, i, f) ==
  /\ Increment(r, i) \in Tables
  /\ Holds(Increment(r, i).items,
           Put(f, r.items[i].top, f[r.items[i].top] + 1))
  /\ Increment(r, i).origLength = r.origLength
  /\ Len(Increment(r, i).items) = Len(r.items)

LEMMA IncrementIs ==
  ASSUME NEW r \in Tables, NEW f \in [Topics -> Nat], Holds(r.items, f),
         NEW i \in 1..Len(r.items)
  PROVE  IncrementKeeps(r, i, f)
<1>1. PICK q : q = r.items
  OBVIOUS
<1>2. PICK n : n = q[i].cnt + 1
  OBVIOUS
<1>3. PICK src : src = FirstAtMost(q, 1, i - 1, n - 1)
  OBVIOUS
<1>4. PICK p : p = IF i > 1 /\ n > q[i - 1].cnt THEN MovedTo(q, i, src, n)
                   ELSE [q EXCEPT ![i].cnt = n]
  OBVIOUS
<1>5. Increment(r, i) = With(r, p)
  BY <1>1, <1>2, <1>3, <1>4, Zenon DEF Increment, With
<1>6. PICK s : Fits(q, i, s, n) /\ Exchanged(q, p, i, s, n)
  <2>1. q \in Seq(Items) /\ i \in 1..Len(q)
    BY <1>1, TableIs
  <2>2. CASE i > 1 /\ n > q[i - 1].cnt
    <3>1. Fits(q, i, src, n)
      BY <1>1, <1>2, <1>3, <2>2, IncrementFits
    <3>2. Exchanged(q, MovedTo(q, i, src, n), i, src, n)
      BY <2>1, <3>1, MovedToIs DEF Fits
    <3>3. p = MovedTo(q, i, src, n)
      BY <1>4, <2>2
    <3> QED  BY <3>1, <3>2, <3>3
  <2>3. CASE ~(i > 1 /\ n > q[i - 1].cnt)
    <3>1. Fits(q, i, i, n)
      BY <1>1, <1>2, <1>3, <2>3, IncrementFits
    <3>2. Exchanged(q, [q EXCEPT ![i].cnt = n], i, i, n)
      BY <2>1, <3>1, SetCount DEF Fits
    <3>3. p = [q EXCEPT ![i].cnt = n]
      BY <1>4, <2>3
    <3> QED  BY <3>1, <3>2, <3>3
  <2> QED  BY <2>2, <2>3
<1>7. Holds(p, Put(f, q[i].top, n))
  BY <1>1, <1>6, ExchangeHolds
<1>8. n = f[q[i].top] + 1 /\ q[i].top \in Topics
  BY <1>1, <1>2, TableIs, ItemsAre DEF Holds
<1>9. Put(f, q[i].top, n) = Put(f, r.items[i].top, f[r.items[i].top] + 1)
  BY <1>1, <1>8
<1>10. p \in Seq(Items) /\ Len(p) = Len(q)
  BY <1>6 DEF Exchanged
<1> QED  BY <1>1, <1>5, <1>7, <1>9, <1>10, WithIs DEF IncrementKeeps

-----------------------------------------------------------------------------
\* Where the item goes that decrement(ind) moves.
LEMMA DecrementFits ==
  ASSUME NEW q, NEW f \in [Topics -> Nat], Holds(q, f), NEW i \in 1..Len(q),
         NEW n, n = q[i].cnt - 1, q[i].cnt # 1,
         NEW src, src = FirstAtMost(q, i + 1, Len(q), n) - 1
  PROVE  IF i < Len(q) /\ n < q[i + 1].cnt
         THEN Fits(q, i, src, n) /\ src # i ELSE Fits(q, i, i, n)
<1>1. /\ q \in Seq(Items) /\ Len(q) \in Nat /\ i \in Nat /\ n \in Nat \ {0}
      /\ \A k \in 1..Len(q) : q[k].cnt \in Nat
  <2>1. q \in Seq(Items)
    BY DEF Holds
  <2>2. Len(q) \in Nat /\ \A k \in 1..Len(q) : q[k].cnt \in Nat
    BY <2>1, ItemsAre
  <2>3. q[i].cnt > 0
    BY DEF Holds
  <2> QED  BY <2>1, <2>2, <2>3
<1>2. /\ src + 1 \in i + 1..Len(q) + 1 /\ src \in i..Len(q)
      /\ src = Len(q) \/ q[src + 1].cnt <= n
      /\ \A l \in i + 1..src : q[l].cnt > n
  <2>1. PICK j, m : j = i + 1 /\ m = Len(q) /\ j \in Nat /\ m \in Nat /\ j <= m + 1
    BY <1>1
  <2>2. IsFirst(q, j, m, n, FirstAtMost(q, j, m, n))
    <3>1. 1 <= j /\ m <= Len(q) /\ n \in Int
      BY <1>1, <2>1
    <3> QED  BY <1>1, <2>1, <3>1, FirstAtMostIs
  <2>3. PICK k : k = FirstAtMost(q, j, m, n)
    OBVIOUS
  <2>4. src = k - 1
    BY <2>1, <2>3
  <2>5. k \in j..m + 1 /\ (k = m + 1 \/ q[k].cnt <= n) /\ \A l \in j..k - 1 : q[l].cnt > n
    BY <2>2, <2>3 DEF IsFirst
  <2>6. k = src + 1 /\ k \in Int
    BY <2>1, <2>4, <2>5
  <2>7. src + 1 \in i + 1..Len(q) + 1 /\ src \in i..Len(q)
    <3>1. PICK l \in Nat : l = Len(q) /\ i \in Nat /\ i <= l
      BY <1>1
    <3>2. k \in i + 1..l + 1
      BY <2>1, <2>5, <3>1
    <3>3. src + 1 \in i + 1..l + 1 /\ src \in i..l
      BY <2>4, <3>1, <3>2
    <3> QED  BY <3>1, <3>3
  <2>8. src = Len(q) \/ q[src + 1].cnt <= n
    <3>1. CASE k = m + 1
      BY <1>1, <2>1, <2>4, <3>1
    <3>2. CASE q[k].cnt <= n
      BY <2>6, <3>2
    <3> QED  BY <2>5, <3>1, <3>2
  <2>9. \A l \in i + 1..src : q[l].cnt > n
    BY <1>1, <2>1, <2>5, <2>6, <2>7
  <2> QED  BY <2>7, <2>8, <2>9
<1>3. \A k, l \in 1..Len(q) : k <= l => q[k].cnt >= q[l].cnt
  BY <1>1 DEF Holds, Sorted
<1>4. CASE i < Len(q) /\ n < q[i + 1].cnt
  <2>1. src # i
    BY <1>1, <1>2, <1>4
  <2>2. src \in 1..Len(q) /\ q[src].cnt > n
    BY <1>1, <1>2, <2>1
  <2>3. q[i].cnt >= q[src].cnt
    BY <1>1, <1>2, <1>3, <2>2
  <2>4. q[src].cnt = q[i].cnt
    BY <1>1, <2>2, <2>3
  <2>5. ASSUME NEW l \in 1..Len(q), l < src PROVE q[l].cnt >= n
    BY <1>1, <1>3, <2>2, <2>5
  <2>6. ASSUME NEW l \in 1..Len(q), l > src PROVE q[l].cnt <= n
    <3>1. src + 1 \in 1..Len(q) /\ src + 1 <= l /\ src # Len(q)
      BY <1>1, <2>2, <2>6
    <3>2. q[src + 1].cnt >= q[l].cnt
      BY <1>3, <3>1
    <3> QED  BY <1>1, <1>2, <3>1, <3>2
  <2>7. Fits(q, i, src, n)
    BY <1>1, <2>2, <2>4, <2>5, <2>6 DEF Fits
  <2> QED  BY <1>4, <2>1, <2>7
<1>5. CASE ~(i < Len(q) /\ n < q[i + 1].cnt)
  <2>1. ASSUME NEW l \in 1..Len(q), l > i PROVE q[l].cnt <= n
    <3>1. i < Len(q) /\ i + 1 \in 1..Len(q) /\ i + 1 <= l
      BY <1>1, <2>1
    <3>2. q[i + 1].cnt >= q[l].cnt
      BY <1>3, <3>1
    <3> QED  BY <1>1, <1>5, <3>1, <3>2
  <2>2. ASSUME NEW l \in 1..Len(q), l < i PROVE q[l].cnt >= n
    BY <1>1, <1>3, <2>2
  <2>3. Fits(q, i, i, n)
    BY <1>1, <2>1, <2>2 DEF Fits
  <2> QED  BY <1>5, <2>3
<1> QED  BY <1>4, <1>5

\* The item i is removed, and the last one takes its place.
WithoutIt(q, p, i) ==
  /\ p \in Seq(Items) /\ Len(p) = Len(q) - 1
  /\ \A k \in 1..Len(q) - 1 : p[k] = IF k = i THEN q[Len(q)] ELSE q[k]

LEMMA WithoutItemIs ==
  ASSUME NEW q \in Seq(Items), NEW i \in 1..Len(q)
  PROVE  WithoutIt(q, WithoutItem(q, i), i)
<1>1. PICK n \in Nat \ {0} : n = Len(q)
  OBVIOUS
<1>2. q[i] \in Items /\ q[n] \in Items /\ n \in 1..Len(q)
  BY <1>1, ItemsAre
<1>3. PICK m : m = [q EXCEPT ![i] = q[n]]
  OBVIOUS
<1>4. /\ m \in Seq(Items) /\ Len(m) = n /\ m[i] = q[n]
      /\ \A k \in 1..n \ {i} : m[k] = q[k]
  BY <1>1, <1>2, <1>3, PutItem
<1>5. PICK x : x = [m EXCEPT ![n] = q[i]]
  OBVIOUS
<1>6. /\ x \in Seq(Items) /\ Len(x) = n
      /\ \A k \in 1..n \ {n} : x[k] = m[k]
  BY <1>1, <1>2, <1>4, <1>5, PutItem
<1>7. x = Swapped(q, i, n)
  BY <1>3, <1>5, Zenon DEF Swapped
<1>8. PICK p : p = SubSeq(x, 1, n - 1)
  OBVIOUS
<1>9. /\ p \in Seq(Items) /\ Len(p) = n - 1
      /\ \A k \in 1..n - 1 : p[k] = x[k]
  BY <1>1, <1>6, <1>8
<1>10. p = WithoutItem(q, i)
  BY <1>1, <1>7, <1>8 DEF WithoutItem
<1>11. \A k \in 1..n - 1 : p[k] = IF k = i THEN q[n] ELSE q[k]
  BY <1>1, <1>4, <1>6, <1>9
<1> QED  BY <1>1, <1>9, <1>10, <1>11 DEF WithoutIt

\* Where an item is after the item i was removed.
WithoutKept(q, p, i) ==
  /\ \A k \in 1..Len(p) : \E j \in 1..Len(q) \ {i} :
        /\ p[k] = q[j] /\ j = IF k = i THEN Len(q) ELSE k
  /\ \A j \in 1..Len(q) \ {i} : \E k \in 1..Len(p) :
        /\ p[k] = q[j] /\ k = IF j = Len(q) THEN i ELSE j

LEMMA WithoutItKeeps ==
  ASSUME NEW q \in Seq(Items), NEW i \in 1..Len(q), NEW p, WithoutIt(q, p, i)
  PROVE  WithoutKept(q, p, i)
<1>1. PICK n \in Nat \ {0} : n = Len(q)
  OBVIOUS
<1>2. /\ Len(p) = n - 1 /\ i \in 1..n
      /\ \A k \in 1..n - 1 : p[k] = IF k = i THEN q[n] ELSE q[k]
  BY <1>1 DEF WithoutIt
<1>3. ASSUME NEW k \in 1..n - 1
      PROVE  \E j \in 1..n \ {i} : p[k] = q[j] /\ j = IF k = i THEN n ELSE k
  BY <1>2
<1>4. ASSUME NEW j \in 1..n \ {i}
      PROVE  \E k \in 1..n - 1 : p[k] = q[j] /\ k = IF j = n THEN i ELSE j
  BY <1>2
<1> QED  BY <1>1, <1>2, <1>3, <1>4 DEF WithoutKept

LEMMA WithoutHolds ==
  ASSUME NEW q, NEW f \in [Topics -> Nat], Holds(q, f), NEW i \in 1..Len(q),
         NEW p, WithoutIt(q, p, i), q[i].cnt = 1
  PROVE  Holds(p, Put(f, q[i].top, 0))
<1> DEFINE g == [f EXCEPT ![q[i].top] = 0]
<1>1. q \in Seq(Items) /\ p \in Seq(Items) /\ Len(q) \in Nat /\ Len(p) \in Nat
  BY DEF Holds, WithoutIt
<1>2. /\ \A k \in 1..Len(q) : q[k].cnt \in Nat /\ q[k].top \in Topics
      /\ \A k \in 1..Len(p) : p[k].cnt \in Nat /\ p[k].top \in Topics
  BY <1>1, ItemsAre
<1>3. /\ \A k \in 1..Len(p) : \E j \in 1..Len(q) \ {i} :
            /\ p[k] = q[j] /\ j = IF k = i THEN Len(q) ELSE k
      /\ \A j \in 1..Len(q) \ {i} : \E k \in 1..Len(p) :
            /\ p[k] = q[j] /\ k = IF j = Len(q) THEN i ELSE j
  <2>1. WithoutKept(q, p, i)
    BY <1>1, WithoutItKeeps
  <2> QED  BY <2>1 DEF WithoutKept
<1>4. \A k, l \in 1..Len(q) : k <= l => q[k].cnt >= q[l].cnt
  BY <1>1, <1>2 DEF Holds, Sorted
<1>5. Sorted(p)
  <2> SUFFICES ASSUME NEW a \in 1..Len(p), NEW b \in 1..Len(p), a < b
               PROVE  p[a].cnt >= p[b].cnt
    BY DEF Sorted
  <2>1. PICK k \in 1..Len(q) \ {i} : p[a] = q[k] /\ k = IF a = i THEN Len(q) ELSE a
    BY <1>3
  <2>2. PICK l \in 1..Len(q) \ {i} : p[b] = q[l] /\ l = IF b = i THEN Len(q) ELSE b
    BY <1>3
  <2>3. CASE a # i
    <3>1. k <= l
      BY <1>1, <2>1, <2>2, <2>3
    <3> QED  BY <1>4, <2>1, <2>2, <3>1
  <2>4. CASE a = i
    <3>1. i <= l
      BY <1>1, <2>2, <2>4
    <3>2. q[i].cnt >= q[l].cnt
      BY <1>4, <3>1
    <3>3. q[k].cnt > 0
      BY DEF Holds
    <3> QED  BY <1>2, <2>1, <2>2, <3>2, <3>3
  <2> QED  BY <2>3, <2>4
<1>6. UniqueTops(p)
  <2> SUFFICES ASSUME NEW a \in 1..Len(p), NEW b \in 1..Len(p), p[a].top = p[b].top
               PROVE  a = b
    BY DEF UniqueTops
  <2>1. PICK k \in 1..Len(q) \ {i} : p[a] = q[k] /\ k = IF a = i THEN Len(q) ELSE a
    BY <1>3
  <2>2. PICK l \in 1..Len(q) \ {i} : p[b] = q[l] /\ l = IF b = i THEN Len(q) ELSE b
    BY <1>3
  <2>3. k = l
    BY <2>1, <2>2 DEF Holds, UniqueTops
  <2>4. Len(p) < Len(q)
    BY <1>1 DEF WithoutIt
  <2> QED  BY <1>1, <2>1, <2>2, <2>3, <2>4
<1>7. ASSUME NEW k \in 1..Len(p) PROVE p[k].cnt = g[p[k].top] /\ p[k].cnt > 0
  <2>1. PICK j \in 1..Len(q) \ {i} : p[k] = q[j]
    BY <1>3
  <2>2. q[j].top # q[i].top /\ q[j].cnt = f[q[j].top] /\ q[j].cnt > 0
    BY DEF Holds, UniqueTops
  <2> QED  BY <1>2, <2>1, <2>2
<1>8. ASSUME NEW t \in Topics, g[t] > 0 PROVE \E k \in 1..Len(p) : p[k].top = t
  <2>1. t # q[i].top /\ f[t] > 0
    BY <1>2, <1>8
  <2>2. PICK j \in 1..Len(q) : q[j].top = t
    BY <2>1 DEF Holds
  <2>3. j # i
    BY <2>1, <2>2
  <2> QED  BY <1>3, <2>2, <2>3
<1> QED  BY <1>1, <1>5, <1>6, <1>7, <1>8 DEF Holds, Put

-----------------------------------------------------------------------------
\* The items of a table are within its allocation.
InRoom(r) == r \in Tables /\ Len(r.items) <= r.origLength

LEMMA ReallocatedIs ==
  ASSUME NEW r \in Tables, NEW size \in Nat
  PROVE  /\ Reallocated(r, size) \in Tables
         /\ Reallocated(r, size).items = r.items
         /\ Reallocated(r, size).origLength = size
<1>1. PICK a \in {0, 1} : a = 1 - r.alloc
  BY DEF Tables
<1>2. PICK m : m = [r EXCEPT !.origLength = size]
  OBVIOUS
<1>3. /\ m \in Tables /\ m.items = r.items /\ m.origLength = size /\ m.alloc = r.alloc
  BY <1>2 DEF Tables
<1>4. PICK k : k = [m EXCEPT !.alloc = a]
  OBVIOUS
<1>5. k \in Tables /\ k.items = r.items /\ k.origLength = size
  BY <1>3, <1>4 DEF Tables
<1>6. k = [m EXCEPT !.alloc = 1 - @]
  BY <1>1, <1>3, <1>4, Zenon
<1>7. k = Reallocated(r, size)
  BY <1>2, <1>6, Zenon DEF Reallocated
<1> QED  BY <1>5, <1>7

\* compact() leaves the items, and room for them.
LEMMA CompactIs ==
  ASSUME NEW r, InRoom(r)
  PROVE  InRoom(Compact(r)) /\ Compact(r).items = r.items
<1>1. PICK n \in Nat : n = Len(r.items)
  BY TableIs DEF InRoom
<1>2. /\ INIT_TC_SIZE \in Nat /\ SUBSEQ_ALLOCS \in Nat
      /\ SUBSEQ_ALLOCS <= INIT_TC_SIZE /\ r.origLength \in Nat
  BY TopicCountsAssumption, TableIs DEF InRoom
<1>3. CASE n > INIT_TC_SIZE + SUBSEQ_ALLOCS /\ r.origLength - n > INIT_TC_SIZE
  <2>1. PICK size : size = r.origLength - SUBSEQ_ALLOCS
    OBVIOUS
  <2>2. size \in Nat /\ n <= size
    BY <1>1, <1>2, <1>3, <2>1
  <2>3. Compact(r) = Reallocated(r, size)
    BY <1>1, <1>3, <2>1, Zenon DEF Compact
  <2>4. PICK c : c = Reallocated(r, size)
    OBVIOUS
  <2>5. c \in Tables /\ c.items = r.items /\ c.origLength = size
    BY <2>2, <2>4, ReallocatedIs DEF InRoom
  <2> QED  BY <1>1, <2>2, <2>3, <2>4, <2>5 DEF InRoom
<1>4. CASE ~(n > INIT_TC_SIZE + SUBSEQ_ALLOCS /\ r.origLength - n > INIT_TC_SIZE)
  <2>1. Compact(r) = r
    BY <1>1, <1>4, Zenon DEF Compact
  <2> QED  BY <2>1
<1> QED  BY <1>3, <1>4

LEMMA RemoveOldTopIs ==
  ASSUME NEW r, InRoom(r), NEW i \in 1..Len(r.items)
  PROVE  /\ InRoom(RemoveOldTop(r, i))
         /\ WithoutIt(r.items, RemoveOldTop(r, i).items, i)
<1>1. PICK p : p = WithoutItem(r.items, i)
  OBVIOUS
<1>2. WithoutIt(r.items, p, i)
  BY <1>1, TableIs, WithoutItemIs DEF InRoom
<1>3. InRoom(With(r, p)) /\ With(r, p).items = p
  <2>1. p \in Seq(Items) /\ Len(p) = Len(r.items) - 1 /\ Len(r.items) \in Nat
    BY <1>2, TableIs DEF WithoutIt, InRoom
  <2>2. With(r, p) \in Tables /\ With(r, p).items = p /\ With(r, p).origLength = r.origLength
    BY <2>1, WithIs DEF InRoom
  <2>3. r.origLength \in Nat /\ Len(r.items) <= r.origLength
    BY TableIs DEF InRoom
  <2> QED  BY <2>1, <2>2, <2>3 DEF InRoom
<1>4. RemoveOldTop(r, i) = Compact(With(r, p))
  BY <1>1 DEF RemoveOldTop, With
<1> QED  BY <1>2, <1>3, <1>4, CompactIs

-----------------------------------------------------------------------------
\* decrement(ind, &newTop): the table holds one token less of the topic, and
\* newTop still points at the topic new.
DecrementKeeps(r, i, f, new, after, newTop) ==
  /\ InRoom(after)
  /\ Holds(after.items, Put(f, r.items[i].top, f[r.items[i].top] - 1))
  /\ newTop = FindTop(after, new)

LEMMA LessIs ==
  ASSUME NEW q, NEW f \in [Topics -> Nat], Holds(q, f), NEW i \in 1..Len(q),
         NEW n, n = q[i].cnt - 1
  PROVE  q[i].top \in Topics /\ n \in Nat /\ f[q[i].top] - 1 = n
<1>1. q \in Seq(Items)
  BY DEF Holds
<1>2. q[i].cnt \in Nat /\ q[i].top \in Topics
  BY <1>1, ItemsAre
<1>3. f[q[i].top] = q[i].cnt /\ q[i].cnt > 0
  BY DEF Holds
<1>4. n \in Nat /\ f[q[i].top] - 1 = n
  BY <1>2, <1>3
<1> QED  BY <1>2, <1>4

\* The pointer to another topic after the item i went to src.
PointerKept(r, p, i, src, new) ==
  /\ FindTop(r, new) = NULL => FindTop(With(r, p), new) = NULL
  /\ FindTop(r, new) # NULL =>
       FindTop(With(r, p), new) =
         IF i # src /\ FindTop(r, new).index = src
         THEN PointerTo(r, i) ELSE FindTop(r, new)

LEMMA PointerMoves ==
  ASSUME NEW r, InRoom(r), NEW f \in [Topics -> Nat], Holds(r.items, f),
         NEW i, NEW src, NEW n, NEW p,
         Exchanged(r.items, p, i, src, n), Fits(r.items, i, src, n),
         n = r.items[i].cnt - 1, NEW new \in Topics, new # r.items[i].top
  PROVE  PointerKept(r, p, i, src, new)
<1> DEFINE q == r.items
           g == Put(f, q[i].top, n)
           after == With(r, p)
<1>1. /\ r \in Tables /\ i \in 1..Len(q) /\ src \in 1..Len(q) /\ p \in Seq(Items)
      /\ Len(p) = Len(q)
  BY DEF InRoom, Fits, Exchanged
<1>2. g \in [Topics -> Nat] /\ q[i].top \in Topics
  BY <1>1, LessIs, PutIs
<1>3. Holds(p, g)
  BY ExchangeHolds
<1>4. after.items = p /\ after.alloc = r.alloc
  BY <1>1, WithIs
<1>5. g[new] = f[new] /\ f[new] \in Nat
  <2>1. PICK t \in Topics : t = q[i].top
    BY <1>2
  <2>2. n \in Nat
    BY <1>1, LessIs
  <2>3. Put(f, t, n)[new] = f[new]
    BY <2>1, <2>2, PutIs
  <2> QED  BY <2>1, <2>3
<1> HIDE DEF g, after
<1>6. CASE f[new] = 0
  <2>1. FindTop(r, new) = NULL /\ FindTop(after, new) = NULL
    BY <1>2, <1>3, <1>4, <1>5, <1>6, Found
  <2> QED  BY <2>1 DEF after, PointerKept
<1>7. CASE f[new] > 0
  <2>1. PICK j \in 1..Len(q) : q[j].top = new /\ FindTop(r, new) = PointerTo(r, j)
    BY <1>7, Found
  <2>2. FindTop(r, new) # NULL /\ FindTop(r, new).index = j
    BY <1>1, <2>1, TableIs, TopicCountsAssumption DEF PointerTo
  <2>3. j # i
    BY <2>1
  <2>4. PICK k \in 1..Len(p) : /\ k = IF i # src /\ j = src THEN i ELSE j
                               /\ p[k].top = new
    BY <1>1, <2>1, <2>3 DEF Exchanged
  <2>5. FindTop(after, new) = PointerTo(after, k)
    BY <1>3, <1>4, <2>4, FoundAt
  <2>6. PointerTo(after, k) = PointerTo(r, k)
    BY <1>4 DEF PointerTo
  <2> QED  BY <2>1, <2>2, <2>4, <2>5, <2>6 DEF after, PointerKept
<1> QED  BY <1>5, <1>6, <1>7

LEMMA DecrementMovesKeeps ==
  ASSUME NEW r, InRoom(r), NEW f \in [Topics -> Nat], Holds(r.items, f),
         NEW i \in 1..Len(r.items), NEW new \in Topics, new # r.items[i].top,
         r.items[i].cnt # 1, i < Len(r.items), r.items[i].cnt - 1 < r.items[i + 1].cnt,
         NEW d, d = DecrementMoves(r, i, FindTop(r, new))
  PROVE  DecrementKeeps(r, i, f, new, d.tc, d.newTop)
<1>1. PICK q : q = r.items
  OBVIOUS
<1>2. PICK n : n = q[i].cnt - 1
  OBVIOUS
<1>3. PICK src : src = FirstAtMost(q, i + 1, Len(q), n) - 1
  OBVIOUS
<1>4. PICK p : p = MovedTo(q, i, src, n)
  OBVIOUS
<1>5. Fits(q, i, src, n) /\ src # i
  BY <1>1, <1>2, <1>3, DecrementFits
<1>6. Exchanged(q, p, i, src, n)
  BY <1>1, <1>4, <1>5, TableIs, MovedToIs DEF Fits, InRoom
<1>7. d = [tc |-> With(r, p),
           newTop |-> IF FindTop(r, new) # NULL /\ FindTop(r, new).index = src
                      THEN PointerTo(r, i) ELSE FindTop(r, new)]
  BY <1>1, <1>2, <1>3, <1>4, Zenon DEF DecrementMoves, With
<1>8. d.tc = With(r, p)
      /\ d.newTop = IF FindTop(r, new) # NULL /\ FindTop(r, new).index = src
                    THEN PointerTo(r, i) ELSE FindTop(r, new)
  BY <1>7
<1>9. d.newTop = FindTop(d.tc, new)
  <2>1. /\ Exchanged(r.items, p, i, src, n) /\ Fits(r.items, i, src, n)
        /\ n = r.items[i].cnt - 1
    BY <1>1, <1>2, <1>5, <1>6
  <2>2. PointerKept(r, p, i, src, new)
    BY <2>1, PointerMoves
  <2> QED  BY <1>5, <1>8, <2>2 DEF PointerKept
<1>10. Holds(p, Put(f, r.items[i].top, f[r.items[i].top] - 1))
  BY <1>1, <1>2, <1>5, <1>6, ExchangeHolds, LessIs
<1>11. InRoom(With(r, p)) /\ With(r, p).items = p
  BY <1>1, <1>6, WithIs DEF Exchanged, InRoom
<1> QED  BY <1>8, <1>9, <1>10, <1>11 DEF DecrementKeeps

LEMMA DecrementInPlaceKeeps ==
  ASSUME NEW r, InRoom(r), NEW f \in [Topics -> Nat], Holds(r.items, f),
         NEW i \in 1..Len(r.items), NEW new \in Topics, new # r.items[i].top,
         r.items[i].cnt # 1,
         ~(i < Len(r.items) /\ r.items[i].cnt - 1 < r.items[i + 1].cnt),
         NEW d, d = DecrementInPlace(r, i, FindTop(r, new))
  PROVE  DecrementKeeps(r, i, f, new, d.tc, d.newTop)
<1>1. PICK q : q = r.items
  OBVIOUS
<1>2. PICK n : n = q[i].cnt - 1
  OBVIOUS
<1>4. PICK p : p = [q EXCEPT ![i].cnt = n]
  OBVIOUS
<1>5. Fits(q, i, i, n)
  BY <1>1, <1>2, DecrementFits
<1>6. Exchanged(q, p, i, i, n)
  BY <1>1, <1>4, <1>5, TableIs, SetCount DEF Fits, InRoom
<1>7. d = [tc |-> With(r, p), newTop |-> FindTop(r, new)]
  BY <1>1, <1>2, <1>4, Zenon DEF DecrementInPlace, With
<1>8. d.tc = With(r, p) /\ d.newTop = FindTop(r, new)
  BY <1>7
<1>9. d.newTop = FindTop(d.tc, new)
  <2>1. /\ Exchanged(r.items, p, i, i, n) /\ Fits(r.items, i, i, n)
        /\ n = r.items[i].cnt - 1
    BY <1>1, <1>2, <1>5, <1>6
  <2>2. PointerKept(r, p, i, i, new)
    BY <2>1, PointerMoves
  <2> QED  BY <1>8, <2>2 DEF PointerKept
<1>10. Holds(p, Put(f, r.items[i].top, f[r.items[i].top] - 1))
  BY <1>1, <1>2, <1>5, <1>6, ExchangeHolds, LessIs
<1>11. InRoom(With(r, p)) /\ With(r, p).items = p
  BY <1>1, <1>6, WithIs DEF Exchanged, InRoom
<1> QED  BY <1>8, <1>9, <1>10, <1>11 DEF DecrementKeeps

LEMMA DecrementRemovesKeeps ==
  ASSUME NEW r, InRoom(r), NEW f \in [Topics -> Nat], Holds(r.items, f),
         NEW i \in 1..Len(r.items), NEW new \in Topics, new # r.items[i].top,
         r.items[i].cnt = 1,
         NEW d, d = DecrementRemoves(r, i, FindTop(r, new))
  PROVE  DecrementKeeps(r, i, f, new, d.tc, d.newTop)
<1>1. PICK q : q = r.items
  OBVIOUS
<1>2. PICK after : after = RemoveOldTop(r, i)
  OBVIOUS
<1>3. PICK p : p = after.items
  OBVIOUS
<1>4. InRoom(after) /\ WithoutIt(q, p, i)
  BY <1>1, <1>2, <1>3, RemoveOldTopIs
<1>5. PICK n \in Nat : n = Len(q) /\ Len(p) = n - 1 /\ i \in 1..n
  BY <1>1, <1>4, TableIs DEF InRoom, WithoutIt
<1>6. PICK at : at = IF FindTop(r, new) = NULL THEN n + 1 ELSE FindTop(r, new).index
  OBVIOUS
<1>7. PICK ind : ind = IF at = n THEN i ELSE at
  OBVIOUS
<1>8. d = [tc |-> after, newTop |-> IF ind <= n - 1 THEN PointerTo(after, ind) ELSE NULL]
  BY <1>1, <1>2, <1>3, <1>5, <1>6, <1>7, Zenon DEF DecrementRemoves
<1>9. d.tc = after /\ d.newTop = IF ind <= n - 1 THEN PointerTo(after, ind) ELSE NULL
  BY <1>8
<1>10. Holds(p, Put(f, q[i].top, f[q[i].top] - 1))
  <2>1. Holds(p, Put(f, q[i].top, 0))
    BY <1>1, <1>4, WithoutHolds
  <2>2. 0 = q[i].cnt - 1
    BY <1>1
  <2>3. f[q[i].top] - 1 = 0
    BY <1>1, <2>2, LessIs
  <2> QED  BY <2>1, <2>3
<1>11. PICK g : g = Put(f, q[i].top, f[q[i].top] - 1)
  OBVIOUS
<1>12. g \in [Topics -> Nat] /\ g[new] = f[new] /\ f[new] \in Nat
  <2>1. PICK t \in Topics : t = q[i].top
    BY <1>1, LessIs
  <2>2. PICK m \in Nat : m = f[t] - 1
    BY <1>1, <2>1, LessIs
  <2>3. g = Put(f, t, m)
    BY <1>11, <2>1, <2>2
  <2>4. new # t
    BY <1>1, <2>1
  <2> QED  BY <2>3, <2>4, PutIs
<1>13. CASE f[new] = 0
  <2>1. FindTop(r, new) = NULL
    BY <1>1, <1>13, Found
  <2>2. FindTop(after, new) = NULL
    BY <1>3, <1>10, <1>11, <1>12, <1>13, Found
  <2>3. ~(ind <= n - 1)
    BY <1>5, <1>6, <1>7, <2>1
  <2> QED  BY <1>1, <1>3, <1>4, <1>9, <1>10, <2>2, <2>3 DEF DecrementKeeps
<1>14. CASE f[new] > 0
  <2>1. PICK j \in 1..n : q[j].top = new /\ FindTop(r, new) = PointerTo(r, j)
    BY <1>1, <1>5, <1>14, Found
  <2>2. FindTop(r, new) # NULL /\ FindTop(r, new).index = j
    <3>1. r.alloc \in {0, 1} /\ j \in Nat
      BY TableIs DEF InRoom
    <3> QED  BY <2>1, <3>1, TopicCountsAssumption DEF PointerTo
  <2>3. j # i
    BY <1>1, <2>1
  <2>4. ind = IF j = n THEN i ELSE j
    BY <1>6, <1>7, <2>2
  <2>5. PICK k \in 1..Len(p) : p[k] = q[j] /\ k = ind
    <3>1. q \in Seq(Items) /\ j \in 1..Len(q) \ {i} /\ i \in 1..Len(q)
      BY <1>1, <1>5, <2>1, <2>3, TableIs DEF InRoom
    <3>2. \E k \in 1..Len(p) : p[k] = q[j] /\ k = IF j = Len(q) THEN i ELSE j
      BY <1>4, <3>1, WithoutItKeeps DEF WithoutKept
    <3> QED  BY <1>5, <2>4, <3>2
  <2>6. FindTop(after, new) = PointerTo(after, ind)
    BY <1>3, <1>10, <2>1, <2>5, FoundAt
  <2>7. ind <= n - 1
    BY <1>5, <2>5
  <2> QED  BY <1>1, <1>3, <1>4, <1>9, <1>10, <2>6, <2>7 DEF DecrementKeeps
<1> QED  BY <1>12, <1>13, <1>14

LEMMA DecrementIs ==
  ASSUME NEW r, InRoom(r), NEW f \in [Topics -> Nat], Holds(r.items, f),
         NEW i \in 1..Len(r.items), NEW new \in Topics, new # r.items[i].top,
         NEW d, d = Decrement(r, i, FindTop(r, new))
  PROVE  DecrementKeeps(r, i, f, new, d.tc, d.newTop)
<1>1. CASE r.items[i].cnt = 1
  BY <1>1, DecrementRemovesKeeps DEF Decrement
<1>2. CASE r.items[i].cnt # 1 /\ i < Len(r.items) /\ r.items[i].cnt - 1 < r.items[i + 1].cnt
  <2>1. d = DecrementMoves(r, i, FindTop(r, new))
    BY <1>2 DEF Decrement
  <2> QED  BY <1>2, <2>1, DecrementMovesKeeps
<1>3. CASE r.items[i].cnt # 1 /\ ~(i < Len(r.items) /\ r.items[i].cnt - 1 < r.items[i + 1].cnt)
  <2>1. d = DecrementInPlace(r, i, FindTop(r, new))
    BY <1>3 DEF Decrement
  <2> QED  BY <1>3, <2>1, DecrementInPlaceKeeps
<1> QED  BY <1>1, <1>2, <1>3

-----------------------------------------------------------------------------
\* A topic the array does not have gets an item at the end.
Appended(q, p, x) ==
  /\ p \in Seq(Items) /\ Len(p) = Len(q) + 1 /\ p[Len(q) + 1] = x
  /\ \A k \in 1..Len(q) : p[k] = q[k]

LEMMA AppendIs ==
  ASSUME NEW q, NEW f \in [Topics -> Nat], Holds(q, f), NEW t \in Topics, f[t] = 0,
         NEW p, Appended(q, p, Item(t, 1))
  PROVE  Holds(p, Put(f, t, 1))
<1>1. PICK x \in Items : x = Item(t, 1) /\ x.top = t /\ x.cnt = 1
  BY ItemIs
<1>2. PICK n \in Nat : n = Len(q) /\ q \in Seq(Items)
  <2>1. q \in Seq(Items)
    BY DEF Holds
  <2> QED  BY <2>1
<1>3. /\ p \in Seq(Items) /\ Len(p) = n + 1 /\ p[n + 1] = x
      /\ \A k \in 1..n : p[k] = q[k]
  BY <1>1, <1>2 DEF Appended
<1>4. \A k \in 1..n : q[k].cnt = f[q[k].top] /\ q[k].cnt > 0 /\ q[k].cnt \in Nat
                      /\ q[k].top \in Topics
  BY <1>2, ItemsAre DEF Holds
<1>5. \A k \in 1..n : q[k].top # t
  BY <1>4
<1>6. PICK g : g = Put(f, t, 1)
  OBVIOUS
<1>7. g[t] = 1 /\ \A u \in Topics \ {t} : g[u] = f[u]
  BY <1>6, PutIs
<1>13. \A k, l \in 1..n : k < l => q[k].cnt >= q[l].cnt
  BY <1>2 DEF Holds, Sorted
<1>8. Sorted(p)
  <2>1. ASSUME NEW a \in 1..n + 1, NEW b \in 1..n + 1, a < b PROVE p[a].cnt >= p[b].cnt
    <3>1. CASE b \in 1..n
      <4>1. a \in 1..n
        BY <2>1, <3>1
      <4>2. q[a].cnt >= q[b].cnt
        BY <1>2, <1>13, <2>1, <3>1, <4>1
      <4>3. p[a] = q[a] /\ p[b] = q[b]
        BY <1>3, <3>1, <4>1
      <4> QED  BY <4>2, <4>3
    <3>2. CASE b = n + 1
      <4>1. a \in 1..n
        BY <2>1, <3>2
      <4>2. p[a] = q[a] /\ q[a].cnt > 0 /\ q[a].cnt \in Nat
        BY <1>3, <1>4, <4>1
      <4>3. p[b].cnt = 1
        BY <1>1, <1>3, <3>2
      <4> QED  BY <4>2, <4>3
    <3> QED  BY <3>1, <3>2
  <2> QED  BY <1>3, <2>1 DEF Sorted
<1>9. UniqueTops(p)
  <2>1. ASSUME NEW a \in 1..n + 1, NEW b \in 1..n + 1, p[a].top = p[b].top PROVE a = b
    <3>1. CASE a \in 1..n /\ b \in 1..n
      BY <1>2, <1>3, <2>1, <3>1 DEF Holds, UniqueTops
    <3>2. CASE ~(a \in 1..n /\ b \in 1..n)
      BY <1>1, <1>3, <1>5, <2>1, <3>2
    <3> QED  BY <3>1, <3>2
  <2> QED  BY <1>3, <2>1 DEF UniqueTops
<1>10. ASSUME NEW k \in 1..Len(p) PROVE p[k].cnt = g[p[k].top] /\ p[k].cnt > 0
  <2>1. CASE k \in 1..n
    BY <1>3, <1>4, <1>5, <1>7, <2>1
  <2>2. CASE k = n + 1
    BY <1>1, <1>3, <1>7, <2>2
  <2> QED  BY <1>3, <2>1, <2>2
<1>11. ASSUME NEW u \in Topics, g[u] > 0 PROVE \E k \in 1..Len(p) : p[k].top = u
  <2>1. CASE u = t
    <3>1. n + 1 \in 1..Len(p)
      BY <1>3
    <3> QED  BY <1>1, <1>3, <2>1, <3>1
  <2>2. CASE u # t
    <3>1. PICK k \in 1..n : q[k].top = u
      BY <1>2, <1>7, <1>11, <2>2 DEF Holds
    <3>2. k \in 1..Len(p)
      BY <1>3
    <3> QED  BY <1>3, <3>1, <3>2
  <2> QED  BY <2>1, <2>2
<1>12. Holds(p, g)
  BY <1>3, <1>8, <1>9, <1>10, <1>11 DEF Holds
<1> QED  BY <1>6, <1>12

LEMMA AppendHolds ==
  ASSUME NEW q, NEW f \in [Topics -> Nat], Holds(q, f), NEW t \in Topics, f[t] = 0,
         NEW p, p = Append(q, Item(t, 1))
  PROVE  Holds(p, Put(f, t, 1)) /\ p \in Seq(Items) /\ Len(p) = Len(q) + 1
<1>1. PICK x \in Items : x = Item(t, 1)
  BY ItemIs
<1>2. q \in Seq(Items)
  BY DEF Holds
<1>3. p = Append(q, x)
  BY <1>1
<1>4. Appended(q, p, x)
  BY <1>2, <1>3 DEF Appended
<1>5. p \in Seq(Items) /\ Len(p) = Len(q) + 1
  BY <1>4 DEF Appended
<1> QED  BY <1>1, <1>4, <1>5, AppendIs

\* The table after holds one token of the topic t, and of the others what r held.
AddKeeps(after, r, t, f) ==
  InRoom(after) /\ Holds(after.items, Put(f, t, 1)) /\ after.origLength > 0

LEMMA AddNewTopIs ==
  ASSUME NEW r, InRoom(r), NEW f \in [Topics -> Nat], Holds(r.items, f),
         NEW t \in Topics, f[t] = 0
  PROVE  AddKeeps(AddNewTop(r, t, 1), r, t, f)
<1>1. PICK n \in Nat : n = Len(r.items) /\ n <= r.origLength
  BY TableIs DEF InRoom
<1>2. PICK size \in Nat : size = r.origLength + SUBSEQ_ALLOCS /\ size > r.origLength
  BY TableIs, TopicCountsAssumption DEF InRoom
<1>3. PICK grown : grown = IF Len(r.items) < r.origLength THEN r ELSE Reallocated(r, size)
  OBVIOUS
<1>4. PICK p : p = Append(r.items, Item(t, 1))
  OBVIOUS
<1>5. grown \in Tables /\ grown.items = r.items /\ n < grown.origLength
  <2>1. CASE n < r.origLength
    BY <1>1, <1>3, <2>1 DEF InRoom
  <2>2. CASE ~(n < r.origLength)
    <3>1. grown = Reallocated(r, size)
      BY <1>1, <1>3, <2>2
    <3>2. grown \in Tables /\ grown.items = r.items /\ grown.origLength = size
      BY <3>1, ReallocatedIs DEF InRoom
    <3>3. n < size
      BY <1>1, <1>2, TableIs DEF InRoom
    <3> QED  BY <3>2, <3>3
  <2> QED  BY <2>1, <2>2
<1>6. AddNewTop(r, t, 1) = With(grown, p)
  <2>1. AddNewTop(r, t, 1) = [grown EXCEPT !.items = Append(@, Item(t, 1))]
    BY <1>2, <1>3, Zenon DEF AddNewTop
  <2>2. [grown EXCEPT !.items = Append(@, Item(t, 1))] = With(grown, p)
    BY <1>4, <1>5, Zenon DEF With
  <2> QED  BY <2>1, <2>2
<1>7. Holds(p, Put(f, t, 1)) /\ p \in Seq(Items) /\ Len(p) = n + 1
  BY <1>1, <1>4, AppendHolds
<1>8. PICK after : after = With(grown, p)
  OBVIOUS
<1>9. /\ after \in Tables /\ after.items = p /\ after.origLength = grown.origLength
      /\ grown.origLength \in Nat
  BY <1>5, <1>7, <1>8, TableIs, WithIs
<1> QED  BY <1>1, <1>5, <1>6, <1>7, <1>8, <1>9 DEF InRoom, AddKeeps

LEMMA AddNewTopAftChkIs ==
  ASSUME NEW r, InRoom(r), NEW f \in [Topics -> Nat], Holds(r.items, f),
         NEW t \in Topics, f[t] = 0
  PROVE  AddKeeps(AddNewTopAftChk(r, t, 1), r, t, f)
<1>1. CASE r.origLength = 0
  <2>1. Len(r.items) = 0 /\ r.items \in Seq(Items)
    BY <1>1, TableIs DEF InRoom
  <2>2. r.items = <<>>
    BY <2>1
  <2>3. PICK p : p = <<Item(t, 1)>>
    OBVIOUS
  <2>4. p = Append(r.items, Item(t, 1))
    BY <2>2, <2>3
  <2>5. Holds(p, Put(f, t, 1)) /\ p \in Seq(Items) /\ Len(p) = 1
    <3>1. PICK q : q = r.items
      OBVIOUS
    <3>2. Holds(p, Put(f, t, 1)) /\ p \in Seq(Items) /\ Len(p) = Len(q) + 1
      BY <2>4, <3>1, AppendHolds
    <3> QED  BY <2>1, <3>1, <3>2
  <2>6. PICK grown : grown = Reallocated(r, INIT_TC_SIZE)
    OBVIOUS
  <2>7. grown \in Tables /\ grown.origLength = INIT_TC_SIZE /\ INIT_TC_SIZE \in Nat \ {0}
    BY <2>6, ReallocatedIs, TopicCountsAssumption DEF InRoom
  <2>8. AddNewTopAftChk(r, t, 1) = With(grown, p)
    BY <1>1, <2>3, <2>6, Zenon DEF AddNewTopAftChk, With
  <2>9. PICK after : after = With(grown, p)
    OBVIOUS
  <2>10. after \in Tables /\ after.items = p /\ after.origLength = INIT_TC_SIZE
    BY <2>5, <2>7, <2>9, WithIs
  <2>11. 1 <= INIT_TC_SIZE /\ INIT_TC_SIZE > 0
    BY <2>7
  <2>12. AddKeeps(after, r, t, f)
    BY <2>5, <2>10, <2>11 DEF InRoom, AddKeeps
  <2> QED  BY <2>8, <2>9, <2>12
<1>2. CASE r.origLength # 0
  BY <1>2, AddNewTopIs DEF AddNewTopAftChk
<1> QED  BY <1>1, <1>2

-----------------------------------------------------------------------------
\* The loop of upd_count(delta).
Steps(q, delta, N, g) ==
  g = [n \in 0..N |-> IF n = 0 THEN [items |-> q, delta |-> delta, ind |-> 1]
                      ELSE UpdateItem(g[n - 1])]

LEMMA LoopIs ==
  ASSUME NEW q, NEW delta
  PROVE  UpdateItems(q, delta) = (CHOOSE g : Steps(q, delta, Len(q), g))[Len(q)]
BY Zenon DEF UpdateItems, Steps

LEMMA StepsExist ==
  ASSUME NEW q, NEW delta, NEW N \in Nat
  PROVE  \E g : Steps(q, delta, N, g)
<1> DEFINE Good == {n \in Nat : \E g : Steps(q, delta, n, g)}
<1>1. 0 \in Good
  <2>1. PICK g : g = [n \in 0..0 |-> [items |-> q, delta |-> delta, ind |-> 1]]
    OBVIOUS
  <2>2. Steps(q, delta, 0, g)
    BY <2>1 DEF Steps
  <2> QED  BY <2>2
<1>2. ASSUME NEW n \in Nat, n \in Good PROVE n + 1 \in Good
  <2>1. PICK g : Steps(q, delta, n, g)
    BY <1>2
  <2>2. PICK h : h = [m \in 0..n + 1 |-> IF m <= n THEN g[m] ELSE UpdateItem(g[n])]
    OBVIOUS
  <2>3. \A m \in 0..n : h[m] = g[m]
    BY <2>2
  <2>4. h[n + 1] = UpdateItem(h[n])
    BY <2>2, <2>3
  <2>5. \A m \in 0..n + 1 :
          h[m] = IF m = 0 THEN [items |-> q, delta |-> delta, ind |-> 1]
                 ELSE UpdateItem(h[m - 1])
    <3> SUFFICES ASSUME NEW m \in 0..n + 1
                 PROVE  h[m] = IF m = 0 THEN [items |-> q, delta |-> delta, ind |-> 1]
                               ELSE UpdateItem(h[m - 1])
      OBVIOUS
    <3>1. CASE m = n + 1
      <4>1. m # 0 /\ m - 1 = n
        BY <3>1
      <4> QED  BY <2>4, <3>1, <4>1
    <3>2. CASE m # n + 1
      <4>1. m \in 0..n /\ (m # 0 => m - 1 \in 0..n)
        BY <3>2
      <4>2. g[m] = IF m = 0 THEN [items |-> q, delta |-> delta, ind |-> 1]
                   ELSE UpdateItem(g[m - 1])
        BY <2>1, <4>1 DEF Steps
      <4> QED  BY <2>3, <4>1, <4>2
    <3> QED  BY <3>1, <3>2
  <2>6. h = [m \in 0..n + 1 |-> IF m = 0 THEN [items |-> q, delta |-> delta, ind |-> 1]
                                ELSE UpdateItem(h[m - 1])]
    BY <2>2, <2>5
  <2>7. Steps(q, delta, n + 1, h)
    BY <2>6 DEF Steps
  <2> QED  BY <2>7
<1> HIDE DEF Good
<1>3. N \in Good
  BY <1>1, <1>2, NatSetInduction
<1> QED  BY <1>3 DEF Good

\* After n iterations: the items before ind have their new counts g, the others
\* the old ones f; a topic of the delta is still in it when its item comes later
\* or there is none.
LoopedAs(p, delta, ind, q, f, g, n) ==
  /\ p \in Seq(Items) /\ UniqueTops(p)
  /\ ind \in 1..Len(p) + 1 /\ ind + Len(q) = n + 1 + Len(p)
  /\ \A i \in 1..Len(p) :
       /\ f[p[i].top] > 0 /\ p[i].cnt > 0
       /\ p[i].cnt = IF i < ind THEN g[p[i].top] ELSE f[p[i].top]
  /\ \A t \in Topics :
       /\ t \in DOMAIN delta <=>
            g[t] # f[t] /\ (f[t] > 0 => \E i \in ind..Len(p) : p[i].top = t)
       /\ f[t] > 0 /\ g[t] > 0 => \E i \in 1..Len(p) : p[i].top = t
  /\ \A t \in DOMAIN delta : t \in Topics /\ delta[t] = g[t] - f[t]

\* The same of the record the loop computes.
Looped(s, q, f, g, n) ==
  /\ s = [items |-> s.items, delta |-> s.delta, ind |-> s.ind]
  /\ LoopedAs(s.items, s.delta, s.ind, q, f, g, n)

\* The delta without the topic of the item at ind.
Rest(s) == [t \in DOMAIN s.delta \ {s.items[s.ind].top} |-> s.delta[t]]

\* An iteration, with the topic t of the item it looks at.
IterationIs(s, t, f, g) ==
  /\ s.ind \in 1..Len(s.items) /\ t \in Topics
  /\ UpdateItem(s) =
       IF g[t] = f[t] THEN [items |-> s.items, delta |-> s.delta, ind |-> s.ind + 1]
       ELSE IF g[t] = 0
       THEN [items |-> WithoutItem(s.items, s.ind), delta |-> Rest(s), ind |-> s.ind]
       ELSE [items |-> [s.items EXCEPT ![s.ind].cnt = g[t]], delta |-> Rest(s),
             ind |-> s.ind + 1]

LEMMA UpdateItemIs ==
  ASSUME NEW q, NEW f \in [Topics -> Nat], NEW g \in [Topics -> Nat], NEW s, NEW n \in Nat,
         Len(q) \in Nat, n < Len(q), Looped(s, q, f, g, n),
         NEW t, t = s.items[s.ind].top
  PROVE  IterationIs(s, t, f, g)
<1>1. PICK k : k = s.ind
  OBVIOUS
<1>2. s.items \in Seq(Items) /\ Len(s.items) \in Nat
  BY DEF Looped, LoopedAs
<1>3. k \in 1..Len(s.items)
  BY <1>1, <1>2 DEF Looped, LoopedAs
<1>4. t \in Topics /\ t = s.items[k].top
  <2>1. t = s.items[k].top
    BY <1>1
  <2> QED  BY <1>2, <1>3, <2>1, ItemsAre
<1>5. f[t] > 0 /\ s.items[k].cnt = f[t]
  BY <1>1, <1>2, <1>3, <1>4 DEF Looped, LoopedAs
<1>6. t \in DOMAIN s.delta <=> g[t] # f[t]
  <2>1. k \in s.ind..Len(s.items)
    BY <1>1, <1>2, <1>3
  <2> QED  BY <1>4, <2>1 DEF Looped, LoopedAs
<1>7. g[t] # f[t] => s.items[k].cnt + s.delta[t] = g[t]
  <2>1. g[t] # f[t] => s.delta[t] = g[t] - f[t]
    BY <1>6 DEF Looped, LoopedAs
  <2> QED  BY <1>4, <1>5, <2>1
<1>8. CASE g[t] = f[t]
  <2>1. UpdateItem(s) = [s EXCEPT !.ind = @ + 1]
    BY <1>1, <1>4, <1>6, <1>8, Zenon DEF UpdateItem
  <2>2. [s EXCEPT !.ind = @ + 1] = [items |-> s.items, delta |-> s.delta, ind |-> s.ind + 1]
    BY DEF Looped
  <2> QED  BY <1>1, <1>3, <1>4, <1>6, <1>8, <2>1, <2>2 DEF IterationIs
<1>9. CASE g[t] # f[t] /\ g[t] = 0
  <2>1. PICK p : p = WithoutItem(s.items, s.ind)
    OBVIOUS
  <2>2. UpdateItem(s) = [s EXCEPT !.items = p, !.delta = Rest(s)]
    BY <1>1, <1>4, <1>6, <1>7, <1>9, <2>1, Zenon DEF UpdateItem, Rest
  <2>3. PICK m : m = [s EXCEPT !.items = p]
    OBVIOUS
  <2>4. m = [items |-> p, delta |-> s.delta, ind |-> s.ind]
    BY <2>3 DEF Looped
  <2>5. [m EXCEPT !.delta = Rest(s)] = [items |-> p, delta |-> Rest(s), ind |-> s.ind]
    BY <2>4
  <2>6. UpdateItem(s) = [items |-> p, delta |-> Rest(s), ind |-> s.ind]
    BY <2>2, <2>3, <2>5, Zenon
  <2> QED  BY <1>1, <1>3, <1>4, <1>6, <1>9, <2>1, <2>6 DEF IterationIs
<1>10. CASE g[t] # f[t] /\ g[t] # 0
  <2>1. PICK p : p = [s.items EXCEPT ![s.ind].cnt = g[t]]
    OBVIOUS
  <2>2. UpdateItem(s) = [items |-> p, delta |-> Rest(s), ind |-> s.ind + 1]
    BY <1>1, <1>4, <1>6, <1>7, <1>10, <2>1, Zenon DEF UpdateItem, Rest
  <2> QED  BY <1>1, <1>3, <1>4, <1>6, <1>10, <2>1, <2>2 DEF IterationIs
<1> QED  BY <1>8, <1>9, <1>10

-----------------------------------------------------------------------------
\* What an iteration at the item ind does, as UpdateItemIs says.
LEMMA LoopKeeps ==
  ASSUME NEW q, NEW f \in [Topics -> Nat], NEW g \in [Topics -> Nat], NEW n \in Nat,
         NEW p, NEW delta, NEW ind, LoopedAs(p, delta, ind, q, f, g, n),
         ind \in 1..Len(p), g[p[ind].top] = f[p[ind].top], Len(q) \in Nat
  PROVE  LoopedAs(p, delta, ind + 1, q, f, g, n + 1)
<1>1. p \in Seq(Items) /\ Len(p) \in Nat /\ ind \in Nat
  BY DEF LoopedAs
<1>2. ind + 1 \in 1..Len(p) + 1 /\ (ind + 1) + Len(q) = (n + 1) + 1 + Len(p)
  <2>1. PICK lp \in Nat, lq \in Nat : lp = Len(p) /\ lq = Len(q)
    BY <1>1
  <2>2. ind \in 1..lp /\ ind + lq = n + 1 + lp
    BY <2>1 DEF LoopedAs
  <2>3. ind + 1 \in 1..lp + 1 /\ (ind + 1) + lq = (n + 1) + 1 + lp
    BY <1>1, <2>2
  <2> QED  BY <1>1, <2>1, <2>3
<1>3. ASSUME NEW i \in 1..Len(p)
      PROVE  /\ f[p[i].top] > 0 /\ p[i].cnt > 0
             /\ p[i].cnt = IF i < ind + 1 THEN g[p[i].top] ELSE f[p[i].top]
  <2>1. /\ f[p[i].top] > 0 /\ p[i].cnt > 0
        /\ p[i].cnt = IF i < ind THEN g[p[i].top] ELSE f[p[i].top]
    BY DEF LoopedAs
  <2>2. CASE i = ind
    BY <1>1, <2>1, <2>2
  <2>3. CASE i # ind
    BY <1>1, <2>1, <2>3
  <2> QED  BY <2>2, <2>3
<1>4. ASSUME NEW t \in Topics, g[t] # f[t]
      PROVE  (\E i \in ind..Len(p) : p[i].top = t)
               <=> (\E i \in ind + 1..Len(p) : p[i].top = t)
  <2>1. ASSUME NEW i \in ind..Len(p), p[i].top = t PROVE i \in ind + 1..Len(p)
    <3>1. i # ind
      BY <1>4, <2>1
    <3> QED  BY <1>1, <3>1
  <2>2. \A i \in ind + 1..Len(p) : i \in ind..Len(p)
    BY <1>1
  <2> QED  BY <2>1, <2>2
<1>5. ASSUME NEW t \in Topics
      PROVE  t \in DOMAIN delta <=>
               g[t] # f[t] /\ (f[t] > 0 => \E i \in ind + 1..Len(p) : p[i].top = t)
  BY <1>4, Zenon DEF LoopedAs
<1>6. /\ UniqueTops(p)
      /\ \A t \in Topics : f[t] > 0 /\ g[t] > 0 => \E i \in 1..Len(p) : p[i].top = t
      /\ \A t \in DOMAIN delta : t \in Topics /\ delta[t] = g[t] - f[t]
  BY DEF LoopedAs
<1> QED  BY <1>1, <1>2, <1>3, <1>5, <1>6, Zenon DEF LoopedAs

\* rest: the delta without the topic t.
LessTopic(delta, t) == [u \in DOMAIN delta \ {t} |-> delta[u]]

LEMMA LessTopicIs ==
  ASSUME NEW delta, NEW t, NEW f, NEW g,
         \A u \in DOMAIN delta : u \in Topics /\ delta[u] = g[u] - f[u],
         NEW d, d = LessTopic(delta, t)
  PROVE  /\ \A u \in Topics : u \in DOMAIN d <=> u \in DOMAIN delta /\ u # t
         /\ \A u \in DOMAIN d : u \in Topics /\ d[u] = g[u] - f[u]
BY DEF LessTopic

LEMMA LoopSets ==
  ASSUME NEW q, NEW f \in [Topics -> Nat], NEW g \in [Topics -> Nat], NEW n \in Nat,
         NEW p, NEW delta, NEW ind, LoopedAs(p, delta, ind, q, f, g, n),
         ind \in 1..Len(p), NEW t, t = p[ind].top, g[t] # f[t], g[t] # 0, Len(q) \in Nat,
         NEW m, Exchanged(p, m, ind, ind, g[t])
  PROVE  LoopedAs(m, LessTopic(delta, t), ind + 1, q, f, g, n + 1)
<1>1. /\ p \in Seq(Items) /\ Len(p) \in Nat /\ ind \in Nat
      /\ m \in Seq(Items) /\ Len(m) = Len(p)
  BY DEF LoopedAs, Exchanged
<1>2. ind + 1 \in 1..Len(m) + 1 /\ (ind + 1) + Len(q) = (n + 1) + 1 + Len(m)
  <2>1. PICK lp \in Nat, lq \in Nat : lp = Len(p) /\ lq = Len(q)
    BY <1>1
  <2>2. ind \in 1..lp /\ ind + lq = n + 1 + lp
    BY <2>1 DEF LoopedAs
  <2>3. ind + 1 \in 1..lp + 1 /\ (ind + 1) + lq = (n + 1) + 1 + lp
    BY <1>1, <2>2
  <2> QED  BY <1>1, <2>1, <2>3
<1>3. t \in Topics /\ g[t] \in Nat /\ g[t] > 0
  <2>1. t \in Topics
    BY <1>1, ItemsAre
  <2> QED  BY <2>1
<1>4. m[ind].top = t /\ m[ind].cnt = g[t]
  BY <1>3, ItemIs DEF Exchanged
<1>5. \A k \in 1..Len(p) \ {ind} : m[k] = p[k]
  BY DEF Exchanged
<1>6. \A k \in 1..Len(p) : m[k].top = p[k].top
  BY <1>4, <1>5
<1>7. ASSUME NEW i \in 1..Len(m)
      PROVE  /\ f[m[i].top] > 0 /\ m[i].cnt > 0
             /\ m[i].cnt = IF i < ind + 1 THEN g[m[i].top] ELSE f[m[i].top]
  <2>1. /\ f[p[i].top] > 0 /\ p[i].cnt > 0
        /\ p[i].cnt = IF i < ind THEN g[p[i].top] ELSE f[p[i].top]
    BY <1>1 DEF LoopedAs
  <2>2. f[m[i].top] > 0
    BY <1>1, <1>6, <2>1
  <2>3. CASE i = ind
    BY <1>1, <1>3, <1>4, <2>2, <2>3
  <2>4. CASE i # ind
    <3>1. m[i] = p[i]
      BY <1>1, <1>5, <2>4
    <3> QED  BY <1>1, <2>1, <2>4, <3>1
  <2> QED  BY <2>3, <2>4
<1>8. UniqueTops(m)
  BY <1>1, <1>6 DEF LoopedAs, UniqueTops
<1>9. ASSUME NEW u \in Topics, u # t
      PROVE  (\E i \in ind..Len(p) : p[i].top = u)
               <=> (\E i \in ind + 1..Len(m) : m[i].top = u)
  <2>1. ASSUME NEW i \in ind..Len(p), p[i].top = u
        PROVE  i \in ind + 1..Len(m) /\ m[i].top = u
    <3>1. i # ind
      BY <1>9, <2>1
    <3> QED  BY <1>1, <1>6, <2>1, <3>1
  <2>2. ASSUME NEW i \in ind + 1..Len(m), m[i].top = u
        PROVE  i \in ind..Len(p) /\ p[i].top = u
    BY <1>1, <1>6, <2>2
  <2> QED  BY <2>1, <2>2
<1>10. ~\E i \in ind + 1..Len(m) : m[i].top = t
  <2> SUFFICES ASSUME NEW i \in ind + 1..Len(m), m[i].top = t PROVE FALSE
    OBVIOUS
  <2>1. i \in 1..Len(m) /\ ind \in 1..Len(m) /\ i # ind
    BY <1>1
  <2> QED  BY <1>4, <1>8, <2>1 DEF UniqueTops
<1>11. PICK d : d = LessTopic(delta, t)
  OBVIOUS
<1>12. /\ \A u \in Topics : u \in DOMAIN d <=> u \in DOMAIN delta /\ u # t
       /\ \A u \in DOMAIN d : u \in Topics /\ d[u] = g[u] - f[u]
  <2>1. \A u \in DOMAIN delta : u \in Topics /\ delta[u] = g[u] - f[u]
    BY DEF LoopedAs
  <2> QED  BY <1>11, <2>1, LessTopicIs
<1>13. ASSUME NEW u \in Topics
       PROVE  u \in DOMAIN d <=>
                g[u] # f[u] /\ (f[u] > 0 => \E i \in ind + 1..Len(m) : m[i].top = u)
  <2>1. CASE u = t
    <3>1. f[t] > 0
      <4>1. f[p[ind].top] > 0
        BY DEF LoopedAs
      <4> QED  BY <4>1
    <3> QED  BY <1>10, <1>12, <2>1, <3>1, Zenon
  <2>2. CASE u # t
    <3>1. u \in DOMAIN delta <=>
            g[u] # f[u] /\ (f[u] > 0 => \E i \in ind..Len(p) : p[i].top = u)
      BY DEF LoopedAs
    <3> QED  BY <1>9, <1>12, <2>2, <3>1, Zenon
  <2> QED  BY <2>1, <2>2
<1>14. ASSUME NEW u \in Topics, f[u] > 0, g[u] > 0
       PROVE  \E i \in 1..Len(m) : m[i].top = u
  <2>1. \E i \in 1..Len(p) : p[i].top = u
    BY <1>14 DEF LoopedAs
  <2> QED  BY <1>1, <1>6, <2>1
<1> QED  BY <1>1, <1>2, <1>7, <1>8, <1>11, <1>12, <1>13, <1>14, Zenon DEF LoopedAs

LEMMA LoopRemoves ==
  ASSUME NEW q, NEW f \in [Topics -> Nat], NEW g \in [Topics -> Nat], NEW n \in Nat,
         NEW p, NEW delta, NEW ind, LoopedAs(p, delta, ind, q, f, g, n),
         ind \in 1..Len(p), NEW t, t = p[ind].top, g[t] # f[t], g[t] = 0, Len(q) \in Nat,
         NEW m, WithoutIt(p, m, ind)
  PROVE  LoopedAs(m, LessTopic(delta, t), ind, q, f, g, n + 1)
<1>1. /\ p \in Seq(Items) /\ Len(p) \in Nat \ {0} /\ ind \in Nat \ {0}
      /\ m \in Seq(Items) /\ Len(m) = Len(p) - 1
  BY DEF LoopedAs, WithoutIt
<1>2. ind \in 1..Len(m) + 1 /\ ind + Len(q) = (n + 1) + 1 + Len(m)
  <2>1. PICK lp \in Nat, lq \in Nat : lp = Len(p) /\ lq = Len(q)
    BY <1>1
  <2>2. ind \in 1..lp /\ ind + lq = n + 1 + lp
    BY <2>1 DEF LoopedAs
  <2>3. ind \in 1..(lp - 1) + 1 /\ ind + lq = (n + 1) + 1 + (lp - 1)
    BY <1>1, <2>2
  <2>4. Len(m) = lp - 1
    BY <1>1, <2>1
  <2> QED  BY <2>1, <2>3, <2>4
<1>3. /\ \A k \in 1..Len(m) : \E j \in 1..Len(p) \ {ind} :
            /\ m[k] = p[j] /\ j = IF k = ind THEN Len(p) ELSE k
      /\ \A j \in 1..Len(p) \ {ind} : \E k \in 1..Len(m) :
            /\ m[k] = p[j] /\ k = IF j = Len(p) THEN ind ELSE j
  <2>1. ind \in 1..Len(p) /\ p \in Seq(Items) /\ WithoutIt(p, m, ind)
    BY <1>1
  <2>2. WithoutKept(p, m, ind)
    BY <2>1, WithoutItKeeps
  <2> QED  BY <2>2 DEF WithoutKept
<1>4. \A k \in 1..Len(p) \ {ind} : p[k].top # t
  BY DEF LoopedAs, UniqueTops
<1>5. ASSUME NEW i \in 1..Len(m)
      PROVE  /\ f[m[i].top] > 0 /\ m[i].cnt > 0
             /\ m[i].cnt = IF i < ind THEN g[m[i].top] ELSE f[m[i].top]
  <2>1. PICK j \in 1..Len(p) \ {ind} : m[i] = p[j] /\ j = IF i = ind THEN Len(p) ELSE i
    BY <1>3
  <2>2. /\ f[p[j].top] > 0 /\ p[j].cnt > 0
        /\ p[j].cnt = IF j < ind THEN g[p[j].top] ELSE f[p[j].top]
    BY DEF LoopedAs
  <2>3. j < ind <=> i < ind
    BY <1>1, <2>1
  <2> QED  BY <2>1, <2>2, <2>3, Zenon
<1>6. UniqueTops(m)
  <2> SUFFICES ASSUME NEW a \in 1..Len(m), NEW b \in 1..Len(m), m[a].top = m[b].top
               PROVE  a = b
    BY DEF UniqueTops
  <2>1. PICK k \in 1..Len(p) \ {ind} : m[a] = p[k] /\ k = IF a = ind THEN Len(p) ELSE a
    BY <1>3
  <2>2. PICK l \in 1..Len(p) \ {ind} : m[b] = p[l] /\ l = IF b = ind THEN Len(p) ELSE b
    BY <1>3
  <2>3. k = l
    BY <2>1, <2>2 DEF LoopedAs, UniqueTops
  <2> QED  BY <1>1, <2>1, <2>2, <2>3
<1>7. ASSUME NEW u \in Topics, u # t
      PROVE  (\E i \in ind..Len(p) : p[i].top = u) <=> (\E i \in ind..Len(m) : m[i].top = u)
  <2>1. ASSUME NEW j \in ind..Len(p), p[j].top = u
        PROVE  \E i \in ind..Len(m) : m[i].top = u
    <3>1. j \in 1..Len(p) \ {ind}
      BY <1>1, <1>7, <2>1
    <3>2. PICK k \in 1..Len(m) : m[k] = p[j] /\ k = IF j = Len(p) THEN ind ELSE j
      BY <1>3, <3>1
    <3>3. k \in ind..Len(m)
      BY <1>1, <3>2
    <3> QED  BY <2>1, <3>2, <3>3
  <2>2. ASSUME NEW k \in ind..Len(m), m[k].top = u
        PROVE  \E i \in ind..Len(p) : p[i].top = u
    <3>1. k \in 1..Len(m)
      BY <1>1
    <3>2. PICK j \in 1..Len(p) \ {ind} : m[k] = p[j] /\ j = IF k = ind THEN Len(p) ELSE k
      BY <1>3, <3>1
    <3>3. j \in ind..Len(p)
      BY <1>1, <3>2
    <3> QED  BY <2>2, <3>2, <3>3
  <2> QED  BY <2>1, <2>2
<1>8. ~\E i \in ind..Len(m) : m[i].top = t
  <2> SUFFICES ASSUME NEW i \in ind..Len(m), m[i].top = t PROVE FALSE
    OBVIOUS
  <2>1. i \in 1..Len(m)
    BY <1>1
  <2>2. PICK j \in 1..Len(p) \ {ind} : m[i] = p[j]
    BY <1>3, <2>1
  <2> QED  BY <1>4, <2>2
<1>11. PICK d : d = LessTopic(delta, t)
  OBVIOUS
<1>12. /\ \A u \in Topics : u \in DOMAIN d <=> u \in DOMAIN delta /\ u # t
       /\ \A u \in DOMAIN d : u \in Topics /\ d[u] = g[u] - f[u]
  <2>1. \A u \in DOMAIN delta : u \in Topics /\ delta[u] = g[u] - f[u]
    BY DEF LoopedAs
  <2> QED  BY <1>11, <2>1, LessTopicIs
<1>13. ASSUME NEW u \in Topics
       PROVE  u \in DOMAIN d <=>
                g[u] # f[u] /\ (f[u] > 0 => \E i \in ind..Len(m) : m[i].top = u)
  <2>1. CASE u = t
    <3>1. f[t] > 0
      <4>1. f[p[ind].top] > 0
        BY DEF LoopedAs
      <4> QED  BY <4>1
    <3> QED  BY <1>8, <1>12, <2>1, <3>1, Zenon
  <2>2. CASE u # t
    <3>1. u \in DOMAIN delta <=>
            g[u] # f[u] /\ (f[u] > 0 => \E i \in ind..Len(p) : p[i].top = u)
      BY DEF LoopedAs
    <3> QED  BY <1>7, <1>12, <2>2, <3>1, Zenon
  <2> QED  BY <2>1, <2>2
<1>14. ASSUME NEW u \in Topics, f[u] > 0, g[u] > 0
       PROVE  \E i \in 1..Len(m) : m[i].top = u
  <2>1. PICK j \in 1..Len(p) : p[j].top = u
    BY <1>14 DEF LoopedAs
  <2>2. j # ind
    BY <1>14, <2>1
  <2> QED  BY <1>3, <2>1, <2>2
<1> QED  BY <1>1, <1>2, <1>5, <1>6, <1>11, <1>12, <1>13, <1>14, Zenon DEF LoopedAs

-----------------------------------------------------------------------------
LEMMA LoopStep ==
  ASSUME NEW q, NEW f \in [Topics -> Nat], NEW g \in [Topics -> Nat], NEW s, NEW n \in Nat,
         Len(q) \in Nat, n < Len(q), Looped(s, q, f, g, n)
  PROVE  Looped(UpdateItem(s), q, f, g, n + 1)
<1>1. PICK p, delta, ind : p = s.items /\ delta = s.delta /\ ind = s.ind
  OBVIOUS
<1>2. LoopedAs(p, delta, ind, q, f, g, n)
  BY <1>1 DEF Looped
<1>3. PICK t : t = p[ind].top
  OBVIOUS
<1>4. /\ ind \in 1..Len(p) /\ t \in Topics
      /\ UpdateItem(s) =
           IF g[t] = f[t] THEN [items |-> p, delta |-> delta, ind |-> ind + 1]
           ELSE IF g[t] = 0
           THEN [items |-> WithoutItem(p, ind), delta |-> Rest(s), ind |-> ind]
           ELSE [items |-> [p EXCEPT ![ind].cnt = g[t]], delta |-> Rest(s), ind |-> ind + 1]
  <2>1. t = s.items[s.ind].top
    BY <1>1, <1>3
  <2>2. IterationIs(s, t, f, g)
    BY <2>1, UpdateItemIs
  <2> QED  BY <1>1, <2>2, Zenon DEF IterationIs
<1>5. Rest(s) = LessTopic(delta, t)
  BY <1>1, <1>3, Zenon DEF Rest, LessTopic
<1>6. p \in Seq(Items)
  BY <1>2 DEF LoopedAs
<1>7. ASSUME NEW a, NEW b, NEW c, UpdateItem(s) = [items |-> a, delta |-> b, ind |-> c],
             LoopedAs(a, b, c, q, f, g, n + 1)
      PROVE  Looped(UpdateItem(s), q, f, g, n + 1)
  <2>1. PICK r : r = UpdateItem(s)
    OBVIOUS
  <2>2. r = [items |-> a, delta |-> b, ind |-> c]
    BY <1>7, <2>1
  <2>3. r.items = a /\ r.delta = b /\ r.ind = c
    BY <2>2
  <2> QED  BY <1>7, <2>1, <2>2, <2>3, Zenon DEF Looped
<1>8. CASE g[t] = f[t]
  <2>1. LoopedAs(p, delta, ind + 1, q, f, g, n + 1)
    BY <1>2, <1>3, <1>4, <1>8, LoopKeeps
  <2>2. UpdateItem(s) = [items |-> p, delta |-> delta, ind |-> ind + 1]
    BY <1>4, <1>8
  <2> QED  BY <1>7, <2>1, <2>2
<1>9. CASE g[t] # f[t] /\ g[t] = 0
  <2>1. PICK m : m = WithoutItem(p, ind)
    OBVIOUS
  <2>2. WithoutIt(p, m, ind)
    BY <1>4, <1>6, <2>1, WithoutItemIs
  <2>3. LoopedAs(m, LessTopic(delta, t), ind, q, f, g, n + 1)
    BY <1>2, <1>3, <1>4, <1>9, <2>2, LoopRemoves
  <2>4. UpdateItem(s) = [items |-> m, delta |-> LessTopic(delta, t), ind |-> ind]
    BY <1>4, <1>5, <1>9, <2>1, Zenon
  <2> QED  BY <1>7, <2>3, <2>4
<1>10. CASE g[t] # f[t] /\ g[t] # 0
  <2>1. PICK m : m = [p EXCEPT ![ind].cnt = g[t]]
    OBVIOUS
  <2>2. Exchanged(p, m, ind, ind, g[t])
    BY <1>4, <1>6, <2>1, SetCount
  <2>3. LoopedAs(m, LessTopic(delta, t), ind + 1, q, f, g, n + 1)
    BY <1>2, <1>3, <1>4, <1>10, <2>2, LoopSets
  <2>4. UpdateItem(s) = [items |-> m, delta |-> LessTopic(delta, t), ind |-> ind + 1]
    BY <1>4, <1>5, <1>10, <2>1, Zenon
  <2> QED  BY <1>7, <2>3, <2>4
<1> QED  BY <1>8, <1>9, <1>10

\* The delta of upd_count(word, delta) from the counts f to the counts g.
Delta(f, g) == [t \in {u \in Topics : g[u] # f[u]} |-> g[t] - f[t]]

LEMMA LoopStarts ==
  ASSUME NEW q, NEW f \in [Topics -> Nat], NEW g \in [Topics -> Nat], Holds(q, f),
         NEW s, s = [items |-> q, delta |-> Delta(f, g), ind |-> 1]
  PROVE  Looped(s, q, f, g, 0)
<1>1. PICK delta : delta = Delta(f, g)
  OBVIOUS
<1>2. /\ \A t \in Topics : t \in DOMAIN delta <=> g[t] # f[t]
      /\ \A t \in DOMAIN delta : t \in Topics /\ delta[t] = g[t] - f[t]
  BY <1>1 DEF Delta
<1>3. q \in Seq(Items) /\ Len(q) \in Nat /\ UniqueTops(q)
  <2>1. q \in Seq(Items) /\ UniqueTops(q)
    BY DEF Holds
  <2> QED  BY <2>1
<1>4. 1 \in 1..Len(q) + 1 /\ 1 + Len(q) = 0 + 1 + Len(q)
  BY <1>3
<1>5. ASSUME NEW i \in 1..Len(q)
      PROVE  /\ f[q[i].top] > 0 /\ q[i].cnt > 0
             /\ q[i].cnt = IF i < 1 THEN g[q[i].top] ELSE f[q[i].top]
  <2>1. q[i].cnt = f[q[i].top] /\ q[i].cnt > 0
    BY DEF Holds
  <2>2. ~(i < 1)
    BY <1>3
  <2> QED  BY <2>1, <2>2
<1>6. \A t \in Topics : f[t] > 0 => \E i \in 1..Len(q) : q[i].top = t
  BY DEF Holds
<1>7. LoopedAs(q, delta, 1, q, f, g, 0)
  BY <1>2, <1>3, <1>4, <1>5, <1>6, Zenon DEF LoopedAs
<1>8. s.items = q /\ s.delta = delta /\ s.ind = 1
  BY <1>1
<1> QED  BY <1>1, <1>7, <1>8, Zenon DEF Looped

LEMMA UpdateItemsLoops ==
  ASSUME NEW q, NEW f \in [Topics -> Nat], NEW g \in [Topics -> Nat], Holds(q, f)
  PROVE  Looped(UpdateItems(q, Delta(f, g)), q, f, g, Len(q))
<1>1. PICK N \in Nat : N = Len(q)
  <2>1. q \in Seq(Items)
    BY DEF Holds
  <2> QED  BY <2>1
<1>2. PICK delta : delta = Delta(f, g)
  OBVIOUS
<1>3. PICK h : h = CHOOSE e : Steps(q, delta, N, e)
  OBVIOUS
<1>4. Steps(q, delta, N, h)
  BY <1>3, StepsExist, Zenon
<1>5. /\ h[0] = [items |-> q, delta |-> delta, ind |-> 1]
      /\ \A n \in Nat : n < N => h[n + 1] = UpdateItem(h[n])
  <2>1. \A n \in 0..N : h[n] = IF n = 0 THEN [items |-> q, delta |-> delta, ind |-> 1]
                               ELSE UpdateItem(h[n - 1])
    BY <1>4 DEF Steps
  <2>2. ASSUME NEW n \in Nat, n < N PROVE h[n + 1] = UpdateItem(h[n])
    <3>1. n + 1 \in 0..N /\ n + 1 # 0 /\ (n + 1) - 1 = n
      BY <2>2
    <3> QED  BY <2>1, <3>1
  <2>3. 0 \in 0..N
    OBVIOUS
  <2> QED  BY <2>1, <2>2, <2>3
<1> DEFINE Good == {n \in Nat : n <= N => Looped(h[n], q, f, g, n)}
<1>6. 0 \in Good
  BY <1>2, <1>5, LoopStarts
<1>7. ASSUME NEW n \in Nat, n \in Good PROVE n + 1 \in Good
  <2>1. n + 1 <= N => n < N /\ n <= N
    OBVIOUS
  <2>2. n < N => Looped(UpdateItem(h[n]), q, f, g, n + 1)
    BY <1>1, <1>7, <2>1, LoopStep
  <2> QED  BY <1>5, <2>1, <2>2
<1>8. Good \subseteq Nat
  OBVIOUS
<1> HIDE DEF Good
<1>9. N \in Good
  BY <1>6, <1>7, <1>8, NatSetInduction
<1>10. Looped(h[N], q, f, g, N)
  BY <1>9 DEF Good
<1> QED  BY <1>1, <1>2, <1>3, <1>10, LoopIs, Zenon

\* What upd_count(delta) leaves of the array, and of the delta, before it adds.
UpdatedAs(p, d, f, g) ==
  /\ p \in Seq(Items) /\ UniqueTops(p)
  /\ \A i \in 1..Len(p) : f[p[i].top] > 0 /\ p[i].cnt > 0 /\ p[i].cnt = g[p[i].top]
  /\ \A t \in Topics : /\ t \in DOMAIN d <=> f[t] = 0 /\ g[t] > 0
                       /\ f[t] > 0 /\ g[t] > 0 => \E i \in 1..Len(p) : p[i].top = t
  /\ \A t \in DOMAIN d : t \in Topics /\ d[t] = g[t]

LEMMA UpdateItemsIs ==
  ASSUME NEW q, NEW f \in [Topics -> Nat], NEW g \in [Topics -> Nat], Holds(q, f),
         NEW s, s = UpdateItems(q, Delta(f, g))
  PROVE  UpdatedAs(s.items, s.delta, f, g)
<1>1. PICK p, d, ind : p = s.items /\ d = s.delta /\ ind = s.ind
  OBVIOUS
<1>2. LoopedAs(p, d, ind, q, f, g, Len(q))
  BY <1>1, UpdateItemsLoops DEF Looped
<1>3. q \in Seq(Items) /\ Len(q) \in Nat /\ p \in Seq(Items) /\ Len(p) \in Nat
  <2>1. q \in Seq(Items) /\ p \in Seq(Items)
    BY <1>2 DEF Holds, LoopedAs
  <2> QED  BY <2>1
<1>4. ind = Len(p) + 1
  <2>1. PICK lp \in Nat, lq \in Nat : lp = Len(p) /\ lq = Len(q)
    BY <1>3
  <2>2. ind \in 1..lp + 1 /\ ind + lq = lq + 1 + lp
    BY <1>2, <2>1 DEF LoopedAs
  <2>3. ind = lp + 1
    BY <2>2
  <2> QED  BY <2>1, <2>3
<1>5. ASSUME NEW i \in 1..Len(p)
      PROVE  f[p[i].top] > 0 /\ p[i].cnt > 0 /\ p[i].cnt = g[p[i].top]
  <2>1. i < ind
    BY <1>3, <1>4
  <2> QED  BY <1>2, <2>1 DEF LoopedAs
<1>6. ASSUME NEW t \in Topics PROVE t \in DOMAIN d <=> f[t] = 0 /\ g[t] > 0
  <2>1. ~\E i \in ind..Len(p) : p[i].top = t
    BY <1>3, <1>4
  <2>2. t \in DOMAIN d <=> g[t] # f[t] /\ ~(f[t] > 0)
    BY <1>2, <2>1, Zenon DEF LoopedAs
  <2>3. f[t] \in Nat /\ g[t] \in Nat
    OBVIOUS
  <2> QED  BY <2>2, <2>3
<1>7. ASSUME NEW t \in DOMAIN d PROVE t \in Topics /\ d[t] = g[t]
  <2>1. t \in Topics /\ d[t] = g[t] - f[t]
    BY <1>2 DEF LoopedAs
  <2>2. f[t] = 0
    BY <1>6, <2>1
  <2> QED  BY <2>1, <2>2
<1>8. /\ UniqueTops(p)
      /\ \A t \in Topics : f[t] > 0 /\ g[t] > 0 => \E i \in 1..Len(p) : p[i].top = t
  BY <1>2 DEF LoopedAs
<1>9. UpdatedAs(p, d, f, g)
  BY <1>3, <1>5, <1>6, <1>7, <1>8, Zenon DEF UpdatedAs
<1> QED  BY <1>1, <1>9

-----------------------------------------------------------------------------
\* The items of the counts g.
ItemsWith(g) == {Item(t, g[t]) : t \in {u \in Topics : g[u] > 0}}

LEMMA ItemsWithIs ==
  ASSUME NEW g \in [Topics -> Nat]
  PROVE  /\ ItemsWith(g) \subseteq Items /\ IsFiniteSet(ItemsWith(g))
         /\ Cardinality(ItemsWith(g)) \in Nat
         /\ \A x \in ItemsWith(g) : x.cnt = g[x.top] /\ x.cnt > 0
         /\ \A x, y \in ItemsWith(g) : x.top = y.top => x = y
         /\ \A t \in Topics : g[t] > 0 => \E x \in ItemsWith(g) : x.top = t
<1> DEFINE T == {u \in Topics : g[u] > 0}
<1>1. IsFiniteSet(T)
  BY TopicCountsAssumption, FS_Subset
<1>2. PICK h : h = [t \in T |-> Item(t, g[t])]
  OBVIOUS
<1>3. h \in Surjection(T, ItemsWith(g))
  BY <1>2 DEF Surjection, ItemsWith
<1>4. IsFiniteSet(ItemsWith(g)) /\ Cardinality(ItemsWith(g)) \in Nat
  BY <1>1, <1>3, FS_Surjection, FS_CardinalityType
<1>5. \A t \in T : /\ Item(t, g[t]) \in Items /\ Item(t, g[t]).top = t
                   /\ Item(t, g[t]).cnt = g[t] /\ t \in Topics
  BY ItemIs
<1>6. \A x \in ItemsWith(g) : \E t \in T : x = Item(t, g[t])
  BY DEF ItemsWith
<1>7. \A x \in ItemsWith(g) : x \in Items /\ x.cnt = g[x.top] /\ x.cnt > 0
  BY <1>5, <1>6
<1>8. \A x, y \in ItemsWith(g) : x.top = y.top => x = y
  BY <1>5, <1>6
<1>9. ASSUME NEW t \in Topics, g[t] > 0 PROVE \E x \in ItemsWith(g) : x.top = t
  <2>1. Item(t, g[t]) \in ItemsWith(g)
    BY <1>9 DEF ItemsWith
  <2> QED  BY <1>5, <1>9, <2>1
<1> QED  BY <1>4, <1>7, <1>8, <1>9

\* Whatever order std::sort leaves equal counts in.
LEMMA SortingHolds ==
  ASSUME NEW g \in [Topics -> Nat], NEW q \in Sortings(ItemsWith(g))
  PROVE  Holds(q, g) /\ Len(q) = Cardinality(ItemsWith(g))
<1> DEFINE S == ItemsWith(g)
<1>1. PICK N \in Nat : N = Cardinality(S)
  BY ItemsWithIs
<1>2. S \subseteq Items
  BY ItemsWithIs
<1>3. q \in [1..N -> S] /\ ItemsOf(q) = S /\ Sorted(q)
  BY <1>1 DEF Sortings
<1>4. q \in [1..N -> Items]
  BY <1>2, <1>3
<1>5. q \in Seq(Items) /\ Len(q) = N
  BY <1>4
<1>6. q \in Surjection(1..N, S)
  <2>1. \A x \in S : \E i \in 1..N : q[i] = x
    BY <1>3, <1>5 DEF ItemsOf
  <2> QED  BY <1>3, <2>1 DEF Surjection
<1>7. q \in Injection(1..N, S)
  <2>1. IsFiniteSet(1..N) /\ Cardinality(1..N) = N
    BY FS_Interval
  <2> QED  BY <1>1, <1>6, <2>1, FS_SurjSameCardinalityImpliesInj
<1>8. \A i, j \in 1..N : q[i] = q[j] => i = j
  BY <1>7 DEF Injection, IsInjective
<1>9. \A i \in 1..N : q[i] \in S
  BY <1>3
<1>10. UniqueTops(q)
  <2>1. ASSUME NEW i \in 1..N, NEW j \in 1..N, q[i].top = q[j].top PROVE i = j
    <3>1. q[i] = q[j]
      BY <1>9, <2>1, ItemsWithIs
    <3> QED  BY <1>8, <3>1
  <2> QED  BY <1>5, <2>1 DEF UniqueTops
<1>11. \A i \in 1..N : q[i].cnt = g[q[i].top] /\ q[i].cnt > 0
  BY <1>9, ItemsWithIs
<1>12. ASSUME NEW t \in Topics, g[t] > 0 PROVE \E i \in 1..N : q[i].top = t
  <2>1. PICK x \in S : x.top = t
    BY <1>12, ItemsWithIs
  <2>2. PICK i \in 1..N : q[i] = x
    BY <1>6 DEF Surjection
  <2> QED  BY <2>1, <2>2
<1> QED  BY <1>1, <1>3, <1>5, <1>10, <1>11, <1>12 DEF Holds

-----------------------------------------------------------------------------
\* The items of the topics that are left in the delta.
Added(d) == {Item(t, d[t]) : t \in DOMAIN d}

LEMMA AddedIs ==
  ASSUME NEW f \in [Topics -> Nat], NEW g \in [Topics -> Nat], NEW p, NEW d,
         UpdatedAs(p, d, f, g)
  PROVE  ItemsOf(p) \cup Added(d) = ItemsWith(g)
<1>1. p \in Seq(Items) /\ Len(p) \in Nat
  BY DEF UpdatedAs
<1>2. ASSUME NEW i \in 1..Len(p) PROVE p[i] \in ItemsWith(g)
  <2>1. p[i] \in Items /\ p[i].top \in Topics
    BY <1>1, ItemsAre
  <2>2. p[i].cnt > 0 /\ p[i].cnt = g[p[i].top]
    BY DEF UpdatedAs
  <2>3. p[i] = Item(p[i].top, p[i].cnt)
    BY <2>1 DEF Items, Item
  <2> QED  BY <2>1, <2>2, <2>3 DEF ItemsWith
<1>3. ASSUME NEW t \in DOMAIN d PROVE Item(t, d[t]) \in ItemsWith(g)
  <2>1. t \in Topics /\ d[t] = g[t] /\ g[t] > 0
    BY DEF UpdatedAs
  <2> QED  BY <2>1 DEF ItemsWith
<1>4. ASSUME NEW t \in Topics, g[t] > 0
      PROVE  Item(t, g[t]) \in ItemsOf(p) \cup Added(d)
  <2>1. CASE f[t] > 0
    <3>1. PICK i \in 1..Len(p) : p[i].top = t
      BY <1>4, <2>1 DEF UpdatedAs
    <3>2. p[i].cnt = g[t] /\ p[i] \in Items
      <4>1. p[i].cnt = g[p[i].top]
        BY DEF UpdatedAs
      <4> QED  BY <1>1, <3>1, <4>1, ItemsAre
    <3>3. p[i] = Item(t, g[t])
      BY <3>1, <3>2 DEF Items, Item
    <3> QED  BY <3>3 DEF ItemsOf
  <2>2. CASE f[t] = 0
    <3>1. t \in DOMAIN d /\ d[t] = g[t]
      BY <1>4, <2>2 DEF UpdatedAs
    <3> QED  BY <3>1 DEF Added
  <2>3. f[t] \in Nat
    OBVIOUS
  <2> QED  BY <2>1, <2>2, <2>3
<1> QED  BY <1>2, <1>3, <1>4 DEF ItemsOf, Added, ItemsWith

\* No more items than places.
LEMMA ItemsOfIs ==
  ASSUME NEW p \in Seq(Items)
  PROVE  /\ IsFiniteSet(ItemsOf(p)) /\ Cardinality(ItemsOf(p)) \in Nat
         /\ Cardinality(ItemsOf(p)) <= Len(p)
<1>1. PICK n \in Nat : n = Len(p)
  OBVIOUS
<1>2. IsFiniteSet(1..n) /\ Cardinality(1..n) = n
  BY FS_Interval
<1>3. PICK h : h = [i \in 1..n |-> p[i]]
  OBVIOUS
<1>4. h \in Surjection(1..n, ItemsOf(p))
  BY <1>1, <1>3 DEF Surjection, ItemsOf
<1> QED  BY <1>1, <1>2, <1>4, FS_Surjection, FS_CardinalityType

LEMMA AddedFinite ==
  ASSUME NEW d, DOMAIN d \subseteq Topics
  PROVE  IsFiniteSet(Added(d)) /\ Cardinality(Added(d)) \in Nat
<1>1. IsFiniteSet(DOMAIN d)
  BY TopicCountsAssumption, FS_Subset
<1>2. PICK h : h = [t \in DOMAIN d |-> Item(t, d[t])]
  OBVIOUS
<1>3. h \in Surjection(DOMAIN d, Added(d))
  BY <1>2 DEF Surjection, Added
<1> QED  BY <1>1, <1>3, FS_Surjection, FS_CardinalityType

LEMMA Blocks ==
  ASSUME NEW a \in Nat, NEW s \in Nat \ {0}
  PROVE  (a + s - 1) \div s \in Nat /\ a <= ((a + s - 1) \div s) * s
OBVIOUS

LEMMA Times ==
  ASSUME NEW a \in Nat, NEW b \in Nat
  PROVE  a * b \in Nat
OBVIOUS

\* The whole of upd_count(word, delta).
LEMMA UpdCountIs ==
  ASSUME NEW r, InRoom(r), NEW f \in [Topics -> Nat], NEW g \in [Topics -> Nat],
         Holds(r.items, f), NEW after \in UpdCountDelta(r, Delta(f, g))
  PROVE  InRoom(after) /\ Holds(after.items, g)
<1>1. PICK s : s = UpdateItems(r.items, Delta(f, g))
  OBVIOUS
<1>2. PICK p, d : p = s.items /\ d = s.delta
  OBVIOUS
<1>3. UpdatedAs(p, d, f, g)
  BY <1>1, <1>2, UpdateItemsIs
<1>4. p \in Seq(Items) /\ Len(p) \in Nat /\ DOMAIN d \subseteq Topics
  BY <1>3 DEF UpdatedAs
<1>5. PICK m : m = With(r, p)
  OBVIOUS
<1>6. m \in Tables /\ m.items = p /\ m.origLength \in Nat
  BY <1>4, <1>5, WithIs, TableIs DEF InRoom
<1>7. after \in AddAll(m, d)
  BY <1>1, <1>2, <1>5, Zenon DEF UpdCountDelta, With
<1>8. PICK k \in Nat : k = Cardinality(Added(d))
  BY <1>4, AddedFinite
<1>9. Cardinality(ItemsWith(g)) \in Nat /\ Cardinality(ItemsWith(g)) <= Len(p) + k
  <2>1. /\ IsFiniteSet(ItemsOf(p)) /\ Cardinality(ItemsOf(p)) \in Nat
        /\ Cardinality(ItemsOf(p)) <= Len(p) /\ IsFiniteSet(Added(d))
    BY <1>4, ItemsOfIs, AddedFinite
  <2>2. IsFiniteSet(ItemsOf(p) \cap Added(d))
        /\ Cardinality(ItemsOf(p) \cap Added(d)) \in Nat
    BY <2>1, FS_Subset, FS_CardinalityType
  <2>3. Cardinality(ItemsOf(p) \cup Added(d)) = Cardinality(ItemsOf(p)) + k
          - Cardinality(ItemsOf(p) \cap Added(d))
    BY <1>8, <2>1, FS_Union
  <2>4. PICK c : c = Cardinality(ItemsWith(g))
    OBVIOUS
  <2>5. c = Cardinality(ItemsOf(p)) + k - Cardinality(ItemsOf(p) \cap Added(d))
    BY <1>3, <2>3, <2>4, AddedIs
  <2>6. c \in Nat
    BY <2>4, ItemsWithIs
  <2>7. c <= Len(p) + k
    BY <1>4, <2>1, <2>2, <2>5
  <2> QED  BY <2>4, <2>6, <2>7
<1>10. PICK missing : missing = Len(p) + k - m.origLength
  OBVIOUS
<1>11. missing \in Int
  BY <1>4, <1>6, <1>10
<1>12. PICK blocks : blocks = IF missing <= 0 THEN 0
                              ELSE (missing + SUBSEQ_ALLOCS - 1) \div SUBSEQ_ALLOCS
  OBVIOUS
<1>13. SUBSEQ_ALLOCS \in Nat \ {0}
  BY TopicCountsAssumption
<1>14. blocks \in Nat /\ missing <= blocks * SUBSEQ_ALLOCS
  <2>1. CASE missing <= 0
    BY <1>12, <1>13, <2>1
  <2>2. CASE ~(missing <= 0)
    <3>1. missing \in Nat /\ blocks = (missing + SUBSEQ_ALLOCS - 1) \div SUBSEQ_ALLOCS
      BY <1>11, <1>12, <2>2
    <3> QED  BY <1>13, <3>1, Blocks
  <2> QED  BY <2>1, <2>2
<1>15. PICK size : size = m.origLength + blocks * SUBSEQ_ALLOCS
  OBVIOUS
<1>16. size \in Nat /\ Len(p) + k <= size
  <2>1. PICK b \in Nat : b = blocks * SUBSEQ_ALLOCS
    BY <1>13, <1>14, Times
  <2> QED  BY <1>4, <1>6, <1>10, <1>14, <1>15, <2>1
<1>17. PICK grown : grown = IF blocks = 0 THEN m ELSE Reallocated(m, size)
  OBVIOUS
<1>18. grown \in Tables /\ grown.origLength = size
  <2>1. CASE blocks = 0
    BY <1>6, <1>13, <1>15, <1>17, <2>1
  <2>2. CASE blocks # 0
    BY <1>6, <1>16, <1>17, <2>2, ReallocatedIs
  <2> QED  BY <2>1, <2>2
<1>19. PICK q \in Sortings(ItemsOf(p) \cup Added(d)) : after = With(grown, q)
  <2>1. AddAll(m, d) = {With(grown, q) : q \in Sortings(ItemsOf(p) \cup Added(d))}
    BY <1>6, <1>8, <1>10, <1>12, <1>15, <1>17, Zenon DEF AddAll, Added, With
  <2> QED  BY <1>7, <2>1
<1>20. q \in Sortings(ItemsWith(g))
  BY <1>3, <1>19, AddedIs
<1>21. Holds(q, g) /\ Len(q) = Cardinality(ItemsWith(g))
  BY <1>20, SortingHolds
<1>22. q \in Seq(Items)
  BY <1>21 DEF Holds
<1>23. after \in Tables /\ after.items = q /\ after.origLength = size
  BY <1>18, <1>19, <1>22, WithIs
<1>24. Len(q) <= size
  BY <1>4, <1>9, <1>16, <1>21
<1> QED  BY <1>21, <1>23, <1>24 DEF InRoom

-----------------------------------------------------------------------------
\* The array holds the word's tokens, and fits.
TableRight == InRoom(tc) /\ tokens \in [Topics -> Nat] /\ Holds(tc.items, tokens)

\* An update under way has the pointer a search for its new topic would give.
JobRight ==
  job = NoJob \/ \E new \in Topics : job = [new |-> new, newTop |-> FindTop(tc, new)]

\* Inductive.
TopicCountsInv == TableRight /\ JobRight

LEMMA AlignedFits ==
  ASSUME NEW n \in Nat
  PROVE  AlignedLength(n) \in Nat /\ n <= AlignedLength(n)
<1>1. INIT_TC_SIZE \in Nat /\ SUBSEQ_ALLOCS \in Nat \ {0}
  BY TopicCountsAssumption
<1>2. CASE n < INIT_TC_SIZE
  BY <1>1, <1>2 DEF AlignedLength
<1>3. CASE ~(n < INIT_TC_SIZE)
  <2>1. PICK a \in Nat : a = n - INIT_TC_SIZE
    BY <1>1, <1>3
  <2>2. PICK b \in Nat : b = a \div SUBSEQ_ALLOCS + 1
    BY <1>1
  <2>3. a <= b * SUBSEQ_ALLOCS /\ b * SUBSEQ_ALLOCS \in Nat
    BY <1>1, <2>2
  <2>4. AlignedLength(n) = INIT_TC_SIZE + b * SUBSEQ_ALLOCS
    BY <1>3, <2>1, <2>2 DEF AlignedLength
  <2>5. PICK c \in Nat : c = b * SUBSEQ_ALLOCS
    BY <2>3
  <2> QED  BY <1>1, <2>1, <2>3, <2>4, <2>5
<1> QED  BY <1>2, <1>3

LEMMA InitRight == Init => TopicCountsInv
<1> SUFFICES ASSUME Init PROVE TopicCountsInv
  OBVIOUS
<1>1. PICK f \in [Topics -> 0..MaxCount] :
        /\ tc \in {Assigned(q) : q \in Sortings(ItemsWith(f))}
                    \cup (IF ItemsWith(f) = {} THEN {Unallocated} ELSE {})
        /\ tokens = f
  BY Zenon DEF Init, ItemsWith
<1>2. f \in [Topics -> Nat]
  BY <1>1, TopicCountsAssumption
<1>3. CASE \E q \in Sortings(ItemsWith(f)) : tc = Assigned(q)
  <2>1. PICK q \in Sortings(ItemsWith(f)) : tc = Assigned(q)
    BY <1>3
  <2>2. Holds(q, f)
    BY <1>2, SortingHolds
  <2>3. q \in Seq(Items) /\ Len(q) \in Nat
    BY <2>2 DEF Holds
  <2>4. PICK n : n = AlignedLength(Len(q))
    OBVIOUS
  <2>5. n \in Nat /\ Len(q) <= n
    BY <2>3, <2>4, AlignedFits
  <2>6. tc = [items |-> q, origLength |-> n, alloc |-> 0]
    BY <2>1, <2>4 DEF Assigned
  <2>7. InRoom(tc) /\ tc.items = q
    BY <2>3, <2>5, <2>6 DEF InRoom, Tables
  <2> QED  BY <1>1, <1>2, <2>2, <2>7 DEF TableRight, JobRight, TopicCountsInv, Init
<1>4. CASE ItemsWith(f) = {} /\ tc = Unallocated
  <2>1. PICK q : q = <<>>
    OBVIOUS
  <2>2. q \in Seq(Items) /\ Len(q) = 0
    BY <2>1
  <2>3. tc = [items |-> q, origLength |-> 0, alloc |-> 0]
    BY <1>4, <2>1 DEF Unallocated
  <2>4. InRoom(tc) /\ tc.items = q
    BY <2>2, <2>3 DEF InRoom, Tables
  <2>5. \A t \in Topics : ~(f[t] > 0)
    BY <1>2, <1>4, ItemsWithIs
  <2>6. Holds(q, f)
    BY <2>2, <2>5 DEF Holds, Sorted, UniqueTops
  <2> QED  BY <1>1, <1>2, <2>4, <2>6 DEF TableRight, JobRight, TopicCountsInv, Init
<1> QED  BY <1>1, <1>3, <1>4

-----------------------------------------------------------------------------
LEMMA FoundIs ==
  ASSUME NEW r, InRoom(r), NEW f \in [Topics -> Nat], Holds(r.items, f), NEW t \in Topics
  PROVE  /\ FindTop(r, t) = NULL <=> f[t] = 0
         /\ f[t] > 0 => /\ FindTop(r, t).index \in 1..Len(r.items)
                        /\ r.items[FindTop(r, t).index].top = t
<1>1. CASE f[t] = 0
  <2>1. FindTop(r, t) = NULL
    BY <1>1, Found
  <2>2. ~(f[t] > 0)
    BY <1>1
  <2> QED  BY <1>1, <2>1, <2>2, Zenon
<1>2. CASE f[t] > 0
  <2>1. PICK i \in 1..Len(r.items) : r.items[i].top = t /\ FindTop(r, t) = PointerTo(r, i)
    BY <1>2, Found
  <2>2. r.alloc \in {0, 1} /\ i \in Nat
    BY TableIs DEF InRoom
  <2>3. FindTop(r, t) # NULL /\ FindTop(r, t).index = i
    BY <2>1, <2>2, TopicCountsAssumption DEF PointerTo
  <2>4. f[t] # 0
    BY <1>2
  <2> QED  BY <2>1, <2>3, <2>4, Zenon
<1> QED  BY <1>1, <1>2

\* A token more of the topic t, added by add or counted by Increment.
Given(r, t, add) ==
  IF FindTop(r, t) = NULL THEN add ELSE Increment(r, FindTop(r, t).index)

LEMMA GivenIs ==
  ASSUME NEW r, InRoom(r), NEW f \in [Topics -> Nat], Holds(r.items, f), NEW t \in Topics,
         NEW add, f[t] = 0 => AddKeeps(add, r, t, f),
         NEW after, after = Given(r, t, add)
  PROVE  /\ InRoom(after) /\ Holds(after.items, Put(f, t, f[t] + 1))
         /\ Put(f, t, f[t] + 1) \in [Topics -> Nat]
<1>1. f[t] + 1 \in Nat /\ Put(f, t, f[t] + 1) \in [Topics -> Nat]
  BY PutIs
<1>2. CASE f[t] = 0
  <2>1. after = add
    BY <1>2, FoundIs DEF Given
  <2>2. f[t] + 1 = 1
    BY <1>2
  <2> QED  BY <1>1, <1>2, <2>1, <2>2 DEF AddKeeps
<1>3. CASE f[t] > 0
  <2>1. PICK i : i = FindTop(r, t).index
    OBVIOUS
  <2>2. i \in 1..Len(r.items) /\ r.items[i].top = t /\ after = Increment(r, i)
    BY <1>3, <2>1, FoundIs DEF Given
  <2>3. IncrementKeeps(r, i, f)
    BY <2>2, IncrementIs DEF InRoom
  <2>4. /\ after \in Tables /\ Holds(after.items, Put(f, t, f[t] + 1))
        /\ after.origLength = r.origLength /\ Len(after.items) = Len(r.items)
    BY <2>2, <2>3 DEF IncrementKeeps
  <2> QED  BY <1>1, <2>4 DEF InRoom
<1> QED  BY <1>2, <1>3

LEMMA AddTokenKeeps ==
  ASSUME TopicCountsInv, NEW new \in Topics, AddToken(new)
  PROVE  TopicCountsInv'
<1>1. InRoom(tc) /\ tokens \in [Topics -> Nat] /\ Holds(tc.items, tokens)
  BY DEF TopicCountsInv, TableRight
<1>2. tokens[new] = 0 => AddKeeps(AddNewTopAftChk(tc, new, 1), tc, new, tokens)
  BY <1>1, AddNewTopAftChkIs
<1>3. tc' = Given(tc, new, AddNewTopAftChk(tc, new, 1))
  BY Zenon DEF AddToken, Given
<1>4. tokens' = Put(tokens, new, tokens[new] + 1) /\ job = NoJob /\ job' = job
  BY DEF AddToken, Put
<1>5. InRoom(tc') /\ Holds(tc'.items, tokens') /\ tokens' \in [Topics -> Nat]
  <2>1. PICK after : after = tc'
    OBVIOUS
  <2> QED  BY <1>1, <1>2, <1>3, <1>4, <2>1, GivenIs
<1> QED  BY <1>4, <1>5 DEF TopicCountsInv, TableRight, JobRight

LEMMA TakeOldKeeps ==
  ASSUME TopicCountsInv, NEW old \in Topics, NEW new \in Topics, TakeOld(old, new)
  PROVE  TopicCountsInv'
<1>1. InRoom(tc) /\ tokens \in [Topics -> Nat] /\ Holds(tc.items, tokens)
  BY DEF TopicCountsInv, TableRight
<1>2. PICK i : i = FindTop(tc, old).index
  OBVIOUS
<1>3. PICK d : d = Decrement(tc, i, FindTop(tc, new))
  OBVIOUS
<1>4. /\ tc' = d.tc /\ job' = [new |-> new, newTop |-> d.newTop]
      /\ tokens' = Put(tokens, old, tokens[old] - 1)
      /\ old # new /\ FindTop(tc, old) # NULL
  BY <1>2, <1>3, Zenon DEF TakeOld, Put
<1>5. tokens[old] > 0 /\ i \in 1..Len(tc.items) /\ tc.items[i].top = old
  <2>1. tokens[old] \in Nat /\ tokens[old] # 0
    BY <1>1, <1>4, FoundIs
  <2> QED  BY <1>1, <1>2, <2>1, FoundIs
<1>6. DecrementKeeps(tc, i, tokens, new, d.tc, d.newTop)
  BY <1>1, <1>3, <1>4, <1>5, DecrementIs
<1>7. InRoom(tc') /\ Holds(tc'.items, tokens') /\ d.newTop = FindTop(tc', new)
  BY <1>4, <1>5, <1>6, Zenon DEF DecrementKeeps
<1>8. tokens' \in [Topics -> Nat]
  <2>1. tokens[old] - 1 \in Nat
    BY <1>1, <1>5
  <2> QED  BY <1>1, <1>4, <2>1, PutIs
<1>9. \E t \in Topics : job' = [new |-> t, newTop |-> FindTop(tc', t)]
  BY <1>4, <1>7
<1> QED  BY <1>7, <1>8, <1>9, Zenon DEF TopicCountsInv, TableRight, JobRight

LEMMA GiveNewKeeps ==
  ASSUME TopicCountsInv, GiveNew
  PROVE  TopicCountsInv'
<1>1. InRoom(tc) /\ tokens \in [Topics -> Nat] /\ Holds(tc.items, tokens)
  BY DEF TopicCountsInv, TableRight
<1>2. PICK new \in Topics : job = [new |-> new, newTop |-> FindTop(tc, new)]
  BY DEF TopicCountsInv, JobRight, GiveNew
<1>3. job.new = new /\ job.newTop = FindTop(tc, new)
  BY <1>2
<1>4. tokens[new] = 0 => AddKeeps(AddNewTop(tc, new, 1), tc, new, tokens)
  BY <1>1, AddNewTopIs
<1>5. tc' = Given(tc, new, AddNewTop(tc, new, 1))
  BY <1>3, Zenon DEF GiveNew, Given
<1>6. tokens' = Put(tokens, new, tokens[new] + 1) /\ job' = NoJob
  BY <1>3, Zenon DEF GiveNew, Put
<1>7. InRoom(tc') /\ Holds(tc'.items, tokens') /\ tokens' \in [Topics -> Nat]
  <2>1. PICK after : after = tc'
    OBVIOUS
  <2> QED  BY <1>1, <1>4, <1>5, <1>6, <2>1, GivenIs
<1> QED  BY <1>6, <1>7 DEF TopicCountsInv, TableRight, JobRight

LEMMA SynchronizeKeeps ==
  ASSUME TopicCountsInv, NEW f \in [Topics -> 0..MaxCount], Synchronize(f)
  PROVE  TopicCountsInv'
<1>1. InRoom(tc) /\ tokens \in [Topics -> Nat] /\ Holds(tc.items, tokens)
  BY DEF TopicCountsInv, TableRight
<1>2. f \in [Topics -> Nat]
  BY TopicCountsAssumption
<1>3. PICK delta : delta = Delta(tokens, f)
  OBVIOUS
<1>4. /\ tc' \in UpdCountDelta(tc, delta) /\ job = NoJob /\ job' = job
      /\ tokens' = [t \in Topics |->
                      IF t \in DOMAIN delta THEN tokens[t] + delta[t] ELSE tokens[t]]
  BY <1>3, Zenon DEF Synchronize, Delta
<1>5. \A t \in Topics : /\ t \in DOMAIN delta <=> f[t] # tokens[t]
                        /\ t \in DOMAIN delta => delta[t] = f[t] - tokens[t]
  BY <1>3 DEF Delta
<1>6. \A t \in Topics : tokens'[t] = f[t]
  BY <1>1, <1>2, <1>4, <1>5
<1>7. tokens' = f
  BY <1>2, <1>4, <1>6
<1>8. InRoom(tc') /\ Holds(tc'.items, f)
  BY <1>1, <1>2, <1>3, <1>4, UpdCountIs
<1> QED  BY <1>2, <1>4, <1>7, <1>8 DEF TopicCountsInv, TableRight, JobRight

LEMMA NextKeeps == TopicCountsInv /\ [Next]_vars => TopicCountsInv'
<1> SUFFICES ASSUME TopicCountsInv, [Next]_vars PROVE TopicCountsInv'
  OBVIOUS
<1>1. CASE \E new \in Topics : AddToken(new)
  BY <1>1, AddTokenKeeps
<1>2. CASE \E old, new \in Topics : TakeOld(old, new)
  BY <1>2, TakeOldKeeps
<1>3. CASE GiveNew
  BY <1>3, GiveNewKeeps
<1>4. CASE \E f \in [Topics -> 0..MaxCount] : Synchronize(f)
  BY <1>4, SynchronizeKeeps
<1>5. CASE UNCHANGED vars
  BY <1>5 DEF vars, TopicCountsInv, TableRight, JobRight
<1> QED  BY <1>1, <1>2, <1>3, <1>4, <1>5 DEF Next

\* TopicCountsInv is an invariant.
LEMMA InvHolds == Spec => []TopicCountsInv
BY InitRight, NextKeeps, PTL DEF Spec

-----------------------------------------------------------------------------
(***************************************************************************)
(* Whatever updates the word gets, its array is sorted by descending       *)
(* count, has positive counts and each topic once, and fits its            *)
(* allocation (TopicCounts.h:58).                                          *)
(***************************************************************************)
THEOREM TableIsWellFormed == Spec => []WellFormed
<1>1. TopicCountsInv => WellFormed
  <2> SUFFICES ASSUME TopicCountsInv PROVE WellFormed
    OBVIOUS
  <2>1. InRoom(tc) /\ Holds(tc.items, tokens)
    BY DEF TopicCountsInv, TableRight
  <2> QED  BY <2>1 DEF WellFormed, InRoom, Holds, UniqueTops
<1> QED  BY <1>1, InvHolds, PTL

(***************************************************************************)
(* After the decrement of upd_count(word, old, new), whatever it moved,    *)
(* removed or reallocated, newTop is null exactly when the array has no    *)
(* item for the new topic, and otherwise points at that item in the        *)
(* present allocation.                                                     *)
(***************************************************************************)
THEOREM PointerFollows == Spec => []NewTopFollows
<1>1. TopicCountsInv => NewTopFollows
  BY DEF TopicCountsInv, JobRight, NewTopFollows
<1> QED  BY <1>1, InvHolds, PTL

(***************************************************************************)
(* The array counts the word's tokens of each topic, in the middle of an   *)
(* update too, as validate() demands.                                      *)
(***************************************************************************)
THEOREM CountsAreTokens == Spec => []CountsValidate
<1>1. TopicCountsInv => CountsValidate
  BY CountIs DEF TopicCountsInv, TableRight, CountsValidate
<1> QED  BY <1>1, InvHolds, PTL
=============================================================================
