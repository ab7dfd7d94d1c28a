------------------------- MODULE DeadlineHeap_proof --------------------------
(***************************************************************************)
(* Proofs about DeadlineHeap for any events and any deadlines, and so any  *)
(* number of entries: the order of the array in every round of a loop, the *)
(* indices kept by the events, and that the heap implements a set of       *)
(* deadlines with a least one in front.                                    *)
(***************************************************************************)
EXTENDS DeadlineHeap, WellFoundedInduction, TLAPS

-----------------------------------------------------------------------------
(* The tree that the indices form.                                         *)

\* The parent of an entry is before it (heaputils.c:3-5).
LEMMA ParentBelow ==
  \A k \in Nat \ {0} : up(k) \in Nat /\ up(k) < k
BY DEF up

\* The children of an entry are those whose parent it is (heaputils.c:7-11).
LEMMA Children ==
  \A k \in Nat, c \in Nat \ {0} : up(c) = k <=> c = left(k) \/ c = left(k) + 1
BY DEF up, left

\* The left child of an entry is after it.
LEMMA LeftAbove == \A k \in Nat : left(k) \in Nat /\ left(k) > k
BY DEF left

-----------------------------------------------------------------------------
(* The order of the array: d[k] is the deadline of entry k of m.           *)

\* Every entry but j is in order.
AllBut(d, m, j) == \A k \in 1..(m - 1) : k # j => d[up(k)] <= d[k]
\* Every entry but the children of j is in order.
AllButBelow(d, m, j) == \A k \in 1..(m - 1) : up(k) # j => d[up(k)] <= d[k]
\* The children of j are not before the parent of j.
BelowUp(d, m, j) == \A c \in 1..(m - 1) : up(c) = j => d[up(j)] <= d[c]
\* No child of j is before entry q.
NoneBefore(d, m, j, q) == \A c \in 1..(m - 1) : up(c) = j => d[q] <= d[c]

\* A round of heap_sift_up_idx: only the entry that rises is out of order, and
\* its children are not before its parent (heaputils.c:13-30).
LEMMA RiseKeepsOrder ==
  ASSUME NEW m \in Nat, NEW d \in [0..(m - 1) -> Int],
         NEW j \in 1..(m - 1), d[j] < d[up(j)],
         AllBut(d, m, j), BelowUp(d, m, j),
         NEW f, f = [d EXCEPT ![j] = d[up(j)], ![up(j)] = d[j]]
  PROVE  AllBut(f, m, up(j)) /\ (up(j) # 0 => BelowUp(f, m, up(j)))
<1> USE DEF AllBut, BelowUp
<1> DEFINE p == up(j)
<1>1. p \in 0..(m - 1) /\ p < j
  BY ParentBelow
<1>2. \A k \in 1..(m - 1) : up(k) \in 0..(m - 1) /\ up(k) < k
  BY ParentBelow
<1>3. /\ f[j] = d[p] /\ f[p] = d[j]
      /\ \A k \in 0..(m - 1) : k # j /\ k # p => f[k] = d[k]
      /\ \A k \in 0..(m - 1) : d[k] \in Int
  BY <1>1
<1> HIDE DEF p
<1>4. ASSUME NEW k \in 1..(m - 1), k # p PROVE f[up(k)] <= f[k]
  <2>1. CASE k = j
    BY <1>1, <1>3, <2>1 DEF p
  <2>2. CASE k # j /\ up(k) = j
    BY <1>2, <1>3, <1>4, <2>2 DEF p
  <2>3. CASE k # j /\ up(k) = p
    BY <1>1, <1>2, <1>3, <1>4, <2>3 DEF p
  <2>4. CASE k # j /\ up(k) # j /\ up(k) # p
    BY <1>2, <1>3, <1>4, <2>4, SMTT(30)
  <2> QED BY <2>1, <2>2, <2>3, <2>4
<1>5. ASSUME p # 0, NEW c \in 1..(m - 1), up(c) = p PROVE f[up(p)] <= f[c]
  <2>1. p \in 1..(m - 1) /\ up(p) \in 0..(m - 1) /\ up(p) # p /\ up(p) # j
    BY <1>1, <1>2, <1>5
  <2>2. f[up(p)] = d[up(p)] /\ d[up(p)] <= d[p]
    BY <1>1, <1>3, <2>1
  <2>3. c = j \/ (c # j /\ c # p /\ d[p] <= d[c])
    BY <1>2, <1>5
  <2> QED BY <1>1, <1>3, <2>1, <2>2, <2>3
<1> QED BY <1>4, <1>5 DEF p

\* A round of heap_sift_down_idx: an entry changes places with the lesser of its
\* children (heaputils.c:34-71).
LEMMA SinkKeepsOrder ==
  ASSUME NEW m \in Nat, NEW d \in [0..(m - 1) -> Int],
         NEW j \in 0..(m - 1), NEW q \in 1..(m - 1), up(q) = j, d[q] < d[j],
         NoneBefore(d, m, j, q), AllButBelow(d, m, j), j # 0 => BelowUp(d, m, j),
         NEW f, f = [d EXCEPT ![q] = d[j], ![j] = d[q]]
  PROVE  AllButBelow(f, m, q) /\ BelowUp(f, m, q)
<1> USE DEF AllButBelow, BelowUp, NoneBefore
<1>1. j < q
  BY ParentBelow
<1>2. \A k \in 1..(m - 1) : up(k) \in 0..(m - 1) /\ up(k) < k
  BY ParentBelow
<1>3. /\ f[j] = d[q] /\ f[q] = d[j]
      /\ \A k \in 0..(m - 1) : k # j /\ k # q => f[k] = d[k]
      /\ \A k \in 0..(m - 1) : d[k] \in Int
  BY <1>1
<1>4. ASSUME NEW k \in 1..(m - 1), up(k) # q PROVE f[up(k)] <= f[k]
  <2>1. CASE k = q
    BY <1>3, <2>1
  <2>2. CASE k # q /\ up(k) = j
    <3>1. k # j
      BY <1>2, <2>2
    <3> QED BY <1>3, <2>2, <3>1
  <2>3. CASE k = j
    <3>1. up(j) # j /\ up(j) # q /\ d[up(j)] <= d[q]
      BY <1>1, <1>2, <2>3
    <3> QED BY <1>2, <1>3, <2>3, <3>1
  <2>4. CASE k # q /\ k # j /\ up(k) # j
    BY <1>2, <1>3, <1>4, <2>4
  <2> QED BY <2>1, <2>2, <2>3, <2>4
<1>5. ASSUME NEW c \in 1..(m - 1), up(c) = q PROVE f[up(q)] <= f[c]
  <2>1. c # q /\ c # j /\ d[q] <= d[c]
    BY <1>1, <1>2, <1>5
  <2> QED BY <1>3, <2>1
<1> QED BY <1>4, <1>5

\* A set of natural numbers that is not empty has a least one.
LEMMA LeastNatural ==
  ASSUME NEW T, T \subseteq Nat, T # {}
  PROVE  \E x \in T : \A y \in T : x <= y
<1> DEFINE R == {ss \in Nat \X Nat : ss[1] < ss[2]}
<1>1. IsWellFoundedOn(R, Nat)
  BY NatLessThanWellFounded DEF OpToRel
<1>2. \A x, y \in Nat : y < x => <<y, x>> \in R
  OBVIOUS
<1> HIDE DEF R
<1>3. PICK x \in T : \A y \in T : ~ (<<y, x>> \in R)
  BY <1>1, WFMin
<1>4. \A y \in T : x <= y
  <2> TAKE y \in T
  <2>1. x \in Nat /\ y \in Nat /\ ~(y < x)
    BY <1>2, <1>3, Zenon
  <2> QED BY <2>1
<1> QED BY <1>4

\* In an array in order, no entry is due before the first: a least counterexample
\* would have a parent that is a smaller one.
LEMMA RootIsLeast ==
  ASSUME NEW m \in Nat, NEW d \in [0..(m - 1) -> Int],
         \A k \in 1..(m - 1) : d[up(k)] <= d[k]
  PROVE  \A k \in 0..(m - 1) : d[0] <= d[k]
<1> DEFINE T == {k \in 0..(m - 1) : ~(d[0] <= d[k])}
<1>1. CASE T = {}
  BY <1>1
<1>2. CASE T # {}
  <2> T \subseteq Nat
    OBVIOUS
  <2> HIDE DEF T
  <2>1. PICK k \in T : \A y \in T : k <= y
    BY <1>2, LeastNatural
  <2>2. k \in 0..(m - 1) /\ ~(d[0] <= d[k])
    BY <2>1 DEF T
  <2>3. k # 0
    BY <2>2
  <2>4. up(k) \in 0..(m - 1) /\ up(k) < k /\ d[up(k)] <= d[k]
    BY <2>2, <2>3, ParentBelow
  <2>5. up(k) \notin T
    BY <2>1, <2>2, <2>4
  <2>6. d[0] <= d[up(k)]
    BY <2>4, <2>5 DEF T
  <2> QED BY <2>2, <2>4, <2>6
<1> QED BY <1>1, <1>2

-----------------------------------------------------------------------------
(* Exchanging two entries.                                                 *)

\* An entry: async_heap_entry and delay_heap_entry.
Entries == [deadline : Deadlines \cup {-1}, e : Events]

\* Array h and indices x are those of the heap after entries a and b have traded
\* places.
Exchanged(h, x, a, b) ==
    /\ h \in [0..(n - 1) -> Entries]
    /\ h[a] = heap[b] /\ h[b] = heap[a]
    /\ \A k \in 0..(n - 1) : k # a /\ k # b => h[k] = heap[k]
    /\ \A j, k \in 0..(n - 1) : h[j].e = h[k].e => j = k
    /\ \A k \in 0..(n - 1) : h[k].e \in used
    /\ \A k \in 0..(n - 1) : h[k].deadline = -1 <=> h[k].e = gone
    /\ x \in [Events -> Nat \cup {-1}]
    /\ kind = "waits" =>
          /\ \A k \in 0..(n - 1) : x[h[k].e] = k
          /\ \A e \in used : x[e] >= 0 => x[e] < n /\ h[x[e]].e = e

\* The entries trade places, and the events that keep an index learn of it
\* (async_heap_entry.c:8-22, delay_heap_entry.c:8-14).
LEMMA SwapExchanges ==
  ASSUME HeapInv, NEW a \in 0..(n - 1), NEW b \in 0..(n - 1),
         NEW h, h = Swapped(heap, a, b), NEW x, x = SwappedIdx(a, b)
  PROVE  Exchanged(h, x, a, b)
<1> USE DEF Exchanged
<1>1. /\ heap \in [0..(n - 1) -> Entries] /\ n \in Nat
      /\ idx \in [Events -> Nat \cup {-1}] /\ used \subseteq Events
  BY DEF HeapInv, TypeOK, Entries
<1>2. \A k \in 0..(n - 1) : heap[k] \in Entries /\ heap[k].e \in Events
  BY <1>1 DEF Entries
<1>3. /\ h \in [0..(n - 1) -> Entries]
      /\ h[a] = heap[b] /\ h[b] = heap[a]
      /\ \A k \in 0..(n - 1) : k # a /\ k # b => h[k] = heap[k]
  BY <1>1, <1>2 DEF Swapped
<1>4. /\ \A j, k \in 0..(n - 1) : heap[j].e = heap[k].e => j = k
      /\ \A k \in 0..(n - 1) : heap[k].e \in used
      /\ \A k \in 0..(n - 1) : heap[k].deadline = -1 <=> heap[k].e = gone
  BY DEF HeapInv, OneEntryEach
<1>5. /\ \A j, k \in 0..(n - 1) : h[j].e = h[k].e => j = k
      /\ \A k \in 0..(n - 1) : h[k].e \in used
      /\ \A k \in 0..(n - 1) : h[k].deadline = -1 <=> h[k].e = gone
  BY <1>3, <1>4
<1>6. CASE kind = "delays"
  <2>1. x = idx
    BY <1>6 DEF SwappedIdx
  <2> QED BY <1>1, <1>3, <1>5, <1>6, <2>1
<1>7. CASE kind = "waits"
  <2>1. /\ \A k \in 0..(n - 1) : idx[heap[k].e] = k
        /\ \A e \in used : idx[e] >= 0 => idx[e] < n /\ heap[idx[e]].e = e
    BY <1>7 DEF HeapInv, IndexExact
  <2>2. /\ x = [idx EXCEPT ![heap[a].e] = b, ![heap[b].e] = a]
    BY <1>7, <2>1 DEF SwappedIdx
  <2>3. /\ x \in [Events -> Nat \cup {-1}]
        /\ x[heap[a].e] = b /\ x[heap[b].e] = a
        /\ \A e \in Events : e # heap[a].e /\ e # heap[b].e => x[e] = idx[e]
    BY <1>1, <1>2, <1>4, <2>2
  <2>4. \A k \in 0..(n - 1) : x[h[k].e] = k
    BY <1>2, <1>3, <1>4, <2>1, <2>3
  <2>5. ASSUME NEW e \in used, x[e] >= 0 PROVE x[e] < n /\ h[x[e]].e = e
    <3>1. CASE e = heap[a].e \/ e = heap[b].e
      BY <1>1, <1>3, <2>3, <3>1
    <3>2. CASE e # heap[a].e /\ e # heap[b].e
      <4>1. x[e] = idx[e] /\ idx[e] \in 0..(n - 1) /\ heap[idx[e]].e = e
        BY <1>1, <2>1, <2>3, <2>5, <3>2
      <4>2. idx[e] # a /\ idx[e] # b
        BY <3>2, <4>1
      <4> QED BY <1>1, <1>3, <4>1, <4>2
    <3> QED BY <3>1, <3>2
  <2> QED BY <1>3, <1>5, <2>3, <2>4, <2>5
<1> QED BY <1>6, <1>7 DEF HeapInv, TypeOK

\* The deadlines of the array, to which the lemmas on its order apply.
Dues == [k \in 0..(n - 1) |-> heap[k].deadline]

\* The deadlines can be compared.
LEMMA DuesAreIntegers ==
  ASSUME HeapInv
  PROVE  Dues \in [0..(n - 1) -> Int] /\ n \in Nat
<1>1. \A k \in 0..(n - 1) : heap[k].deadline \in Deadlines \cup {-1}
  BY DEF HeapInv, TypeOK
<1>2. Deadlines \cup {-1} \subseteq Int
  BY DeadlineHeapAssumption
<1>3. \A k \in 0..(n - 1) : heap[k].deadline \in Int
  BY <1>1, <1>2
<1> QED BY <1>3 DEF Dues, HeapInv, TypeOK

\* A swap of two entries is one of their deadlines.
LEMMA SwapDues ==
  ASSUME HeapInv, NEW a \in 0..(n - 1), NEW b \in 0..(n - 1),
         heap' = Swapped(heap, a, b), n' = n
  PROVE  Dues' = [Dues EXCEPT ![a] = Dues[b], ![b] = Dues[a]]
BY DEF Dues, Swapped, HeapInv, TypeOK

\* What a swap keeps, whichever loop it belongs to.
LEMMA SwapKeepsEntries ==
  ASSUME HeapInv, NEW a \in 0..(n - 1), NEW b \in 0..(n - 1),
         heap' = Swapped(heap, a, b), idx' = SwappedIdx(a, b),
         UNCHANGED <<kind, n, used, pc, gone>>, i' \in Nat
  PROVE  /\ TypeOK'
         /\ IndexExact'
         /\ \A j, k \in 0..(n' - 1) : heap'[j].e = heap'[k].e => j = k
         /\ \A k \in 0..(n' - 1) : heap'[k].e \in used'
         /\ \A k \in 0..(n' - 1) : heap'[k].deadline = -1 <=> heap'[k].e = gone'
<1>1. /\ heap' \in [0..(n - 1) -> Entries]
      /\ \A j, k \in 0..(n - 1) : heap'[j].e = heap'[k].e => j = k
      /\ \A k \in 0..(n - 1) : heap'[k].e \in used
      /\ \A k \in 0..(n - 1) : heap'[k].deadline = -1 <=> heap'[k].e = gone
      /\ idx' \in [Events -> Nat \cup {-1}]
      /\ kind = "waits" =>
            /\ \A k \in 0..(n - 1) : idx'[heap'[k].e] = k
            /\ \A e \in used : idx'[e] >= 0 => idx'[e] < n /\ heap'[idx'[e]].e = e
  <2>1. Exchanged(heap', idx', a, b)
    BY SwapExchanges
  <2> QED BY <2>1 DEF Exchanged
<1>2. TypeOK'
  BY <1>1 DEF HeapInv, TypeOK, Entries
<1> QED BY <1>1, <1>2 DEF IndexExact

-----------------------------------------------------------------------------
(* The steps.                                                              *)

\* A round of heap_sift_up_idx (heaputils.c:19-25) keeps the invariant,
LEMMA SiftUpStep ==
  ASSUME HeapInv, sift_up
  PROVE  HeapInv'
<1> DEFINE p == up(i)
<1>1. /\ pc = "up" /\ pc' = "up"
      /\ i # 0 /\ i < n /\ i \in Nat /\ n \in Nat
      /\ heap[i].deadline < heap[p].deadline
      /\ heap' = Swapped(heap, i, p) /\ idx' = SwappedIdx(i, p) /\ i' = p
      /\ UNCHANGED <<kind, n, used, pc, gone>>
  BY DEF sift_up, Rises, lt, HeapInv, TypeOK, OutOfOrderOnlyAtIndex
<1>2. p \in 0..(n - 1) /\ i \in 1..(n - 1) /\ p # i
  BY <1>1, ParentBelow
<1> HIDE DEF p
<1>3. /\ TypeOK'
      /\ IndexExact'
      /\ \A j, k \in 0..(n' - 1) : heap'[j].e = heap'[k].e => j = k
      /\ \A k \in 0..(n' - 1) : heap'[k].e \in used'
      /\ \A k \in 0..(n' - 1) : heap'[k].deadline = -1 <=> heap'[k].e = gone'
  BY <1>1, <1>2, SwapKeepsEntries
<1>4. OneEntryEach'
  <2>1. heap'[p] = heap[i]
    BY <1>1, <1>2 DEF Swapped, HeapInv, TypeOK
  <2> QED BY <1>1, <1>3, <2>1 DEF HeapInv, OneEntryEach
<1>5. OutOfOrderOnlyAtIndex'
  <2>1. Dues \in [0..(n - 1) -> Int]
    BY DuesAreIntegers
  <2>2. \A k \in 0..(n - 1) : Dues[k] = heap[k].deadline /\ Dues'[k] = heap'[k].deadline
    BY <1>1 DEF Dues
  <2>3. \A k \in 1..(n - 1) : up(k) \in 0..(n - 1)
    BY <1>1, ParentBelow
  <2>4. AllBut(Dues, n, i) /\ BelowUp(Dues, n, i)
    BY <1>1, <1>2, <2>2, <2>3
       DEF HeapInv, OutOfOrderOnlyAtIndex, InOrder, BelowParentOf, Due, AllBut, BelowUp
  <2>5. Dues' = [Dues EXCEPT ![i] = Dues[p], ![p] = Dues[i]]
    BY <1>1, <1>2, SwapDues
  <2>6. Dues[i] < Dues[p]
    BY <1>1, <1>2, <2>2
  <2>7. AllBut(Dues', n, p) /\ (p # 0 => BelowUp(Dues', n, p))
    <3>1. n \in Nat /\ i \in 1..(n - 1)
      BY <1>1, <1>2
    <3> QED BY <2>1, <2>4, <2>5, <2>6, <3>1, RiseKeepsOrder DEF p
  <2>8. \A k \in 1..(n' - 1) : k # i' => InOrder(k)'
    BY <1>1, <2>2, <2>3, <2>7 DEF InOrder, Due, AllBut
  <2>9. BelowParentOf(i)'
    BY <1>1, <1>2, <2>2, <2>3, <2>7 DEF BelowParentOf, Due, BelowUp
  <2> QED BY <1>1, <1>2, <2>8, <2>9 DEF OutOfOrderOnlyAtIndex
<1> QED BY <1>3, <1>4, <1>5 DEF HeapInv

\* ... and so does the end of it (heaputils.c:18, 27).
LEMMA SiftUpEndStep ==
  ASSUME HeapInv, sift_up_ends
  PROVE  HeapInv'
<1>1. /\ pc = "up" /\ pc' = IF gone = NoEvent THEN "idle" ELSE "pop"
      /\ i < n /\ i \in Nat /\ n \in Nat
      /\ i # 0 => ~(heap[i].deadline < heap[up(i)].deadline)
      /\ UNCHANGED <<kind, heap, n, idx, used, i, gone>>
  BY DEF sift_up_ends, Rises, lt, HeapInv, TypeOK, OutOfOrderOnlyAtIndex
<1>2. TypeOK' /\ IndexExact' /\ OneEntryEach'
  BY <1>1 DEF HeapInv, TypeOK, IndexExact, OneEntryEach
<1>3. \A k \in 0..(n - 1) : heap[k].deadline \in Int
  BY DuesAreIntegers DEF Dues
<1>4. i # 0 => up(i) \in 0..(n - 1)
  BY <1>1, ParentBelow
<1>5. \A k \in 1..(n - 1) : InOrder(k)
  BY <1>1, <1>3, <1>4 DEF HeapInv, OutOfOrderOnlyAtIndex, InOrder, Due
<1>6. gone # NoEvent => n > 0 /\ heap[0].e = gone
  <2> SUFFICES ASSUME gone # NoEvent PROVE n > 0 /\ heap[0].e = gone
    OBVIOUS
  <2>1. heap[i].e = gone /\ heap[i].deadline = -1
    BY <1>1 DEF HeapInv, OneEntryEach
  <2>2. CASE i = 0
    BY <1>1, <2>1, <2>2
  <2>3. CASE i # 0
    <3>1. heap[up(i)].deadline <= -1
      BY <1>1, <1>3, <1>4, <2>1, <2>3
    <3>2. heap[up(i)].deadline \in Deadlines \cup {-1}
      BY <1>4, <2>3 DEF HeapInv, TypeOK
    <3>3. heap[up(i)].deadline = -1
      BY <3>1, <3>2, DeadlineHeapAssumption
    <3>4. up(i) = i
      BY <1>1, <1>4, <2>1, <2>3, <3>3 DEF HeapInv, OneEntryEach
    <3> QED BY <1>1, <2>3, <3>4, ParentBelow
  <2> QED BY <2>2, <2>3
<1>7. OutOfOrderOnlyAtIndex'
  BY <1>1, <1>5, <1>6 DEF OutOfOrderOnlyAtIndex, InOrder, Due
<1> QED BY <1>2, <1>7 DEF HeapInv

\* The round of heap_sift_down_idx finds the least of an entry and its children.
LEMMA MinIdxIsLeast ==
  ASSUME HeapInv, i < n
  PROVE  /\ MinIdx \in 0..(n - 1)
         /\ MinIdx # i => /\ MinIdx # 0 /\ up(MinIdx) = i
                          /\ heap[MinIdx].deadline < heap[i].deadline
         /\ \A c \in 1..(n - 1) : up(c) = i => heap[MinIdx].deadline <= heap[c].deadline
<1>1. i \in 0..(n - 1) /\ n \in Nat /\ left(i) \in Nat /\ left(i) > i
  BY LeftAbove DEF HeapInv, TypeOK
<1>2. \A k \in 0..(n - 1) : heap[k].deadline \in Int
  BY DuesAreIntegers DEF Dues
<1>3. \A c \in 1..(n - 1) : up(c) = i <=> c = left(i) \/ c = left(i) + 1
  BY <1>1, Children
<1> DEFINE a == MinOf(i, left(i))
<1>4. /\ a \in 0..(n - 1)
      /\ a # i => a = left(i) /\ heap[a].deadline < heap[i].deadline
      /\ left(i) < n => heap[a].deadline <= heap[left(i)].deadline
      /\ heap[a].deadline <= heap[i].deadline
  BY <1>1, <1>2 DEF MinOf, lt
<1> HIDE DEF a
<1>5. MinIdx = MinOf(a, left(i) + 1)
  BY DEF MinIdx, a
<1> QED BY <1>1, <1>2, <1>3, <1>4, <1>5 DEF MinOf, lt

\* A round of heap_sift_down_idx (heaputils.c:38-66) keeps the invariant,
LEMMA SiftDownStep ==
  ASSUME HeapInv, sift_down
  PROVE  HeapInv'
<1> DEFINE q == MinIdx
<1>1. /\ pc = "down" /\ pc' = "down"
      /\ i < n /\ i \in 0..(n - 1) /\ n \in Nat /\ q # i
      /\ heap' = Swapped(heap, q, i) /\ idx' = SwappedIdx(q, i) /\ i' = q
      /\ UNCHANGED <<kind, n, used, pc, gone>>
  BY DEF sift_down, HeapInv, TypeOK, OutOfOrderOnlyAtIndex
<1>2. /\ q \in 1..(n - 1) /\ up(q) = i /\ heap[q].deadline < heap[i].deadline
      /\ \A c \in 1..(n - 1) : up(c) = i => heap[q].deadline <= heap[c].deadline
  BY <1>1, MinIdxIsLeast
<1> HIDE DEF q
<1>4. /\ TypeOK'
      /\ IndexExact'
      /\ \A j, k \in 0..(n' - 1) : heap'[j].e = heap'[k].e => j = k
      /\ \A k \in 0..(n' - 1) : heap'[k].e \in used'
      /\ \A k \in 0..(n' - 1) : heap'[k].deadline = -1 <=> heap'[k].e = gone'
  BY <1>1, <1>2, SwapKeepsEntries
<1>5. OneEntryEach'
  BY <1>1, <1>4 DEF HeapInv, OneEntryEach
<1>6. OutOfOrderOnlyAtIndex'
  <2>1. Dues \in [0..(n - 1) -> Int]
    BY DuesAreIntegers
  <2>2. \A k \in 0..(n - 1) : Dues[k] = heap[k].deadline /\ Dues'[k] = heap'[k].deadline
    BY <1>1 DEF Dues
  <2>3. \A k \in 1..(n - 1) : up(k) \in 0..(n - 1)
    BY <1>1, ParentBelow
  <2>4. AllButBelow(Dues, n, i) /\ (i # 0 => BelowUp(Dues, n, i))
    BY <1>1, <2>2, <2>3
       DEF HeapInv, OutOfOrderOnlyAtIndex, InOrder, BelowParentOf, Due, AllButBelow, BelowUp
  <2>5. Dues' = [Dues EXCEPT ![q] = Dues[i], ![i] = Dues[q]]
    BY <1>1, <1>2, SwapDues
  <2>6. Dues[q] < Dues[i] /\ NoneBefore(Dues, n, i, q)
    BY <1>1, <1>2, <2>2 DEF NoneBefore
  <2>7. AllButBelow(Dues', n, q) /\ BelowUp(Dues', n, q)
    <3>1. n \in Nat /\ i \in 0..(n - 1) /\ q \in 1..(n - 1) /\ up(q) = i
      BY <1>1, <1>2
    <3> QED BY <2>1, <2>4, <2>5, <2>6, <3>1, SinkKeepsOrder
  <2>8. \A k \in 1..(n' - 1) : up(k) # i' => InOrder(k)'
    BY <1>1, <2>2, <2>3, <2>7 DEF InOrder, Due, AllButBelow
  <2>9. BelowParentOf(i)'
    BY <1>1, <1>2, <2>2, <2>7 DEF BelowParentOf, Due, BelowUp
  <2> QED BY <1>1, <1>2, <2>8, <2>9 DEF OutOfOrderOnlyAtIndex
<1> QED BY <1>4, <1>5, <1>6 DEF HeapInv

\* ... and so does the end of it (heaputils.c:42-43, 68).
LEMMA SiftDownEndStep ==
  ASSUME HeapInv, sift_down_ends
  PROVE  HeapInv'
<1>1. /\ pc = "down" /\ pc' = "idle"
      /\ i < n /\ i \in 0..(n - 1) /\ n \in Nat /\ MinIdx = i
      /\ UNCHANGED <<kind, heap, n, idx, used, i, gone>>
  BY DEF sift_down_ends, HeapInv, TypeOK, OutOfOrderOnlyAtIndex
<1>2. TypeOK' /\ IndexExact' /\ OneEntryEach'
  BY <1>1 DEF HeapInv, TypeOK, IndexExact, OneEntryEach
<1>3. \A c \in 1..(n - 1) : up(c) = i => heap[i].deadline <= heap[c].deadline
  BY <1>1, MinIdxIsLeast
<1>4. \A k \in 1..(n - 1) : InOrder(k)
  BY <1>1, <1>3 DEF HeapInv, OutOfOrderOnlyAtIndex, InOrder, Due
<1>5. OutOfOrderOnlyAtIndex'
  BY <1>1, <1>4 DEF OutOfOrderOnlyAtIndex, InOrder, Due
<1> QED BY <1>2, <1>5 DEF HeapInv

\* A wait without a timeout has no entry.
LEMMA SchedStep ==
  ASSUME HeapInv, NEW e \in Events, iosvc_sched(e)
  PROVE  HeapInv'
<1>1. /\ e \notin used /\ used' = used \cup {e} /\ kind = "waits"
      /\ idx' = [idx EXCEPT ![e] = -1]
      /\ UNCHANGED <<kind, heap, n, pc, i, gone>>
  BY DEF iosvc_sched
<1>2. TypeOK'
  BY <1>1 DEF HeapInv, TypeOK
<1>3. OneEntryEach' /\ OutOfOrderOnlyAtIndex'
  BY <1>1 DEF HeapInv, OneEntryEach, OutOfOrderOnlyAtIndex, InOrder, BelowParentOf, Due
<1>4. IndexExact'
  <2>1. /\ idx'[e] = -1
        /\ \A x \in Events : x # e => idx'[x] = idx[x]
        /\ \A x \in used : x \in Events /\ x # e
    BY <1>1 DEF HeapInv, TypeOK
  <2> QED BY <1>1, <2>1 DEF HeapInv, IndexExact
<1> QED BY <1>2, <1>3, <1>4 DEF HeapInv

\* A new entry at the end of the array has no children.
LEMMA InsertStep ==
  ASSUME HeapInv, NEW e \in Events, NEW d \in Deadlines, Insert(e, d)
  PROVE  HeapInv'
<1>1. /\ pc = "idle" /\ pc' = "up" /\ i' = n /\ n' = n + 1
      /\ e \notin used /\ used' = used \cup {e}
      /\ heap' = Emplaced(e, d)
      /\ idx' = IF kind = "waits" THEN [idx EXCEPT ![e] = n] ELSE idx
      /\ UNCHANGED <<kind, gone>>
  BY DEF Insert
<1>2. n \in Nat /\ used \subseteq Events /\ idx \in [Events -> Nat \cup {-1}]
  BY DEF HeapInv, TypeOK
<1>3. /\ heap'[n] = [deadline |-> d, e |-> e]
      /\ \A k \in 0..(n - 1) : heap'[k] = heap[k]
  BY <1>1, <1>2 DEF Emplaced
<1>4. TypeOK'
  BY <1>1, <1>2 DEF HeapInv, TypeOK, Emplaced
<1>5. gone = NoEvent
  BY <1>1 DEF HeapInv, OneEntryEach
<1>6. OneEntryEach'
  <2>1. /\ \A j, k \in 0..(n - 1) : heap[j].e = heap[k].e => j = k
        /\ \A k \in 0..(n - 1) : heap[k].e \in used
        /\ \A k \in 0..(n - 1) : heap[k].deadline = -1 <=> heap[k].e = gone
    BY DEF HeapInv, OneEntryEach
  <2>2. d # -1 /\ e # NoEvent
    BY DeadlineHeapAssumption
  <2>3. \A k \in 0..(n' - 1) : k \in 0..(n - 1) \/ k = n
    BY <1>1, <1>2
  <2>4. heap'[n].e = e /\ heap'[n].deadline = d
    BY <1>3
  <2>5. \A j, k \in 0..(n' - 1) : heap'[j].e = heap'[k].e => j = k
    BY <1>1, <1>3, <2>1, <2>3, <2>4
  <2>6. \A k \in 0..(n' - 1) : heap'[k].e \in used'
    BY <1>1, <1>3, <2>1, <2>3, <2>4
  <2>7. \A k \in 0..(n' - 1) : heap'[k].deadline = -1 <=> heap'[k].e = gone'
    BY <1>1, <1>3, <1>5, <2>1, <2>2, <2>3, <2>4
  <2> QED BY <1>1, <1>5, <2>5, <2>6, <2>7 DEF OneEntryEach
<1>7. IndexExact'
  <2> SUFFICES ASSUME kind = "waits" PROVE IndexExact'
    BY <1>1 DEF IndexExact
  <2>1. /\ \A k \in 0..(n - 1) : heap[k].e \in used /\ idx[heap[k].e] = k
        /\ \A x \in used : idx[x] >= 0 => idx[x] < n /\ heap[idx[x]].e = x
    BY DEF HeapInv, IndexExact
  <2>2. /\ idx'[e] = n
        /\ \A x \in used : x # e /\ idx'[x] = idx[x]
        /\ \A x \in used : idx[x] \in Nat \cup {-1}
    BY <1>1, <1>2
  <2>3. \A k \in 0..(n' - 1) : k \in 0..(n - 1) \/ k = n
    BY <1>1, <1>2
  <2>4. \A k \in 0..(n' - 1) : heap'[k].e \in used' /\ idx'[heap'[k].e] = k
    BY <1>1, <1>3, <2>1, <2>2, <2>3
  <2>5. ASSUME NEW x \in used', idx'[x] >= 0 PROVE idx'[x] < n' /\ heap'[idx'[x]].e = x
    <3>1. CASE x = e
      BY <1>1, <1>2, <1>3, <2>2, <3>1
    <3>2. CASE x \in used
      BY <1>1, <1>2, <1>3, <2>1, <2>2, <2>5, <3>2
    <3> QED BY <1>1, <3>1, <3>2
  <2> QED BY <2>4, <2>5 DEF IndexExact
<1>8. OutOfOrderOnlyAtIndex'
  <2>1. \A k \in 1..(n' - 1) : up(k) \in 0..(n - 1) /\ up(k) # n
    BY <1>1, <1>2, ParentBelow
  <2>2. \A k \in 1..(n - 1) : heap[up(k)].deadline <= heap[k].deadline
    BY <1>1 DEF HeapInv, OutOfOrderOnlyAtIndex, InOrder, Due
  <2>3. \A k \in 1..(n' - 1) : k # i' => InOrder(k)'
    BY <1>1, <1>2, <1>3, <2>1, <2>2 DEF InOrder, Due
  <2>4. BelowParentOf(i)'
    BY <1>1, <2>1 DEF BelowParentOf
  <2> QED BY <1>1, <1>2, <2>3, <2>4 DEF OutOfOrderOnlyAtIndex
<1> QED BY <1>4, <1>6, <1>7, <1>8 DEF HeapInv

\* The entry that is marked is the event's own, and from its place on only it is
\* out of order.
LEMMA DequeueStep ==
  ASSUME HeapInv, NEW e \in Events, iosvc_dequeue(e)
  PROVE  HeapInv'
<1>1. /\ pc = "idle" /\ kind = "waits" /\ e \in used
      /\ UNCHANGED <<kind, n, idx>>
  BY DEF iosvc_dequeue
<1>2. n \in Nat /\ used \subseteq Events /\ idx \in [Events -> Nat \cup {-1}]
  BY DEF HeapInv, TypeOK
<1>3. /\ \A k \in 0..(n - 1) : heap[k].e \in used /\ idx[heap[k].e] = k
      /\ \A x \in used : idx[x] >= 0 => idx[x] < n /\ heap[idx[x]].e = x
  BY <1>1 DEF HeapInv, IndexExact
<1>4. CASE idx[e] >= 0
  <2> DEFINE j == idx[e]
  <2>1. /\ heap' = [heap EXCEPT ![j].deadline = -1]
        /\ pc' = "up" /\ i' = j /\ gone' = e /\ used' = used
    BY <1>4 DEF iosvc_dequeue
  <2>2. j \in 0..(n - 1) /\ heap[j].e = e
    BY <1>1, <1>2, <1>3, <1>4
  <2> HIDE DEF j
  <2>3. TypeOK'
    BY <1>1, <2>1, <2>2 DEF HeapInv, TypeOK
  <2>4. /\ \A k \in 0..(n - 1) : heap'[k].e = heap[k].e
        /\ heap'[j].deadline = -1
        /\ \A k \in 0..(n - 1) : k # j => heap'[k].deadline = heap[k].deadline
    BY <2>1, <2>2 DEF HeapInv, TypeOK
  <2>5. IndexExact'
    BY <1>1, <1>2, <1>3, <2>1, <2>2, <2>4 DEF IndexExact
  <2>6. OneEntryEach'
    <3>1. /\ gone = NoEvent
          /\ \A k \in 0..(n - 1) : heap[k].deadline # -1
      BY <1>1, <1>2, <1>3, DeadlineHeapAssumption DEF HeapInv, OneEntryEach
    <3>2. \A k \in 0..(n - 1) : k # j => heap[k].e # e
      BY <1>3, <2>2
    <3> QED BY <1>1, <1>3, <2>1, <2>2, <2>4, <3>1, <3>2 DEF HeapInv, OneEntryEach
  <2>7. OutOfOrderOnlyAtIndex'
    <3>1. \A k \in 0..(n - 1) :
             heap[k].deadline \in Int /\ -1 <= heap[k].deadline
      <4>1. \A k \in 0..(n - 1) : heap[k].deadline \in Deadlines \cup {-1}
        BY DEF HeapInv, TypeOK
      <4>2. \A x \in Deadlines \cup {-1} : x \in Int /\ -1 <= x
        BY DeadlineHeapAssumption
      <4> QED BY <4>1, <4>2
    <3>2. \A k \in 1..(n - 1) : heap[up(k)].deadline <= heap[k].deadline
      BY <1>1 DEF HeapInv, OutOfOrderOnlyAtIndex, InOrder, Due
    <3>3. \A k \in 1..(n - 1) : up(k) \in 0..(n - 1) /\ up(k) # k
      BY <1>2, ParentBelow
    <3>4. \A k \in 1..(n - 1) : k # j => InOrder(k)'
      BY <1>1, <2>2, <2>4, <3>1, <3>2, <3>3 DEF InOrder, Due
    <3>5. ASSUME j # 0, NEW c \in 1..(n - 1), up(c) = j
          PROVE  heap'[up(j)].deadline <= heap'[c].deadline
      <4>1. j \in 1..(n - 1) /\ c # j /\ up(j) # j /\ up(j) \in 0..(n - 1)
        BY <2>2, <3>3, <3>5
      <4>2. heap[up(j)].deadline <= heap[j].deadline /\ heap[j].deadline <= heap[c].deadline
        BY <3>2, <3>5, <4>1
      <4> QED BY <2>2, <2>4, <3>1, <4>1, <4>2
    <3>6. BelowParentOf(i)'
      BY <1>1, <2>1, <3>5 DEF BelowParentOf, Due
    <3> QED BY <1>1, <1>2, <2>1, <2>2, <3>4, <3>6 DEF OutOfOrderOnlyAtIndex
  <2> QED BY <2>3, <2>5, <2>6, <2>7 DEF HeapInv
<1>5. CASE ~(idx[e] >= 0)
  <2>1. used' = used \ {e} /\ UNCHANGED <<heap, pc, i, gone>>
    BY <1>5 DEF iosvc_dequeue
  <2>2. \A k \in 0..(n - 1) : heap[k].e # e
    BY <1>2, <1>3, <1>5
  <2>3. TypeOK' /\ OutOfOrderOnlyAtIndex'
    BY <1>1, <2>1 DEF HeapInv, TypeOK, OutOfOrderOnlyAtIndex, InOrder, BelowParentOf, Due
  <2>4. OneEntryEach'
    BY <1>1, <2>1, <2>2 DEF HeapInv, OneEntryEach
  <2>5. IndexExact'
    BY <1>1, <1>3, <2>1, <2>2 DEF IndexExact
  <2> QED BY <2>3, <2>4, <2>5 DEF HeapInv
<1> QED BY <1>4, <1>5

\* When the last entry takes the place of the front, which is dropped, only the
\* front is out of order.
LEMMA LastToFront ==
  ASSUME HeapInv, pc \in {"idle", "pop"}, n > 0, n' = n - 1,
         n > 1 => heap'[0] = heap[n - 1],
         \A k \in 1..(n - 2) : heap'[k] = heap[k],
         pc' = IF n = 1 THEN "idle" ELSE "down", i' = 0
  PROVE  OutOfOrderOnlyAtIndex'
<1>1. n \in Nat
  BY DEF HeapInv, TypeOK
<1>2. \A k \in 1..(n - 1) : heap[up(k)].deadline <= heap[k].deadline
  BY DEF HeapInv, OutOfOrderOnlyAtIndex, InOrder, Due
<1>3. \A k \in 1..(n - 2) : up(k) \in 0..(n - 2)
  BY <1>1, ParentBelow
<1>4. \A k \in 1..(n - 2) : up(k) # 0 => heap'[up(k)].deadline <= heap'[k].deadline
  BY <1>1, <1>2, <1>3
<1>5. CASE n = 1
  BY <1>5 DEF OutOfOrderOnlyAtIndex
<1>6. CASE n # 1
  BY <1>1, <1>4, <1>6 DEF OutOfOrderOnlyAtIndex, InOrder, BelowParentOf, Due
<1> QED BY <1>5, <1>6

\* The entry that iosvc_dequeue has moved to the front is the removed event's own, and
\* the last one takes its place (iosvc_dequeue.c:33-34).
LEMMA PopStep ==
  ASSUME HeapInv, pop
  PROVE  HeapInv'
<1> DEFINE z == n - 1
           h == Swapped(heap, 0, z)
<1>1. /\ pc = "pop" /\ heap' = Popped(h) /\ idx' = SwappedIdx(0, z)
      /\ n' = n - 1 /\ used' = used \ {gone} /\ gone' = NoEvent
      /\ pc' = IF n = 1 THEN "idle" ELSE "down"
      /\ i' = 0 /\ UNCHANGED kind
  BY DEF pop
<1>2. /\ n \in Nat /\ n > 0 /\ heap[0].e = gone /\ gone # NoEvent
      /\ used \subseteq Events
      /\ kind = "waits"
  BY <1>1 DEF HeapInv, TypeOK, OneEntryEach, OutOfOrderOnlyAtIndex
<1>3. 0 \in 0..(n - 1) /\ z \in 0..(n - 1) /\ z = n - 1
  BY <1>2
<1> HIDE DEF z
<1>4. /\ h \in [0..(n - 1) -> Entries]
      /\ h[0] = heap[z] /\ h[z] = heap[0]
      /\ \A k \in 0..(n - 1) : k # 0 /\ k # z => h[k] = heap[k]
      /\ \A j, k \in 0..(n - 1) : h[j].e = h[k].e => j = k
      /\ \A k \in 0..(n - 1) : h[k].e \in used
      /\ \A k \in 0..(n - 1) : h[k].deadline = -1 <=> h[k].e = gone
      /\ idx' \in [Events -> Nat \cup {-1}]
      /\ \A k \in 0..(n - 1) : idx'[h[k].e] = k
      /\ \A e \in used : idx'[e] >= 0 => idx'[e] < n /\ h[idx'[e]].e = e
  <2>1. /\ h = Swapped(heap, 0, z) /\ idx' = SwappedIdx(0, z)
        /\ 0 \in 0..(n - 1) /\ z \in 0..(n - 1)
    BY <1>1, <1>3
  <2> HIDE DEF h
  <2>2. Exchanged(h, idx', 0, z)
    BY <2>1, SwapExchanges
  <2> QED BY <1>2, <2>2 DEF Exchanged
<1> HIDE DEF h
<1>5. heap' = [k \in 0..(n - 2) |-> h[k]]
  BY <1>1 DEF Popped
<1>6. \A k \in 0..(n' - 1) : k \in 0..(n - 1) /\ heap'[k] = h[k] /\ k # z
  BY <1>1, <1>2, <1>3, <1>5
<1>7. \A k \in 0..(n' - 1) : h[k].e # gone
  BY <1>2, <1>3, <1>4, <1>6
<1>8. TypeOK'
  <2>1. heap' \in [0..(n' - 1) -> Entries]
    BY <1>1, <1>2, <1>4, <1>5
  <2> QED BY <1>1, <1>2, <1>4, <2>1 DEF HeapInv, TypeOK, Entries
<1>9. OneEntryEach'
  <2>1. /\ \A j, k \in 0..(n' - 1) : heap'[j].e = heap'[k].e => j = k
        /\ \A k \in 0..(n' - 1) : heap'[k].e \in used'
    BY <1>1, <1>4, <1>6, <1>7
  <2>2. \A k \in 0..(n' - 1) : heap'[k].deadline = -1 <=> heap'[k].e = gone'
    <3>1. \A k \in 0..(n' - 1) : heap'[k].e \in Events
      BY <1>2, <1>4, <1>6
    <3> QED BY <1>1, <1>4, <1>6, <1>7, <3>1, DeadlineHeapAssumption
  <2> QED BY <1>1, <2>1, <2>2 DEF OneEntryEach
<1>10. IndexExact'
  <2>1. \A k \in 0..(n' - 1) : heap'[k].e \in used' /\ idx'[heap'[k].e] = k
    BY <1>1, <1>4, <1>6, <1>7
  <2>2. ASSUME NEW e \in used', idx'[e] >= 0 PROVE idx'[e] < n' /\ heap'[idx'[e]].e = e
    <3>1. e \in used /\ e \in Events /\ e # gone
      BY <1>1, <1>2, <2>2
    <3>2. idx'[e] \in Nat /\ idx'[e] < n /\ h[idx'[e]].e = e
      BY <1>4, <2>2, <3>1
    <3>3. idx'[e] # z
      BY <1>2, <1>4, <3>1, <3>2
    <3>4. idx'[e] \in 0..(n' - 1)
      BY <1>1, <1>2, <1>3, <3>2, <3>3
    <3> QED BY <1>1, <1>2, <1>6, <3>2, <3>4
  <2> QED BY <2>1, <2>2 DEF IndexExact
<1>11. OutOfOrderOnlyAtIndex'
  <2>1. /\ n > 1 => heap'[0] = heap[n - 1]
        /\ \A k \in 1..(n - 2) : heap'[k] = heap[k]
    BY <1>1, <1>2, <1>3, <1>4, <1>6
  <2> QED BY <1>1, <1>2, <2>1, LastToFront
<1> QED BY <1>8, <1>9, <1>10, <1>11 DEF HeapInv

\* The front of the delayed handlers is removed.
LEMMA PopFrontStep ==
  ASSUME HeapInv, pop_front
  PROVE  HeapInv'
<1>1. /\ pc = "idle" /\ kind = "delays" /\ n > 0
      /\ heap' = Popped([heap EXCEPT ![0] = heap[n - 1]])
      /\ n' = n - 1 /\ used' = used \ {heap[0].e}
      /\ pc' = IF n = 1 THEN "idle" ELSE "down"
      /\ i' = 0 /\ UNCHANGED <<kind, idx, gone>>
  BY DEF pop_front
<1>2. /\ n \in Nat /\ heap \in [0..(n - 1) -> Entries]
      /\ 0 \in 0..(n - 1) /\ n - 1 \in 0..(n - 1)
  BY <1>1 DEF HeapInv, TypeOK, Entries
<1>3. gone = NoEvent
  BY <1>1 DEF HeapInv, OneEntryEach
<1>4. /\ heap' \in [0..(n' - 1) -> Entries]
      /\ n > 1 => heap'[0] = heap[n - 1]
      /\ \A k \in 1..(n - 2) : heap'[k] = heap[k]
  BY <1>1, <1>2 DEF Popped
<1>5. TypeOK'
  <2>1. n' \in Nat /\ i' \in Nat /\ used' \subseteq Events
    BY <1>1, <1>2 DEF HeapInv, TypeOK
  <2> QED BY <1>1, <1>4, <2>1 DEF HeapInv, TypeOK, Entries
<1>6. OneEntryEach'
  <2>1. /\ \A j, k \in 0..(n - 1) : heap[j].e = heap[k].e => j = k
        /\ \A k \in 0..(n - 1) : heap[k].e \in used
        /\ \A k \in 0..(n - 1) : heap[k].deadline = -1 <=> heap[k].e = gone
    BY DEF HeapInv, OneEntryEach
  <2>2. ASSUME NEW k \in 0..(n' - 1)
        PROVE  \/ k = 0 /\ n - 1 # 0 /\ heap'[k] = heap[n - 1]
               \/ k # 0 /\ k # n - 1 /\ k \in 0..(n - 1) /\ heap'[k] = heap[k]
    <3>1. CASE k = 0
      <4>1. n > 1
        BY <1>1, <1>2, <3>1
      <4> QED BY <1>2, <1>4, <3>1, <4>1
    <3>2. CASE k # 0
      <4>1. k \in 1..(n - 2)
        BY <1>1, <1>2, <3>2
      <4> QED BY <1>2, <1>4, <4>1
    <3> QED BY <3>1, <3>2
  <2>3. \A j, k \in 0..(n' - 1) : heap'[j].e = heap'[k].e => j = k
    BY <1>2, <2>1, <2>2
  <2>4. \A k \in 0..(n' - 1) : heap'[k].e \in used'
    BY <1>1, <1>2, <2>1, <2>2
  <2>5. \A k \in 0..(n' - 1) : heap'[k].deadline = -1 <=> heap'[k].e = gone'
    <3> TAKE k \in 0..(n' - 1)
    <3>1. PICK j \in 0..(n - 1) : heap'[k] = heap[j]
      BY <1>2, <2>2
    <3> QED BY <1>1, <2>1, <3>1
  <2> QED BY <1>1, <1>3, <2>3, <2>4, <2>5 DEF OneEntryEach
<1>7. IndexExact'
  BY <1>1 DEF IndexExact
<1>8. OutOfOrderOnlyAtIndex'
  BY <1>1, <1>4, LastToFront
<1> QED BY <1>5, <1>6, <1>7, <1>8 DEF HeapInv

\* A stop empties the heap.
LEMMA ClearStep ==
  ASSUME HeapInv, dynarr_clear
  PROVE  HeapInv'
<1>1. heap' \in [0..(n' - 1) -> Entries] /\ n' = 0
  BY DEF dynarr_clear
<1>2. TypeOK'
  BY <1>1 DEF dynarr_clear, HeapInv, TypeOK, Entries
<1>3. IndexExact' /\ OneEntryEach' /\ OutOfOrderOnlyAtIndex'
  BY <1>1 DEF dynarr_clear, HeapInv, IndexExact, OneEntryEach, OutOfOrderOnlyAtIndex
<1> QED BY <1>2, <1>3 DEF HeapInv

\* The order of the array, the indices and the entries, in every round.
THEOREM HeapInvariant == Spec => []HeapInv
<1>1. Init => HeapInv
  <2> SUFFICES ASSUME Init PROVE HeapInv
    OBVIOUS
  <2>1. heap \in [0..(n - 1) -> Entries] /\ n = 0
    BY DEF Init
  <2>2. TypeOK
    BY <2>1 DEF Init, TypeOK, Entries
  <2> QED BY <2>1, <2>2
          DEF Init, HeapInv, IndexExact, OneEntryEach, OutOfOrderOnlyAtIndex
<1>2. HeapInv /\ [Next]_vars => HeapInv'
  <2> SUFFICES ASSUME HeapInv, [Next]_vars PROVE HeapInv'
    OBVIOUS
  <2>1. ASSUME NEW e \in Events, iosvc_sched(e) PROVE HeapInv'
    BY <2>1, SchedStep
  <2>2. ASSUME NEW e \in Events, iosvc_dequeue(e) PROVE HeapInv'
    BY <2>2, DequeueStep
  <2>3. ASSUME NEW e \in Events, NEW d \in Deadlines, Insert(e, d) PROVE HeapInv'
    BY <2>3, InsertStep
  <2>4. CASE sift_up \/ sift_up_ends
    BY <2>4, SiftUpStep, SiftUpEndStep
  <2>5. CASE pop \/ pop_front
    BY <2>5, PopStep, PopFrontStep
  <2>6. CASE sift_down \/ sift_down_ends
    BY <2>6, SiftDownStep, SiftDownEndStep
  <2>7. CASE dynarr_clear
    BY <2>7, ClearStep
  <2>8. CASE UNCHANGED vars
    BY <2>8 DEF vars, HeapInv, TypeOK, IndexExact, OneEntryEach,
                OutOfOrderOnlyAtIndex, InOrder, BelowParentOf, Due
  <2> QED BY <2>1, <2>2, <2>3, <2>4, <2>5, <2>6, <2>7, <2>8 DEF Next
<1> QED BY <1>1, <1>2, PTL DEF Spec

\* The array holds nelems entries, each with a deadline that was asked for or the
\* marker -1, and an event keeps an index or -1 (async_heap_entry.h:8-13,
\* iosvc_dequeue.c:29-37).
THEOREM TypeCorrect == Spec => []TypeOK
BY HeapInvariant, PTL DEF HeapInv

\* ddl_heap_idx is the place of the event's entry in every round of sifting
\* (async_heap_entry.c:8-22).
THEOREM IndexAlwaysExact == Spec => []IndexExact
BY HeapInvariant, PTL DEF HeapInv

\* No event has two entries, and only the entry that is being removed has deadline -1
\* (iosvc_dequeue.c:29).
THEOREM AlwaysOneEntryEach == Spec => []OneEntryEach
BY HeapInvariant, PTL DEF HeapInv

\* At most the entry that is being sifted is out of order, and between two operations
\* none is (heaputils.c:13-71).
THEOREM OrderKept == Spec => []OutOfOrderOnlyAtIndex
BY HeapInvariant, PTL DEF HeapInv

\* An insertion takes the front only from an entry that is due later.
THEOREM FrontKeeps == Spec => FrontYieldsToEarlier
<1> DEFINE Yields == pc = "up" /\ gone = NoEvent /\ heap'[0].e # heap[0].e
                        => heap'[0].deadline < heap[0].deadline
<1>1. HeapInv /\ [Next]_vars => [Yields]_vars
  <2> SUFFICES ASSUME HeapInv, Next, pc = "up", heap'[0].e # heap[0].e
               PROVE  heap'[0].deadline < heap[0].deadline
    OBVIOUS
  <2>1. sift_up
    BY DEF Next, iosvc_sched, iosvc_dequeue, Insert, sift_up_ends, pop, pop_front,
           sift_down, sift_down_ends, dynarr_clear
  <2>2. /\ n \in Nat /\ i \in 1..(n - 1) /\ heap' = Swapped(heap, i, up(i))
        /\ heap[i].deadline < heap[up(i)].deadline
    BY <2>1 DEF sift_up, Rises, lt, HeapInv, TypeOK, OutOfOrderOnlyAtIndex
  <2>3. up(i) \in 0..(n - 1) /\ up(i) # i
    BY <2>2, ParentBelow
  <2>4. /\ heap'[up(i)] = heap[i]
        /\ \A k \in 0..(n - 1) : k # i /\ k # up(i) => heap'[k] = heap[k]
    BY <2>2, <2>3 DEF Swapped, HeapInv, TypeOK
  <2>5. 0 \in 0..(n - 1)
    BY <2>2 DEF HeapInv, TypeOK
  <2>6. up(i) = 0
    BY <2>2, <2>4, <2>5
  <2> QED BY <2>2, <2>4, <2>6
<1> QED BY <1>1, HeapInvariant, PTL DEF Spec, FrontYieldsToEarlier

-----------------------------------------------------------------------------
(* The heap implements the set of deadlines.                               *)

\* What an array h with the places D stands for while g is being removed.
EntriesOf(h, D, g) ==
    [e \in {h[k].e : k \in D} \ {g} |->
        h[CHOOSE k \in D : h[k].e = e].deadline]

\* No event has two entries.
Unique(h, D) == \A j, k \in D : h[j].e = h[k].e => j = k

\* Where no event has two entries, it maps each event to its deadline.
LEMMA EntriesByPlace ==
  ASSUME NEW h, NEW D, NEW g, Unique(h, D), NEW k \in D, h[k].e # g
  PROVE  /\ h[k].e \in DOMAIN EntriesOf(h, D, g)
         /\ EntriesOf(h, D, g)[h[k].e] = h[k].deadline
<1>1. (CHOOSE j \in D : h[j].e = h[k].e) = k
  BY DEF Unique
<1>2. h[k].e \in {h[j].e : j \in D} \ {g}
  OBVIOUS
<1> QED BY <1>1, <1>2 DEF EntriesOf

\* Arrays with the same entries in other places stand for the same.
LEMMA SameEntries ==
  ASSUME NEW h, NEW D, NEW g, Unique(h, D), NEW H, NEW F, NEW G, Unique(H, F)
  PROVE  /\ \A k \in D : h[k].e # g => \E j \in F : H[j] = h[k] /\ H[j].e # G
         /\ \A j \in F : H[j].e # G => \E k \in D : H[j] = h[k] /\ h[k].e # g
         => EntriesOf(H, F, G) = EntriesOf(h, D, g)
<1> DEFINE a == EntriesOf(h, D, g)
           b == EntriesOf(H, F, G)
<1>1. /\ a = [e \in DOMAIN a |-> a[e]] /\ b = [e \in DOMAIN b |-> b[e]]
      /\ DOMAIN a = {h[k].e : k \in D} \ {g}
      /\ DOMAIN b = {H[k].e : k \in F} \ {G}
  BY DEF EntriesOf
<1>2. \A k \in D : h[k].e # g => a[h[k].e] = h[k].deadline
  BY EntriesByPlace
<1>3. \A k \in F : H[k].e # G => b[H[k].e] = H[k].deadline
  BY EntriesByPlace
<1> HIDE DEF a, b
<1> SUFFICES ASSUME
       \A k \in D : h[k].e # g => \E j \in F : H[j] = h[k] /\ H[j].e # G,
       \A j \in F : H[j].e # G => \E k \in D : H[j] = h[k] /\ h[k].e # g
    PROVE a = b
  BY DEF a, b
<1>4. DOMAIN a = DOMAIN b
  BY <1>1
<1>5. ASSUME NEW e \in DOMAIN a PROVE a[e] = b[e]
  <2>1. PICK k \in D : h[k].e = e /\ e # g
    BY <1>1
  <2>2. PICK j \in F : H[j] = h[k] /\ H[j].e # G
    BY <2>1
  <2> QED BY <1>2, <1>3, <2>1, <2>2
<1> QED BY <1>1, <1>4, <1>5

\* The events with an entry.
LEMMA EntriesDomain ==
  ASSUME NEW h, NEW D, NEW g, NEW x
  PROVE  x \in DOMAIN EntriesOf(h, D, g) <=> x # g /\ \E k \in D : h[k].e = x
BY DEF EntriesOf

\* A function with the deadlines of an array is what the array stands for.
LEMMA EntriesAre ==
  ASSUME NEW h, NEW D, NEW g, Unique(h, D), NEW f, f = [x \in DOMAIN f |-> f[x]],
         \A k \in D : h[k].e # g => h[k].e \in DOMAIN f /\ f[h[k].e] = h[k].deadline,
         \A x \in DOMAIN f : x # g /\ \E k \in D : h[k].e = x
  PROVE  EntriesOf(h, D, g) = f
<1> DEFINE a == EntriesOf(h, D, g)
<1>1. a = [x \in DOMAIN a |-> a[x]]
  BY DEF EntriesOf
<1>2. \A x : x \in DOMAIN a <=> x # g /\ \E k \in D : h[k].e = x
  BY EntriesDomain
<1>3. \A k \in D : h[k].e # g => a[h[k].e] = h[k].deadline
  BY EntriesByPlace
<1> HIDE DEF a
<1>4. DOMAIN a = DOMAIN f
  <2>1. \A x \in DOMAIN a : x \in DOMAIN f
    BY <1>2
  <2>2. \A x \in DOMAIN f : x \in DOMAIN a
    BY <1>2
  <2> QED BY <2>1, <2>2
<1>5. ASSUME NEW x \in DOMAIN a PROVE a[x] = f[x]
  <2>1. PICK k \in D : h[k].e = x /\ x # g
    BY <1>2
  <2> QED BY <1>3, <2>1
<1>6. a = f
  BY <1>1, <1>4, <1>5
<1> QED BY <1>6 DEF a

\* The places of the array, what it stands for, and the event in front of it.
Places == 0..(n - 1)

Ent   == EntriesOf(heap, Places, gone)
Front == IF pc = "idle" /\ n > 0 THEN heap[0].e ELSE NoEvent

\* What the array stands for has each event that is not being removed with its deadline.
LEMMA EntHasDeadlines ==
  ASSUME HeapInv
  PROVE  /\ \A x \in DOMAIN Ent : x # gone /\ \E k \in Places : heap[k].e = x
         /\ \A k \in Places : heap[k].e # gone =>
               heap[k].e \in DOMAIN Ent /\ Ent[heap[k].e] = heap[k].deadline
<1>1. Unique(heap, Places)
  BY DEF Places, Unique, HeapInv, OneEntryEach
<1>2. \A x \in DOMAIN Ent : x # gone /\ \E k \in Places : heap[k].e = x
  BY EntriesDomain DEF Ent
<1>3. \A k \in Places : heap[k].e # gone =>
               heap[k].e \in DOMAIN Ent /\ Ent[heap[k].e] = heap[k].deadline
  BY <1>1, EntriesByPlace DEF Ent
<1> QED BY <1>2, <1>3

\* The array after a step stands for f if it has those entries.
LEMMA EntBecomes ==
  ASSUME HeapInv', NEW f, f = [x \in DOMAIN f |-> f[x]],
         \A k \in Places' : heap'[k].e # gone' =>
            heap'[k].e \in DOMAIN f /\ f[heap'[k].e] = heap'[k].deadline,
         \A x \in DOMAIN f : x # gone' /\ \E k \in Places' : heap'[k].e = x
  PROVE  Ent' = f
<1>1. Unique(heap', Places')
  BY DEF Places, Unique, HeapInv, OneEntryEach
<1>2. EntriesOf(heap', Places', gone') = f
  BY <1>1, EntriesAre
<1> QED BY <1>2 DEF Ent

\* The same entries in other places.
LEMMA EntStays ==
  ASSUME HeapInv, HeapInv',
         \A k \in Places : heap[k].e # gone =>
            \E j \in Places' : heap'[j] = heap[k] /\ heap'[j].e # gone',
         \A j \in Places' : heap'[j].e # gone' =>
            \E k \in Places : heap'[j] = heap[k] /\ heap[k].e # gone
  PROVE  Ent' = Ent
<1>1. Unique(heap, Places) /\ Unique(heap', Places')
  BY DEF Places, Unique, HeapInv, OneEntryEach
<1>2. EntriesOf(heap', Places', gone') = EntriesOf(heap, Places, gone)
  BY <1>1, SameEntries
<1> QED BY <1>2 DEF Ent

\* iosvc_sched_timeout and iosvc_post_delay insert an entry.
LEMMA InsertInserts ==
  ASSUME HeapInv, HeapInv', NEW e \in Events, NEW d \in Deadlines, Insert(e, d)
  PROVE  /\ e \notin DOMAIN Ent
         /\ Ent' = [x \in DOMAIN Ent \cup {e} |-> IF x = e THEN d ELSE Ent[x]]
         /\ Front' = NoEvent
<1> DEFINE f == [x \in DOMAIN Ent \cup {e} |-> IF x = e THEN d ELSE Ent[x]]
<1>1. /\ e \notin used /\ n \in Nat /\ n' = n + 1 /\ pc' = "up"
      /\ gone = NoEvent /\ gone' = NoEvent /\ e # NoEvent
  BY DeadlineHeapAssumption DEF Insert, HeapInv, TypeOK, OneEntryEach
<1>2. /\ heap'[n].e = e /\ heap'[n].deadline = d
      /\ \A k \in Places : heap'[k] = heap[k] /\ heap[k].e # e /\ heap[k].e # gone
  BY <1>1, DeadlineHeapAssumption
     DEF Places, Insert, Emplaced, HeapInv, TypeOK, OneEntryEach
<1>3. /\ \A x \in DOMAIN Ent : \E k \in Places : heap[k].e = x
      /\ \A k \in Places : /\ heap[k].e \in DOMAIN Ent
                           /\ Ent[heap[k].e] = heap[k].deadline
  BY <1>2, EntHasDeadlines
<1>4. e \notin DOMAIN Ent
  BY <1>2, <1>3
<1>5. Places' = Places \cup {n}
  BY <1>1 DEF Places
<1>6. \A k \in Places' : heap'[k].e # gone' =>
         heap'[k].e \in DOMAIN f /\ f[heap'[k].e] = heap'[k].deadline
  BY <1>2, <1>3, <1>5
<1>7. \A x \in DOMAIN f : x # gone' /\ \E k \in Places' : heap'[k].e = x
  BY <1>1, <1>2, <1>3, <1>5
<1>8. f = [x \in DOMAIN f |-> f[x]]
  OBVIOUS
<1> HIDE DEF f
<1>9. Ent' = f
  BY <1>6, <1>7, <1>8, EntBecomes
<1> QED BY <1>1, <1>4, <1>9 DEF f, Front

\* iosvc_dequeue of an event with an entry removes it when it marks it.
LEMMA DequeueRemoves ==
  ASSUME HeapInv, HeapInv', NEW e \in Events, iosvc_dequeue(e), idx[e] >= 0
  PROVE  /\ e \in DOMAIN Ent
         /\ Ent' = [x \in DOMAIN Ent \ {e} |-> Ent[x]]
         /\ Front' = NoEvent
<1> DEFINE f == [x \in DOMAIN Ent \ {e} |-> Ent[x]]
           j == idx[e]
<1>1. /\ pc = "idle" /\ pc' = "up" /\ n' = n /\ n \in Nat /\ kind = "waits"
      /\ gone = NoEvent /\ gone' = e /\ e # NoEvent /\ e \in used
      /\ heap' = [heap EXCEPT ![j].deadline = -1]
  BY DeadlineHeapAssumption DEF iosvc_dequeue, HeapInv, TypeOK, OneEntryEach
<1>2. Places' = Places /\ j \in Places /\ heap[j].e = e
  BY <1>1 DEF Places, HeapInv, TypeOK, IndexExact
<1> HIDE DEF j
<1>3. /\ \A k \in Places : heap'[k].e = heap[k].e /\ heap[k].e # gone
      /\ \A k \in Places : k # j => heap'[k].deadline = heap[k].deadline
  <2>1. heap \in [Places -> Entries]
    BY DEF Places, HeapInv, TypeOK, Entries
  <2>2. \A k \in Places : heap[k] \in Entries /\ heap[k].e # gone
    BY <1>1, <2>1, DeadlineHeapAssumption DEF Entries
  <2> QED BY <1>1, <1>2, <2>1, <2>2 DEF Entries
<1>4. /\ \A x \in DOMAIN Ent : \E k \in Places : heap[k].e = x
      /\ \A k \in Places : /\ heap[k].e \in DOMAIN Ent
                           /\ Ent[heap[k].e] = heap[k].deadline
  BY <1>3, EntHasDeadlines
<1>5. \A k \in Places' : heap'[k].e # gone' =>
         heap'[k].e \in DOMAIN f /\ f[heap'[k].e] = heap'[k].deadline
  BY <1>1, <1>2, <1>3, <1>4
<1>6. \A x \in DOMAIN f : x # gone' /\ \E k \in Places' : heap'[k].e = x
  BY <1>1, <1>2, <1>3, <1>4
<1>7. f = [x \in DOMAIN f |-> f[x]]
  OBVIOUS
<1> HIDE DEF f
<1>8. Ent' = f
  BY <1>5, <1>6, <1>7, EntBecomes
<1> QED BY <1>1, <1>2, <1>4, <1>8 DEF f, Front

\* timeout_first removes the front of the delayed handlers.
LEMMA PopFrontRemoves ==
  ASSUME HeapInv, HeapInv', pop_front
  PROVE  /\ heap[0].e \in Events /\ heap[0].e \in DOMAIN Ent
         /\ Ent' = [x \in DOMAIN Ent \ {heap[0].e} |-> Ent[x]]
         /\ Front' = NoEvent
<1> DEFINE e == heap[0].e
           f == [x \in DOMAIN Ent \ {e} |-> Ent[x]]
<1>1. /\ pc = "idle" /\ n > 0 /\ n \in Nat /\ n' = n - 1
      /\ gone = NoEvent /\ gone' = NoEvent
      /\ pc' = IF n = 1 THEN "idle" ELSE "down"
      /\ heap' = Popped([heap EXCEPT ![0] = heap[n - 1]])
      /\ heap \in [Places -> Entries]
  BY DEF pop_front, HeapInv, TypeOK, OneEntryEach, Places, Entries
<1>2. /\ n > 1 => heap'[0] = heap[n - 1]
      /\ \A k \in 1..(n - 2) : heap'[k] = heap[k]
  BY <1>1 DEF Popped, Places
<1>3. /\ 0 \in Places /\ n - 1 \in Places /\ Places' = 0..(n - 2)
      /\ Places = {0, n - 1} \cup 1..(n - 2)
  BY <1>1 DEF Places
<1>4. \A k \in Places : heap[k].e \in Events /\ heap[k].e # gone
  BY <1>1, DeadlineHeapAssumption DEF Entries
<1>5. /\ \A x \in DOMAIN Ent : \E k \in Places : heap[k].e = x
      /\ \A k \in Places : /\ heap[k].e \in DOMAIN Ent
                           /\ Ent[heap[k].e] = heap[k].deadline
  BY <1>4, EntHasDeadlines
<1>6. \A k \in Places' : \E j \in Places : j # 0 /\ heap'[k] = heap[j]
  <2> TAKE k \in Places'
  <2>1. CASE k = 0
    <3>1. n > 1
      BY <1>1, <1>3, <2>1
    <3>2. n - 1 # 0 /\ heap'[k] = heap[n - 1]
      BY <1>1, <1>2, <2>1, <3>1
    <3> QED BY <1>3, <3>2
  <2>2. CASE k # 0
    <3>1. k \in 1..(n - 2)
      BY <1>1, <1>3, <2>2
    <3>2. k \in Places /\ heap'[k] = heap[k]
      BY <1>2, <1>3, <3>1
    <3> QED BY <2>2, <3>2
  <2> QED BY <2>1, <2>2
<1>7. \A j \in Places : j # 0 => \E k \in Places' : heap'[k] = heap[j]
  <2> SUFFICES ASSUME NEW j \in Places, j # 0
               PROVE  \E k \in Places' : heap'[k] = heap[j]
    OBVIOUS
  <2>1. CASE j = n - 1
    <3>1. n > 1 /\ 0 \in Places'
      BY <1>1, <1>3, <2>1
    <3> QED BY <1>2, <2>1, <3>1
  <2>2. CASE j # n - 1
    <3>1. j \in 1..(n - 2) /\ j \in Places'
      BY <1>1, <1>3, <2>2
    <3> QED BY <1>2, <3>1
  <2> QED BY <2>1, <2>2
<1>8. \A j \in Places : heap[j].e = e => j = 0
  BY <1>3 DEF Places, HeapInv, OneEntryEach
<1> HIDE DEF e
<1>9. \A k \in Places' : heap'[k].e # gone' =>
         heap'[k].e \in DOMAIN f /\ f[heap'[k].e] = heap'[k].deadline
  <2> TAKE k \in Places'
  <2>1. PICK j \in Places : j # 0 /\ heap'[k] = heap[j]
    BY <1>6
  <2>2. heap[j].e # e /\ heap[j].e \in DOMAIN Ent /\ Ent[heap[j].e] = heap[j].deadline
    BY <1>5, <1>8, <2>1
  <2> QED BY <2>1, <2>2
<1>10. ASSUME NEW x \in DOMAIN f
       PROVE  x # gone' /\ \E k \in Places' : heap'[k].e = x
  <2>1. PICK j \in Places : heap[j].e = x /\ x # e
    BY <1>5
  <2>2. j # 0
    BY <2>1 DEF e
  <2> QED BY <1>1, <1>4, <1>7, <2>1, <2>2
<1>11. f = [x \in DOMAIN f |-> f[x]]
  OBVIOUS
<1> HIDE DEF f
<1>12. Ent' = f
  BY <1>9, <1>10, <1>11, EntBecomes
<1>13. Front' = NoEvent
  BY <1>1 DEF Front
<1> QED BY <1>3, <1>4, <1>5, <1>12, <1>13 DEF e, f

\* The other steps leave the set of entries as it is.
LEMMA SwapStays ==
  ASSUME HeapInv, HeapInv', NEW a \in Places, NEW b \in Places,
         heap' = Swapped(heap, a, b), UNCHANGED <<n, gone>>
  PROVE  Ent' = Ent
<1>1. Places' = Places
  BY DEF Places
<1>2. /\ heap'[a] = heap[b] /\ heap'[b] = heap[a]
      /\ \A k \in Places : k # a /\ k # b => heap'[k] = heap[k]
  BY DEF Swapped, Places, HeapInv, TypeOK
<1>3. \A k \in Places : \E j \in Places : heap'[j] = heap[k]
  BY <1>2
<1>4. \A j \in Places : \E k \in Places : heap'[j] = heap[k]
  BY <1>2
<1>5. \A k \in Places : heap[k].e # gone =>
         \E j \in Places' : heap'[j] = heap[k] /\ heap'[j].e # gone'
  BY <1>1, <1>3
<1>6. \A j \in Places' : heap'[j].e # gone' =>
         \E k \in Places : heap'[j] = heap[k] /\ heap[k].e # gone
  BY <1>1, <1>4
<1> QED BY <1>5, <1>6, EntStays

\* Dropping the entry of the event that was removed changes nothing that the heap stands
\* for.
LEMMA PopStays ==
  ASSUME HeapInv, HeapInv', pop
  PROVE  Ent' = Ent /\ Front' = Front
<1> DEFINE z == n - 1
<1>1. /\ pc = "pop" /\ heap' = Popped(Swapped(heap, 0, z)) /\ n' = n - 1
      /\ gone' = NoEvent /\ pc' = IF n = 1 THEN "idle" ELSE "down"
      /\ n \in Nat /\ n > 0 /\ heap[0].e = gone
      /\ heap \in [Places -> Entries]
  BY DEF pop, HeapInv, TypeOK, OutOfOrderOnlyAtIndex, Places, Entries
<1>2. /\ 0 \in Places /\ z \in Places /\ Places' = Places \ {z}
      /\ Places = 0..(n - 1) /\ Places' = 0..(n - 2)
      /\ 0 \in Places' <=> z # 0
  BY <1>1 DEF Places
<1> HIDE DEF z
<1>3. /\ z # 0 => heap'[0] = heap[z]
      /\ \A k \in Places' : k # 0 => heap'[k] = heap[k]
  <2>1. heap' = [k \in Places' |-> Swapped(heap, 0, z)[k]]
    BY <1>1, <1>2 DEF Popped
  <2>2. /\ Swapped(heap, 0, z)[0] = heap[z]
        /\ \A k \in Places : k # 0 /\ k # z => Swapped(heap, 0, z)[k] = heap[k]
    BY <1>1, <1>2 DEF Swapped
  <2> QED BY <1>2, <2>1, <2>2
<1>4. \A k \in Places : heap[k].e \in Events
  BY <1>1 DEF Entries
<1>5. \A k \in Places : heap[k].e # gone => k # 0
  BY <1>1
<1>6. \A k \in Places : k # 0 => heap[k].e # gone
  BY <1>1, <1>2 DEF HeapInv, OneEntryEach
<1>7. ASSUME NEW k \in Places, heap[k].e # gone
      PROVE  \E j \in Places' : heap'[j] = heap[k] /\ heap'[j].e # gone'
  <2>1. CASE k = z
    <3>1. 0 \in Places' /\ heap'[0] = heap[k]
      BY <1>2, <1>3, <1>5, <1>7, <2>1
    <3> QED BY <1>1, <1>4, <3>1, DeadlineHeapAssumption
  <2>2. CASE k # z
    <3>1. k \in Places' /\ heap'[k] = heap[k]
      BY <1>2, <1>3, <1>5, <1>7, <2>2
    <3> QED BY <1>1, <1>4, <3>1, DeadlineHeapAssumption
  <2> QED BY <2>1, <2>2
<1>8. ASSUME NEW j \in Places', heap'[j].e # gone'
      PROVE  \E k \in Places : heap'[j] = heap[k] /\ heap[k].e # gone
  <2>1. CASE j = 0
    <3>1. z # 0 /\ heap'[j] = heap[z]
      BY <1>2, <1>3, <2>1
    <3> QED BY <1>2, <1>6, <3>1
  <2>2. CASE j # 0
    <3>1. j \in Places /\ heap'[j] = heap[j]
      BY <1>2, <1>3, <2>2
    <3> QED BY <1>6, <2>2, <3>1
  <2> QED BY <2>1, <2>2
<1>9. Ent' = Ent
  BY <1>7, <1>8, EntStays
<1> QED BY <1>1, <1>9 DEF Front

\* When a loop ends the front is an entry with the least deadline.
LEMMA LoopEndSettles ==
  ASSUME HeapInv, HeapInv', pc # "idle", pc' = "idle", gone = NoEvent, i < n,
         UNCHANGED <<heap, n, gone>>
  PROVE  /\ Front = NoEvent
         /\ Front' \in {e \in DOMAIN Ent : \A x \in DOMAIN Ent : Ent[e] <= Ent[x]}
         /\ Ent' = Ent
<1>1. n \in Nat /\ n > 0 /\ 0 \in 0..(n - 1)
  BY DEF HeapInv, TypeOK
<1>2. Front = NoEvent /\ Front' = heap[0].e /\ Ent' = Ent
  BY <1>1 DEF Front, Ent, Places
<1>3. Dues \in [0..(n - 1) -> Int] /\ \A k \in 0..(n - 1) : Dues[k] = heap[k].deadline
  BY DuesAreIntegers DEF Dues
<1>4. \A k \in 1..(n - 1) : Dues[up(k)] <= Dues[k]
  <2>1. \A k \in 1..(n - 1) : heap[up(k)].deadline <= heap[k].deadline
    BY DEF HeapInv, OutOfOrderOnlyAtIndex, InOrder, Due
  <2>2. \A k \in 1..(n - 1) : up(k) \in 0..(n - 1) /\ k \in 0..(n - 1)
    BY <1>1, ParentBelow
  <2> QED BY <1>3, <2>1, <2>2
<1>5. \A k \in 0..(n - 1) : Dues[0] <= Dues[k]
  BY <1>1, <1>3, <1>4, RootIsLeast
<1>6. \A k \in Places : heap[0].deadline <= heap[k].deadline
  BY <1>1, <1>3, <1>5 DEF Places
<1>7. \A k \in Places : heap[k].e # gone
  BY DeadlineHeapAssumption DEF Places, HeapInv, TypeOK
<1>8. 0 \in Places
  BY <1>1 DEF Places
<1>9. /\ \A x \in DOMAIN Ent : \E k \in Places : heap[k].e = x
      /\ \A k \in Places : /\ heap[k].e \in DOMAIN Ent
                           /\ Ent[heap[k].e] = heap[k].deadline
  BY <1>7, EntHasDeadlines
<1>10. \A x \in DOMAIN Ent : Ent[heap[0].e] <= Ent[x]
  BY <1>6, <1>8, <1>9
<1> QED BY <1>2, <1>8, <1>9, <1>10

\* An empty array stands for the empty set of entries.
LEMMA EmptyArray ==
  ASSUME n = 0
  PROVE  Ent = << >>
BY DEF Ent, Places, EntriesOf

\* The heap is a set of deadlines with a least one in front.
THEOREM HeapImplementsDeadlineSet == Spec => ImplementsDeadlineSet
<1>1. Init => Abstract!Init
  <2> SUFFICES ASSUME Init PROVE Ent = << >> /\ Front = NoEvent
    BY DEF Abstract!Init, Ent, Front, Places, EntriesOf
  <2> QED BY EmptyArray DEF Init, Front
<1>2. HeapInv /\ HeapInv' /\ [Next]_vars => [Abstract!Next]_(Abstract!dsVars)
  <2> SUFFICES ASSUME HeapInv, HeapInv', [Next]_vars
               PROVE  [Abstract!Next]_(Abstract!dsVars)
    OBVIOUS
  <2>1. Ent' = Ent /\ Front' = Front => [Abstract!Next]_(Abstract!dsVars)
    BY DEF Abstract!dsVars, Ent, Front, Places, EntriesOf
  <2>2. ASSUME NEW e \in Events, iosvc_sched(e)
        PROVE  [Abstract!Next]_(Abstract!dsVars)
    BY <2>1, <2>2 DEF iosvc_sched, Ent, Front, Places
  <2>3. ASSUME NEW e \in Events, iosvc_dequeue(e)
        PROVE  [Abstract!Next]_(Abstract!dsVars)
    <3>1. CASE idx[e] >= 0
      <4>1. /\ e \in DOMAIN Ent
            /\ Ent' = [x \in DOMAIN Ent \ {e} |-> Ent[x]]
            /\ Front' = NoEvent
        BY <2>3, <3>1, DequeueRemoves
      <4>2. Abstract!Remove(e)
        BY <4>1 DEF Abstract!Remove, Ent, Front, Places, EntriesOf
      <4> QED BY <4>2 DEF Abstract!Next
    <3>2. CASE ~(idx[e] >= 0)
      BY <2>1, <2>3, <3>2 DEF iosvc_dequeue, Ent, Front, Places
    <3> QED BY <3>1, <3>2
  <2>4. ASSUME NEW e \in Events, NEW d \in Deadlines, Insert(e, d)
        PROVE  [Abstract!Next]_(Abstract!dsVars)
    <3>1. /\ e \notin DOMAIN Ent
          /\ Ent' = [x \in DOMAIN Ent \cup {e} |-> IF x = e THEN d ELSE Ent[x]]
          /\ Front' = NoEvent
      BY <2>4, InsertInserts
    <3>2. Abstract!Insert(e, d)
      BY <3>1 DEF Abstract!Insert, Ent, Front, Places, EntriesOf
    <3> QED BY <3>2 DEF Abstract!Next
  <2>5. CASE sift_up
    <3>1. /\ i \in Places /\ up(i) \in Places /\ pc = "up" /\ pc' = "up"
          /\ heap' = Swapped(heap, i, up(i)) /\ UNCHANGED <<n, gone>>
      BY <2>5, ParentBelow
         DEF sift_up, Rises, Places, HeapInv, TypeOK, OutOfOrderOnlyAtIndex
    <3>2. Ent' = Ent
      BY <3>1, SwapStays
    <3> QED BY <2>1, <3>1, <3>2 DEF Front
  <2>6. CASE sift_down
    <3>1. /\ i < n /\ pc = "down" /\ pc' = "down"
          /\ heap' = Swapped(heap, MinIdx, i) /\ UNCHANGED <<n, gone>>
      BY <2>6 DEF sift_down, HeapInv, OutOfOrderOnlyAtIndex
    <3>2. MinIdx \in Places /\ i \in Places
      BY <3>1, MinIdxIsLeast DEF Places, HeapInv, TypeOK
    <3>3. Ent' = Ent
      BY <3>1, <3>2, SwapStays
    <3> QED BY <2>1, <3>1, <3>3 DEF Front
  <2>7. CASE sift_up_ends \/ sift_down_ends
    <3>1. /\ pc \in {"up", "down"} /\ pc' \in {"idle", "pop"}
          /\ UNCHANGED <<heap, n, gone>> /\ i < n
          /\ pc' = "idle" => gone = NoEvent
      BY <2>7 DEF sift_up_ends, sift_down_ends, HeapInv, OneEntryEach,
                  OutOfOrderOnlyAtIndex
    <3>2. CASE pc' = "idle"
      <4>1. /\ Front = NoEvent
            /\ Front' \in {e \in DOMAIN Ent : \A x \in DOMAIN Ent : Ent[e] <= Ent[x]}
            /\ Ent' = Ent
        BY <3>1, <3>2, LoopEndSettles
      <4>2. Abstract!Settle
        BY <4>1 DEF Abstract!Settle, Ent, Front, Places, EntriesOf
      <4> QED BY <4>2 DEF Abstract!Next
    <3>3. CASE pc' # "idle"
      BY <2>1, <3>1, <3>3 DEF Ent, Front, Places
    <3> QED BY <3>2, <3>3
  <2>8. CASE pop
    BY <2>1, <2>8, PopStays
  <2>9. CASE pop_front
    <3>1. PICK e \in Events : e = heap[0].e
      BY <2>9, PopFrontRemoves
    <3>2. /\ e \in DOMAIN Ent
          /\ Ent' = [x \in DOMAIN Ent \ {e} |-> Ent[x]]
          /\ Front' = NoEvent
      BY <2>9, <3>1, PopFrontRemoves
    <3>3. Abstract!Remove(e)
      BY <3>2 DEF Abstract!Remove, Ent, Front, Places, EntriesOf
    <3> QED BY <3>3 DEF Abstract!Next
  <2>10. CASE dynarr_clear
    <3>1. n' = 0
      BY <2>10 DEF dynarr_clear
    <3>2. Ent' = << >> /\ Front' = NoEvent
      BY <3>1 DEF Front, Ent, Places, EntriesOf
    <3>3. Abstract!Clear
      BY <3>2 DEF Abstract!Clear, Ent, Front, Places, EntriesOf
    <3> QED BY <3>3 DEF Abstract!Next
  <2>11. CASE UNCHANGED vars
    BY <2>1, <2>11 DEF vars, Ent, Front, Places
  <2> QED BY <2>2, <2>3, <2>4, <2>5, <2>6, <2>7, <2>8, <2>9, <2>10, <2>11 DEF Next
<1> QED BY <1>1, <1>2, HeapInvariant, PTL DEF Spec, ImplementsDeadlineSet, Abstract!Spec

=============================================================================
