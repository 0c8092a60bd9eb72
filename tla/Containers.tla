----------------------------- MODULE Containers -----------------------------
(***************************************************************************)
(* The containers of 03-data-structures/examples by their representation:  *)
(*   ring/ring.go   Ring (an array used round) and RecentKeys (ring + map) *)
(*   lru/lru.go     LRU (list + map, one mutex: a call is a step)          *)
(*   heap/heap.go   Heap (a binary tree in a slice)                        *)
(*                                                                         *)
(* A behaviour is one of a single container.  Peek, Len, Cap and Contains  *)
(* only read.                                                              *)
(***************************************************************************)
EXTENDS Integers, SequencesExt, FiniteSets

CONSTANTS
    Values, Keys, Image, Priority,      \* as in Collections
    Sizes,         \* the capacities asked for; below 1 they become 1
    MaxHeap,       \* bound on a heap's length
    MaxCounted     \* bound on the sum of the cache's counters

(* A slot that holds nothing holds the zero value, which stands apart from *)
(* the elements here; less compares priorities.                            *)
ContainersConstants ==
    /\ 0 \notin Values \cup Keys
    /\ Image \in [Values -> Values]
    /\ Priority \in [Values -> Int]
    /\ Sizes \subseteq Int
    /\ MaxHeap \in Nat /\ MaxCounted \in Nat

VARIABLES
    kind,       \* "ring", "recent", "lru" or "heap"
    size,       \* len(r.items), c.cap
    ring,       \* [items, head, count]; RecentKeys has one, too
    index,      \* RecentKeys.seen
    ll,         \* LRU.ll: keys of its elements, front first
    item,       \* LRU.item: key -> the value of its element
    metrics,    \* LRU.hits, misses, evictions
    data,       \* Heap.data
    returned      \* history: what the last call returned or handed to OnEvict

cache == <<ll, item, metrics>>
vars == <<kind, size, ring, index, cache, data, returned>>

Zero == 0
Nothing == <<>>
Slots == 0 .. size - 1

-----------------------------------------------------------------------------
Init ==
    /\ kind \in {"ring", "recent", "lru", "heap"}
    /\ size \in {IF n < 1 THEN 1 ELSE n : n \in Sizes}
    /\ ring = [items |-> [i \in Slots |-> Zero], head |-> 0, count |-> 0]
    /\ index = {}
    /\ ll = <<>> /\ item = <<>>
    /\ metrics = [hits |-> 0, misses |-> 0, evictions |-> 0]
    /\ data = <<>>
    /\ returned = Nothing

(* The oldest element leaves: the body of Pop, and of Push when full. *)
DropHead(r) ==
    [items |-> [r.items EXCEPT ![r.head] = Zero],
     head |-> (r.head + 1) % size, count |-> r.count - 1]

Write(r, v) ==
    [items |-> [r.items EXCEPT ![(r.head + r.count) % size] = v],
     head |-> r.head, count |-> r.count + 1]

(* "Evict BEFORE writing: when full, tail == head." *)
Pushed(r, v) == Write(IF r.count = size THEN DropHead(r) ELSE r, v)
Evicted(r) == IF r.count = size THEN <<r.items[r.head]>> ELSE Nothing

(* Oldest first. *)
InOrder(r) == [i \in 1 .. r.count |-> r.items[(r.head + i - 1) % size]]

Push(v) ==
    /\ kind = "ring"
    /\ ring' = Pushed(ring, v)
    /\ returned' = Evicted(ring)
    /\ UNCHANGED <<kind, size, index, cache, data>>

Pop ==
    /\ kind = "ring"
    /\ IF ring.count = 0
       THEN returned' = Nothing /\ UNCHANGED ring
       ELSE returned' = <<ring.items[ring.head]>> /\ ring' = DropHead(ring)
    /\ UNCHANGED <<kind, size, index, cache, data>>

(* Map pushes the images into a new ring, which takes the old one's place. *)
Map ==
    /\ kind = "ring"
    /\ ring' = FoldLeft(LAMBDA out, v : Pushed(out, Image[v]),
                        [items |-> [i \in Slots |-> Zero], head |-> 0, count |-> 0],
                        InOrder(ring))
    /\ UNCHANGED <<kind, size, index, cache, data, returned>>

(* RecentKeys: map and ring in lockstep. *)
Seen(k) ==
    /\ kind = "recent"
    /\ returned' = IF k \in index THEN <<k>> ELSE Nothing
    /\ IF k \in index
       THEN UNCHANGED <<ring, index>>
       ELSE /\ ring' = Pushed(ring, k)
            /\ index' = (index \ Range(Evicted(ring))) \cup {k}
    /\ UNCHANGED <<kind, size, cache, data>>

-----------------------------------------------------------------------------
ToFront(k) == <<k>> \o RemoveFirst(ll, k)
Without(k) == [j \in DOMAIN item \ {k} |-> item[j]]
Counted == metrics.hits + metrics.misses + metrics.evictions < MaxCounted

Get(k) ==
    /\ kind = "lru" /\ Counted
    /\ IF k \in DOMAIN item
       THEN /\ ll' = ToFront(k)
            /\ returned' = <<<<k, item[k]>>>>
            /\ metrics' = [metrics EXCEPT !.hits = @ + 1]
       ELSE /\ returned' = Nothing
            /\ metrics' = [metrics EXCEPT !.misses = @ + 1]
            /\ UNCHANGED ll
    /\ UNCHANGED <<kind, size, ring, index, item, data>>

(* Put of a key that is there: promoted, the value replaced in place. *)
Replace(k, v) ==
    /\ kind = "lru"
    /\ k \in DOMAIN item
    /\ ll' = ToFront(k)
    /\ item' = [item EXCEPT ![k] = v]
    /\ returned' = Nothing
    /\ UNCHANGED <<kind, size, ring, index, metrics, data>>

(* Put of a new key; the element at the back goes if that is one too many. *)
Put(k, v) ==
    LET oldest == Last(ll)
        longer == [j \in DOMAIN item \cup {k} |-> IF j = k THEN v ELSE item[j]]
    IN /\ kind = "lru" /\ Counted
       /\ k \notin DOMAIN item
       /\ IF Len(ll) + 1 > size
          THEN /\ ll' = <<k>> \o Front(ll)
               /\ item' = [j \in DOMAIN longer \ {oldest} |-> longer[j]]
               /\ metrics' = [metrics EXCEPT !.evictions = @ + 1]
               /\ returned' = <<<<oldest, item[oldest]>>>>
          ELSE /\ ll' = <<k>> \o ll
               /\ item' = longer
               /\ returned' = Nothing
               /\ UNCHANGED metrics
       /\ UNCHANGED <<kind, size, ring, index, data>>

(* LRU.Remove; its answer, whether the key was there, is the pair or none. *)
Delete(k) ==
    /\ kind = "lru"
    /\ returned' = IF k \in DOMAIN item THEN <<<<k, item[k]>>>> ELSE Nothing
    /\ ll' = RemoveFirst(ll, k)
    /\ item' = Without(k)
    /\ UNCHANGED <<kind, size, ring, index, metrics, data>>

-----------------------------------------------------------------------------
Less(a, b) == Priority[a] < Priority[b]

(* The slice is numbered from 1 here, the code's i is this i - 1. *)
Parent(i) == i \div 2
Swap(d, i, j) == [d EXCEPT ![i] = d[j], ![j] = d[i]]

(* A round of siftUp's loop, for the element at s.at.  The round in which   *)
(* the code leaves the loop changes nothing, nor would further ones: there *)
(* are never more rounds than elements.                                    *)
Up(s) ==
    IF s.at = 1 \/ ~Less(s.tree[s.at], s.tree[Parent(s.at)]) THEN s
    ELSE [tree |-> Swap(s.tree, s.at, Parent(s.at)), at |-> Parent(s.at)]

SiftUp(d, i) == FoldLeft(LAMBDA s, round : Up(s), [tree |-> d, at |-> i], d).tree

(* Mutation: the right child is compared with the node, not with the       *)
(* smaller of node and left child.                                         *)
LargerOfTwo(d, i) ==
    LET left == IF 2 * i <= Len(d) /\ Less(d[2 * i], d[i]) THEN 2 * i ELSE i
    IN IF 2 * i + 1 <= Len(d) /\ Less(d[2 * i + 1], d[i]) THEN 2 * i + 1 ELSE left

(* The first of node and children that none of the others comes before. *)
Smallest(d, i) ==
    LET left == IF 2 * i <= Len(d) /\ Less(d[2 * i], d[i]) THEN 2 * i ELSE i
    IN IF 2 * i + 1 <= Len(d) /\ Less(d[2 * i + 1], d[left]) THEN 2 * i + 1 ELSE left

(* A round of siftDown's loop, likewise. *)
Down(s) ==
    [tree |-> Swap(s.tree, s.at, Smallest(s.tree, s.at)), at |-> Smallest(s.tree, s.at)]

SiftDown(d, i) == FoldLeft(LAMBDA s, round : Down(s), [tree |-> d, at |-> i], d).tree

Insert(v) ==
    /\ kind = "heap" /\ Len(data) < MaxHeap
    /\ data' = SiftUp(Append(data, v), Len(data) + 1)
    /\ UNCHANGED <<kind, size, ring, index, cache, returned>>

(* The last element takes the root's place and sinks. *)
TakeOut ==
    /\ kind = "heap"
    /\ IF data = <<>>
       THEN returned' = Nothing /\ UNCHANGED data
       ELSE /\ returned' = <<Head(data)>>
            /\ data' = IF Len(data) = 1 THEN <<>>
                       ELSE SiftDown([Front(data) EXCEPT ![1] = Last(data)], 1)
    /\ UNCHANGED <<kind, size, ring, index, cache>>

Next ==
    \/ \E v \in Values : Push(v) \/ Insert(v)
    \/ \E k \in Keys, v \in Values : Replace(k, v) \/ Put(k, v)
    \/ \E k \in Keys : Seen(k) \/ Get(k) \/ Delete(k)
    \/ Pop \/ Map \/ TakeOut

Spec == Init /\ [][Next]_vars

-----------------------------------------------------------------------------
(* The representations are sound: slots outside a ring's live part are     *)
(* zero (a popped element is released), RecentKeys' map mirrors the live   *)
(* ring, the cache's map its list, which has no key twice; the heap passes *)
(* checkInvariant.                                                         *)
TypeOK ==
    /\ ring.head \in Slots /\ ring.count \in 0 .. size
    /\ DOMAIN ring.items = Slots
    /\ Cardinality({i \in Slots : ring.items[i] # Zero}) = ring.count
    /\ kind = "recent" => index = Range(InOrder(ring))
    /\ DOMAIN item = Range(ll) /\ IsInjective(ll) /\ Len(ll) <= size
    /\ \A i \in 2 .. Len(data) : ~Less(data[i], data[Parent(i)])

(* What a caller sees of the representation. *)
C == INSTANCE Collections WITH
        fifo <- IF kind = "ring" THEN InOrder(ring) ELSE <<>>,
        window <- IF kind = "recent" THEN InOrder(ring) ELSE <<>>,
        recency <- [i \in DOMAIN ll |-> <<ll[i], item[ll[i]]>>],
        bag <- [v \in Range(data) |-> Cardinality({i \in DOMAIN data : data[i] = v})]

(* Every call does and returns what the containers promise: a ring is a    *)
(* FIFO that drops its oldest element and says which, also across the seam *)
(* of its array (ring.go lines 28-29); RecentKeys reports the keys of the  *)
(* last Size pushes and no others (lines 91-95), of which the map knows    *)
(* only if each eviction cleans it; the cache evicts the least recently    *)
(* used pair; a heap gives out an element that no other comes before.      *)
ImplementsCollections == C!Spec
=============================================================================
