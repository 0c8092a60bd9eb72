---------------------------- MODULE Collections ----------------------------
(***************************************************************************)
(* What the containers of 03-data-structures/examples promise their        *)
(* callers, without arrays, indices, lists or maps.                        *)
(***************************************************************************)
EXTENDS Integers, SequencesExt, Bags

CONSTANTS
    Values,        \* what rings and heaps hold, and the values of the cache
    Keys,          \* keys of RecentKeys and of the cache
    Image,         \* the function handed to Map
    Priority       \* less(a, b) is Priority[a] < Priority[b]

VARIABLES
    kind,       \* which container this is
    size,       \* its capacity, at least 1; a heap has none
    fifo,       \* a ring: its elements, oldest first
    window,     \* RecentKeys: the last size keys pushed, oldest first
    recency,    \* LRU: pairs, most recently used first
    bag,        \* a heap: its elements
    metrics,    \* LRU: what Metrics returns
    returned      \* what the last call returned or handed to OnEvict

held == <<fifo, window, recency, bag>>
vars == <<kind, size, held, metrics, returned>>

Nothing == <<>>

Init ==
    /\ kind \in {"ring", "recent", "lru", "heap"}
    /\ size \in Nat \ {0}
    /\ fifo = <<>> /\ window = <<>> /\ recency = <<>> /\ bag = EmptyBag
    /\ metrics = [hits |-> 0, misses |-> 0, evictions |-> 0]
    /\ returned = Nothing

(* Drop-oldest. *)
Newest(s) == IF Len(s) > size THEN Tail(s) ELSE s

Push(v) ==
    /\ kind = "ring"
    /\ fifo' = Newest(Append(fifo, v))
    /\ returned' = IF Len(fifo) = size THEN <<Head(fifo)>> ELSE Nothing
    /\ UNCHANGED <<kind, size, window, recency, bag, metrics>>

Pop ==
    /\ kind = "ring"
    /\ fifo' = IF fifo = <<>> THEN <<>> ELSE Tail(fifo)
    /\ returned' = IF fifo = <<>> THEN Nothing ELSE <<Head(fifo)>>
    /\ UNCHANGED <<kind, size, window, recency, bag, metrics>>

Map ==
    /\ kind = "ring"
    /\ fifo' = [i \in DOMAIN fifo |-> Image[fifo[i]]]
    /\ UNCHANGED <<kind, size, window, recency, bag, metrics, returned>>

(* "Seen reports whether k was PUSHED within the last Size pushes.  Hits   *)
(* do not refresh the window." *)
Seen(k) ==
    /\ kind = "recent"
    /\ returned' = IF k \in Range(window) THEN <<k>> ELSE Nothing
    /\ window' = IF k \in Range(window) THEN window ELSE Newest(Append(window, k))
    /\ UNCHANGED <<kind, size, fifo, recency, bag, metrics>>

(* The pair with key k, if there is one, and the other pairs. *)
Position(k) == SelectInSeq(recency, LAMBDA p : p[1] = k)
Cached(k) == IF Position(k) = 0 THEN Nothing ELSE <<recency[Position(k)]>>
Others(k) == IF Position(k) = 0 THEN recency ELSE RemoveAt(recency, Position(k))

(* A hit makes the pair the most recent one. *)
Get(k) ==
    /\ kind = "lru"
    /\ recency' = Cached(k) \o Others(k)
    /\ returned' = Cached(k)
    /\ metrics' = IF Cached(k) = <<>> THEN [metrics EXCEPT !.misses = @ + 1]
                                      ELSE [metrics EXCEPT !.hits = @ + 1]
    /\ UNCHANGED <<kind, size, fifo, window, bag>>

(* The least recently used pair goes when there is no room. *)
Put(k, v) ==
    LET full == Others(k) = recency /\ Len(recency) = size
    IN /\ kind = "lru"
       /\ recency' = <<<<k, v>>>> \o (IF full THEN Front(recency) ELSE Others(k))
       /\ returned' = IF full THEN <<Last(recency)>> ELSE Nothing
       /\ metrics' = IF full THEN [metrics EXCEPT !.evictions = @ + 1] ELSE metrics
       /\ UNCHANGED <<kind, size, fifo, window, bag>>

Delete(k) ==
    /\ kind = "lru"
    /\ recency' = Others(k)
    /\ returned' = Cached(k)
    /\ UNCHANGED <<kind, size, fifo, window, bag, metrics>>

Insert(v) ==
    /\ kind = "heap"
    /\ bag' = bag (+) SetToBag({v})
    /\ UNCHANGED <<kind, size, fifo, window, recency, metrics, returned>>

(* Nothing left comes before what is taken out. *)
TakeOut ==
    /\ kind = "heap"
    /\ \/ /\ bag = EmptyBag
          /\ returned' = Nothing
          /\ UNCHANGED bag
       \/ \E v \in BagToSet(bag) :
            /\ \A u \in BagToSet(bag) : Priority[v] <= Priority[u]
            /\ bag' = bag (-) SetToBag({v})
            /\ returned' = <<v>>
    /\ UNCHANGED <<kind, size, fifo, window, recency, metrics>>

Next ==
    \/ \E v \in Values : Push(v) \/ Insert(v) \/ \E k \in Keys : Put(k, v)
    \/ \E k \in Keys : Seen(k) \/ Get(k) \/ Delete(k)
    \/ Pop \/ Map \/ TakeOut

Spec == Init /\ [][Next]_vars
=============================================================================
