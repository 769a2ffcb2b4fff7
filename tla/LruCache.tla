------------------------------ MODULE LruCache ------------------------------
(* cppBase/utility/lrucache.h: a list of nodes, the most recently used one   *)
(* in front, and a map from keys to list iterators.  An iterator is the      *)
(* address of a node; push_front takes the lowest address that is free, so   *)
(* that addresses are used again.  The cache has no lock: an operation is    *)
(* one action.                                                               *)
EXTENDS Integers, Sequences, FiniteSets, SequencesExt

CONSTANTS
    Keys,
    Values,
    Capacity,   \* _capacity
    NoNode      \* what the map holds for a key it does not contain

ASSUME CapacityAssumption == Capacity \in Nat
ASSUME NodeAssumption == NoNode \notin Nat
ASSUME KeysAssumption == IsFiniteSet(Keys) /\ Keys # {} /\ Values # {}

VARIABLES
    list,       \* _list: the addresses of its nodes
    node,       \* node[a]: the key and value at address a
    map,        \* _map[k]: the address of k's node, or NoNode
    used,       \* history: the keys by their last use, the latest first
    written     \* history: the last value put for a key

vars == <<list, node, map, used, written>>

Addresses == 1 .. Cardinality(Keys) + 1
Node == [key : Keys, value : Values]

Mapped == {k \in Keys : map[k] # NoNode}

\* An address that is in no list node.
Free == CHOOSE a \in Addresses : a \notin Range(list) /\ \A b \in 1 .. a - 1 : b \in Range(list)

\* Key k is used now.
Touched(k) == <<k>> \o RemoveFirst(used, k)

Init ==
    /\ list = <<>>
    /\ node = [a \in Addresses |-> CHOOSE n \in Node : TRUE]
    /\ map = [k \in Keys |-> NoNode]
    /\ used = <<>>
    /\ written = [k \in Keys |-> CHOOSE v \in Values : TRUE]

-----------------------------------------------------------------------------
\* _map.size() > _capacity
Full(m) == Cardinality({k \in Keys : m[k] # NoNode}) > Capacity

\* Leaving the old node of the key in the list.
DroppedNot(l, a) == l

\* _list.erase of the node at address a.
Dropped(l, a) == RemoveFirst(l, a)

\* Using a key without moving it.
MovedNot(l, a) == l

\* _list.splice of the node at address a to the front.
Moved(l, a) == <<a>> \o RemoveFirst(l, a)

put(k, v) ==
    LET a == Free
        pushed == <<a>> \o (IF map[k] # NoNode THEN Dropped(list, map[k]) ELSE list)
        new == [map EXCEPT ![k] = a]
        kv == [node EXCEPT ![a] = [key |-> k, value |-> v]]
    IN  /\ node' = kv
        /\ IF Full(new)
           THEN /\ map' = [new EXCEPT ![kv[Last(pushed)].key] = NoNode]
                /\ list' = Front(pushed)
           ELSE map' = new /\ list' = pushed
        /\ used' = Touched(k)
        /\ written' = [written EXCEPT ![k] = v]

\* get and get_iter of a key that is there; without it nothing changes.
get(k) ==
    /\ map[k] # NoNode
    /\ list' = Moved(list, map[k])
    /\ used' = Touched(k)
    /\ UNCHANGED <<node, map, written>>

\* erase reads it->second after _map.erase(it).  The freed map node still
\* holds the iterator behind the words that the allocator of the build uses.
erase(k) ==
    /\ map[k] # NoNode
    /\ map' = [map EXCEPT ![k] = NoNode]
    /\ list' = Dropped(list, map[k])
    /\ used' = RemoveFirst(used, k)
    /\ UNCHANGED <<node, written>>

clear ==
    /\ map' = [k \in Keys |-> NoNode]
    /\ list' = <<>>
    /\ used' = <<>>
    /\ UNCHANGED <<node, written>>

Next ==
    \/ \E k \in Keys, v \in Values : put(k, v)
    \/ \E k \in Keys : get(k) \/ erase(k)
    \/ clear

Spec == Init /\ [][Next]_vars

-----------------------------------------------------------------------------
\* Every iterator in the map points to the live node of its key and every node
\* of the list is in the map, once: no put, get, erase or eviction leaves an
\* iterator to a node that is gone, although addresses are used again, and a
\* key that is found has the value last put for it.
IteratorsValid ==
    /\ Cardinality(Range(list)) = Len(list)
    /\ {node[a].key : a \in Range(list)} = Mapped
    /\ \A k \in Mapped : map[k] \in Range(list) /\ node[map[k]] = [key |-> k, value |-> written[k]]

\* The keys that are kept are the most recently used ones, in that order and
\* never more than the capacity: only the least recently used one is evicted.
MostRecentKept ==
    /\ Len(list) <= Capacity
    /\ [i \in 1 .. Len(list) |-> node[list[i]].key] = SubSeq(used, 1, Len(list))
=============================================================================
