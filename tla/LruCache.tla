------------------------------- MODULE LruCache -------------------------------
(***************************************************************************)
(* common::Cache and common::CacheSet: a std::list of nodes, most recently *)
(* used first, and a map from keys to list iterators.  Nodes are recycled, *)
(* never freed, so an iterator never dangles, but the node it leads to may *)
(* be given another key under it.  A node is named by the order in which   *)
(* getLru created it.  Every operation holds mMutex from end to end and is *)
(* one action; what is not atomic is the caller's get-then-add.            *)
(***************************************************************************)
EXTENDS Integers, Sequences

CONSTANTS
  Keys,         \* the keys in use, DefaultKey among them
  Values,
  CacheSize,    \* the template parameter
  DefaultKey,   \* the key of a node that emplace_back() just made: "" or 0
  DefaultValue, \* its value
  NoNode        \* map[k] when the map has no entry for k

Nodes == 1 .. CacheSize

ASSUME CacheAssumption ==
  /\ CacheSize \in Nat \ {0}
  /\ DefaultKey \in Keys
  /\ DefaultValue \in Values
  /\ NoNode \notin Nodes

VARIABLES
  order,        \* mCache: the nodes from the most to the least recently used
  key,          \* key[n], value[n]: the fields of node n
  value,
  map           \* mCacheMap

cacheVars == <<order, key, value, map>>

CacheInit ==
  /\ order = <<>>
  /\ key = [n \in Nodes |-> DefaultKey]
  /\ value = [n \in Nodes |-> DefaultValue]
  /\ map = [k \in Keys |-> NoNode]

\* setMru's splice: n goes to the front, the others keep their order.
MoveToFront(s, n) ==
  [i \in DOMAIN s |->
     IF i = 1 THEN n
     ELSE IF \E j \in 1 .. i - 1 : s[j] = n THEN s[i]
     ELSE s[i - 1]]

\* getLru: the list grows until it has CacheSize nodes; the last one is taken.
Grown == IF Len(order) < CacheSize THEN Append(order, Len(order) + 1) ELSE order

Lru == Grown[Len(Grown)]

Contains(k) == map[k] # NoNode

\* A mutant: the hit hands out the node at the head of the list before splicing.
ValueAtHead(k) == value[order[1]]

\* What get() copies out on a hit.
CachedValue(k) == value[map[k]]

\* get(): a hit makes the node the most recently used one.
Get(k) ==
  /\ order' = IF Contains(k) THEN MoveToFront(order, map[k]) ELSE order
  /\ UNCHANGED <<key, value, map>>

\* unordered_map::emplace leaves an entry that is already there alone.
Emplaced(m, k, n) == IF m[k] = NoNode THEN [m EXCEPT ![k] = n] ELSE m

\* A mutant: the recycled node's old key stays in the map.
AddKeepsOldKey(k, v) ==
  /\ key' = [key EXCEPT ![Lru] = k]
  /\ value' = [value EXCEPT ![Lru] = v]
  /\ order' = MoveToFront(Grown, Lru)
  /\ map' = Emplaced(map, k, Lru)

\* A mutant: what is erased is the node's new key instead of its old one.
AddErasesNewKey(k, v) ==
  /\ key' = [key EXCEPT ![Lru] = k]
  /\ value' = [value EXCEPT ![Lru] = v]
  /\ order' = MoveToFront(Grown, Lru)
  /\ map' = Emplaced([map EXCEPT ![k] = NoNode], k, Lru)

\* A mutant: emplace comes before erase, as it may for a key that is new.
AddErasesLast(k, v) ==
  /\ key' = [key EXCEPT ![Lru] = k]
  /\ value' = [value EXCEPT ![Lru] = v]
  /\ order' = MoveToFront(Grown, Lru)
  /\ map' = [Emplaced(map, k, Lru) EXCEPT ![key[Lru]] = NoNode]

\* A mutant: getLru compares with <= and the list grows past CacheSize.
AddGrowsPastSize(k, v) ==
  LET grown == IF Len(order) <= CacheSize THEN Append(order, Len(order) + 1) ELSE order
      lru == grown[Len(grown)]
  IN /\ key' = [n \in DOMAIN key \cup {lru} |-> IF n = lru THEN k ELSE key[n]]
     /\ value' = [n \in DOMAIN value \cup {lru} |-> IF n = lru THEN v ELSE value[n]]
     /\ order' = MoveToFront(grown, lru)
     /\ map' = Emplaced([map EXCEPT ![key'[lru]] = NoNode], k, lru)

\* add(): the least recently used node loses its key and is reused.
Add(k, v) ==
  /\ key' = [key EXCEPT ![Lru] = k]
  /\ value' = [value EXCEPT ![Lru] = v]
  /\ order' = MoveToFront(Grown, Lru)
  /\ map' = Emplaced([map EXCEPT ![key[Lru]] = NoNode], k, Lru)

-----------------------------------------------------------------------------
\* Each of the nodes 1 .. m is in the list s once.
Permutation(s, m) ==
  /\ s \in [1 .. m -> 1 .. m]
  /\ \A n \in 1 .. m :
       \E i \in 1 .. m : s[i] = n /\ \A j \in 1 .. m : s[j] = n => j = i

CacheTypeOK ==
  /\ \E size \in 0 .. CacheSize : Permutation(order, size)
  /\ key \in [Nodes -> Keys]
  /\ value \in [Nodes -> Values]
  /\ map \in [Keys -> Nodes \cup {NoNode}]

\* The map leads a key to a node in the list that bears this very key, also
\* after the node was recycled and after two threads added the same key.
MapNodesAgree ==
  \A k \in Keys : Contains(k) => map[k] \in 1 .. Len(order) /\ key[map[k]] = k
=============================================================================
