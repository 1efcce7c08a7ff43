--------------------------- MODULE LruCacheProofs ---------------------------
(***************************************************************************)
(* What get() and add() preserve, for any cache size, keys and values:     *)
(* the list stays a permutation of its nodes, the map and the nodes agree, *)
(* and an add changes only what the map says of the old key of the node it *)
(* recycles and of the new one.                                            *)
(***************************************************************************)
EXTENDS LruCache, SequenceTheorems, TLAPS

CacheInv == CacheTypeOK /\ MapNodesAgree

LEMMA PermutationIsSeq ==
  ASSUME NEW m \in Nat, NEW s, Permutation(s, m)
  PROVE  s \in Seq(1 .. m) /\ Len(s) = m /\ DOMAIN s = 1 .. m
  BY DEF Permutation

\* The splice of setMru keeps every node in the list exactly once.
LEMMA MoveToFrontPermutes ==
  ASSUME NEW m \in Nat, NEW s, Permutation(s, m), NEW n \in 1 .. m
  PROVE  Permutation(MoveToFront(s, n), m)
  <1> DEFINE moved == MoveToFront(s, n)
  <1>1. PICK p \in 1 .. m : s[p] = n /\ \A j \in 1 .. m : s[j] = n => j = p
    BY DEF Permutation
  <1>2. \A i \in 1 .. m : s[i] \in 1 .. m
    BY DEF Permutation
  <1>3. moved = [i \in 1 .. m |->
                   IF i = 1 THEN n
                   ELSE IF \E j \in 1 .. i - 1 : s[j] = n THEN s[i] ELSE s[i - 1]]
    BY PermutationIsSeq DEF MoveToFront
  <1>4. \A i \in 1 .. m : (\E j \in 1 .. i - 1 : s[j] = n) <=> p < i
    BY <1>1
  <1>5. \A i \in 1 .. m : moved[i] = IF i = 1 THEN n ELSE IF p < i THEN s[i] ELSE s[i - 1]
    BY <1>3, <1>4
  <1>6. moved \in [1 .. m -> 1 .. m]
    <2>1. \A i \in 1 .. m : moved[i] \in 1 .. m
      BY <1>2, <1>5
    <2>2. QED
      BY <1>3, <2>1
  <1>7. ASSUME NEW a \in 1 .. m
        PROVE  \E i \in 1 .. m : moved[i] = a /\ \A j \in 1 .. m : moved[j] = a => j = i
    <2>1. PICK q \in 1 .. m : s[q] = a /\ \A j \in 1 .. m : s[j] = a => j = q
      BY DEF Permutation
    <2>2. CASE q = p
      BY <1>1, <1>5, <2>1, <2>2
    <2>3. CASE q < p
      <3>1. q + 1 \in 1 .. m /\ moved[q + 1] = a
        BY <1>5, <2>1, <2>3
      <3>2. \A j \in 1 .. m : moved[j] = a => j = q + 1
        BY <1>1, <1>5, <2>1, <2>3
      <3>3. QED
        BY <3>1, <3>2
    <2>4. CASE p < q
      <3>1. moved[q] = a
        BY <1>5, <2>1, <2>4
      <3>2. \A j \in 1 .. m : moved[j] = a => j = q
        BY <1>1, <1>5, <2>1, <2>4
      <3>3. QED
        BY <3>1, <3>2
    <2>5. QED
      BY <2>2, <2>3, <2>4
  <1>8. QED
    BY <1>6, <1>7 DEF Permutation

\* getLru returns a node of the list, which it may have made just now.
LEMMA GrownPermutes ==
  ASSUME CacheTypeOK
  PROVE  \E size \in 1 .. CacheSize :
           Permutation(Grown, size) /\ Len(Grown) = size /\ Lru \in 1 .. size /\ Len(order) <= size
  <1>1. PICK size \in 0 .. CacheSize : Permutation(order, size)
    BY DEF CacheTypeOK
  <1>2. order \in Seq(1 .. size) /\ Len(order) = size
    BY <1>1, PermutationIsSeq
  <1>3. CASE size < CacheSize
    <2>1. Grown = Append(order, size + 1)
      BY <1>2, <1>3 DEF Grown
    <2>2. /\ Len(Grown) = size + 1
          /\ Grown \in [1 .. size + 1 -> 1 .. size + 1]
          /\ Grown[size + 1] = size + 1
          /\ \A i \in 1 .. size : Grown[i] = order[i]
      <3>1. size + 1 \in 1 .. size + 1 /\ order \in Seq(1 .. size + 1)
        BY <1>2, SeqMonotonic
      <3>2. /\ Append(order, size + 1) \in Seq(1 .. size + 1)
            /\ Len(Append(order, size + 1)) = size + 1
            /\ \A i \in 1 .. size : Append(order, size + 1)[i] = order[i]
            /\ Append(order, size + 1)[size + 1] = size + 1
        BY <1>2, <3>1, AppendProperties
      <3>3. QED
        BY <2>1, <3>2, LenProperties
    <2>3. Permutation(Grown, size + 1)
      <3>1. ASSUME NEW n \in 1 .. size + 1
            PROVE  \E i \in 1 .. size + 1 :
                     Grown[i] = n /\ \A j \in 1 .. size + 1 : Grown[j] = n => j = i
        <4>1. CASE n = size + 1
          <5>1. \A i \in 1 .. size : Grown[i] \in 1 .. size
            BY <1>1, <2>2 DEF Permutation
          <5>2. \A j \in 1 .. size + 1 : Grown[j] = n => j = size + 1
            BY <4>1, <5>1
          <5>3. QED
            BY <2>2, <4>1, <5>2
        <4>2. CASE n \in 1 .. size
          <5>1. PICK i \in 1 .. size : order[i] = n /\ \A j \in 1 .. size : order[j] = n => j = i
            BY <1>1, <4>2 DEF Permutation
          <5>2. i \in 1 .. size + 1 /\ Grown[i] = n
            BY <2>2, <5>1
          <5>3. \A j \in 1 .. size + 1 : Grown[j] = n => j = i
            <6>1. SUFFICES ASSUME NEW j \in 1 .. size + 1, Grown[j] = n PROVE j = i
              OBVIOUS
            <6>2. j # size + 1
              BY <2>2, <4>2, <6>1
            <6>3. QED
              BY <2>2, <5>1, <6>1, <6>2
          <5>4. QED
            BY <5>2, <5>3
        <4>3. QED
          BY <4>1, <4>2
      <3>2. QED
        BY <2>2, <3>1 DEF Permutation
    <2>4. size + 1 \in 1 .. CacheSize /\ Lru \in 1 .. size + 1
      BY <1>3, <2>2, CacheAssumption DEF Lru
    <2>5. QED
      BY <1>2, <2>2, <2>3, <2>4
  <1>4. CASE size = CacheSize
    <2>1. Grown = order /\ size \in 1 .. CacheSize
      BY <1>2, <1>4, CacheAssumption DEF Grown
    <2>2. Lru \in 1 .. size
      BY <1>1, <1>2, <2>1 DEF Lru, Permutation
    <2>3. QED
      BY <1>1, <1>2, <2>1, <2>2
  <1>5. size < CacheSize \/ size = CacheSize
    BY CacheAssumption
  <1>6. QED
    BY <1>3, <1>4, <1>5

LEMMA CacheInitInv == CacheInit => CacheInv /\ \A k \in Keys : ~ Contains(k)
  <1>1. SUFFICES ASSUME CacheInit PROVE CacheInv /\ \A k \in Keys : ~ Contains(k)
    OBVIOUS
  <1>2. Permutation(order, 0)
    <2>1. order \in Seq(1 .. 0) /\ Len(order) = 0
      BY <1>1, EmptySeq DEF CacheInit
    <2>2. order \in [1 .. 0 -> 1 .. 0]
      BY <2>1, LenProperties
    <2>3. 1 .. 0 = {}
      OBVIOUS
    <2>4. QED
      BY <2>2, <2>3 DEF Permutation
  <1>3. \A k \in Keys : map[k] = NoNode
    BY <1>1 DEF CacheInit
  <1>4. CacheTypeOK
    <2>1. 0 \in 0 .. CacheSize
      BY CacheAssumption
    <2>2. QED
      BY <1>1, <1>2, <2>1, CacheAssumption DEF CacheInit, CacheTypeOK
  <1>5. QED
    BY <1>3, <1>4 DEF CacheInv, MapNodesAgree, Contains

\* get() preserves the cache's invariant.
LEMMA GetInv ==
  ASSUME CacheInv, NEW k \in Keys, Get(k)
  PROVE  CacheInv'
  <1>1. PICK size \in 0 .. CacheSize : Permutation(order, size)
    BY DEF CacheInv, CacheTypeOK
  <1>2. Len(order) = size
    BY <1>1, PermutationIsSeq
  <1>3. Permutation(order', size)
    <2>1. CASE Contains(k)
      <3>1. map[k] \in 1 .. size
        BY <1>2, <2>1 DEF CacheInv, MapNodesAgree
      <3>2. QED
        BY <1>1, <2>1, <3>1, MoveToFrontPermutes DEF Get
    <2>2. CASE ~ Contains(k)
      BY <1>1, <2>2 DEF Get
    <2>3. QED
      BY <2>1, <2>2
  <1>4. Len(order') = size
    BY <1>3, PermutationIsSeq
  <1>5. QED
    BY <1>2, <1>3, <1>4 DEF Get, CacheInv, CacheTypeOK, MapNodesAgree, Contains

\* add() says of the map: the new key is in it, and every key in it that was
\* in it before still leads to the same node, which is not the recycled one.
LEMMA AddMap ==
  ASSUME CacheInv, NEW k \in Keys, NEW v \in Values, Add(k, v)
  PROVE  /\ Lru \in Nodes
         /\ map' \in [Keys -> Nodes \cup {NoNode}]
         /\ map'[k] # NoNode
         /\ \A j \in Keys : map'[j] # NoNode =>
              \/ j = k /\ map'[j] = Lru
              \/ Contains(j) /\ map'[j] = map[j] /\ map[j] # Lru
  <1>1. Lru \in Nodes
    BY GrownPermutes, CacheAssumption DEF CacheInv, Nodes
  <1> DEFINE erased == [map EXCEPT ![key[Lru]] = NoNode]
  <1>2. key[Lru] \in Keys /\ Lru # NoNode
    BY <1>1, CacheAssumption DEF CacheInv, CacheTypeOK
  <1>3. erased \in [Keys -> Nodes \cup {NoNode}]
    BY <1>2 DEF CacheInv, CacheTypeOK
  <1>4. ASSUME NEW j \in Keys, erased[j] # NoNode
        PROVE  Contains(j) /\ erased[j] = map[j] /\ map[j] # Lru
    BY <1>2, <1>4 DEF CacheInv, CacheTypeOK, MapNodesAgree, Contains
  <1>5. map' = Emplaced(erased, k, Lru)
    BY DEF Add
  <1> HIDE DEF erased
  <1>6. QED
    BY <1>1, <1>2, <1>3, <1>4, <1>5 DEF Emplaced

\* add() preserves the cache's invariant.
LEMMA AddInv ==
  ASSUME CacheInv, NEW k \in Keys, NEW v \in Values, Add(k, v)
  PROVE  CacheInv'
  <1>1. PICK size \in 1 .. CacheSize :
           Permutation(Grown, size) /\ Lru \in 1 .. size /\ Len(order) <= size
    BY GrownPermutes DEF CacheInv
  <1>2. Permutation(order', size)
    BY <1>1, MoveToFrontPermutes DEF Add
  <1>3. Len(order') = size
    BY <1>2, PermutationIsSeq
  <1>4. CacheTypeOK'
    <2>1. Lru \in Nodes /\ map' \in [Keys -> Nodes \cup {NoNode}]
      BY AddMap
    <2>2. key' \in [Nodes -> Keys] /\ value' \in [Nodes -> Values]
      BY <2>1 DEF Add, CacheInv, CacheTypeOK
    <2>3. QED
      BY <1>2, <2>1, <2>2 DEF CacheTypeOK
  <1>5. MapNodesAgree'
    <2>1. SUFFICES ASSUME NEW j \in Keys, map'[j] # NoNode
                   PROVE  map'[j] \in 1 .. size /\ key'[map'[j]] = j
      BY <1>3 DEF MapNodesAgree, Contains
    <2>2. CASE j = k /\ map'[j] = Lru
      BY <1>1, <2>2, AddMap DEF Add, CacheInv, CacheTypeOK
    <2>3. CASE Contains(j) /\ map'[j] = map[j] /\ map[j] # Lru
      <3>1. map[j] \in 1 .. Len(order) /\ key[map[j]] = j
        BY <2>3 DEF CacheInv, MapNodesAgree
      <3>2. map[j] \in Nodes
        BY <2>3 DEF CacheInv, CacheTypeOK, Contains
      <3>3. Len(order) \in Nat
        BY PermutationIsSeq DEF CacheInv, CacheTypeOK
      <3>4. QED
        BY <1>1, <2>3, <3>1, <3>2, <3>3 DEF Add, CacheInv, CacheTypeOK
    <2>4. QED
      BY <2>1, <2>2, <2>3, AddMap
  <1>6. QED
    BY <1>4, <1>5 DEF CacheInv
=============================================================================
