------------------------------ MODULE BucketTree ------------------------------
(***************************************************************************)
(* formats::BucketTree: the sorted table of a patched section, cut into    *)
(* nodes of a fixed size, and the Locator that walks over its entries.     *)
(*                                                                         *)
(* A tree is a record of what is in memory.  root is the first offset      *)
(* node: its slots, how many of them its header counts, and the end of the *)
(* last entry.  level2[j] is the j-th offset node behind the root, nodes[k]*)
(* the k-th entry node; both have a count and what they hold from 0 on.    *)
(* An entry begins at address `at`.  nodeCount is mEntryNodeCount.  A read *)
(* fails behind the last node, and a node that could not be loaded is all  *)
(* zeros, its count included.                                              *)
(***************************************************************************)
EXTENDS Integers, FiniteSets

CONSTANTS
  OffsetsPerNode,       \* mOffsetsPerNode (2046 in the source)
  EntriesPerNode        \* mEntriesPerNode (1023 or 818)

ASSUME TreeAssumption ==
  OffsetsPerNode \in Nat \ {0} /\ EntriesPerNode \in Nat \ {0}

CeilDiv(a, b) == (a + b - 1) \div b

EntryNodeCount(entryCount) == CeilDiv(entryCount, EntriesPerNode)

\* One node when the offsets of all entry nodes fit into the root; otherwise
\* the root gives up a slot for each further node and keeps offsets in the rest.
OffsetNodeCount(entryCount) ==
  LET entryNodes == EntryNodeCount(entryCount)
      required == CeilDiv(entryNodes, OffsetsPerNode)
      notInFirst == entryNodes - (OffsetsPerNode - (required - 1))
  IN IF OffsetsPerNode >= entryNodes THEN 1 ELSE 1 + CeilDiv(notInFirst, OffsetsPerNode)

\* How an image lays out the table of `n` entries, entry[0 .. n - 1]: what the
\* comment at the end of bktr.hpp says, and what findEntry takes for granted.
Layout(entry, n, end) ==
  LET nodeCount == EntryNodeCount(n)
      level2Count == OffsetNodeCount(n) - 1
      inline == IF level2Count = 0 THEN 0 ELSE OffsetsPerNode - level2Count
      First(k) == entry[k * EntriesPerNode].at
      Fill(rest, max) == IF rest < max THEN rest ELSE max
      Slot(i) == IF i < level2Count THEN First(inline + i * OffsetsPerNode)
                 ELSE IF i - level2Count < nodeCount THEN First(i - level2Count)
                 ELSE 0
  IN [root |-> [slots |-> [i \in 0 .. OffsetsPerNode - 1 |-> Slot(i)],
                count |-> IF level2Count = 0 THEN nodeCount ELSE level2Count,
                end |-> end],
      level2 |-> [j \in 0 .. level2Count - 1 |->
                    LET from == inline + j * OffsetsPerNode
                        count == Fill(nodeCount - from, OffsetsPerNode)
                    IN [count |-> count, at |-> [i \in 0 .. count - 1 |-> First(from + i)]]],
      nodes |-> [k \in 0 .. nodeCount - 1 |->
                   LET from == k * EntriesPerNode
                       count == Fill(n - from, EntriesPerNode)
                   IN [count |-> count, entry |-> [i \in 0 .. count - 1 |-> entry[from + i]]]],
      nodeCount |-> nodeCount]

IsInitialized(t) == t.nodeCount > 0

Contains(t, address) == t.root.slots[0] <= address /\ address < t.root.end

\* More entry nodes than the root has room for; offsets of some are in the root
\* all the same, behind those of the further nodes.
HasLevel2(t) == OffsetsPerNode < t.nodeCount
HasInlineLevel2(t) == HasLevel2(t) /\ t.root.count < OffsetsPerNode

-----------------------------------------------------------------------------
\* A mutant: an entry that begins at the address is taken for a later one.
NotAfterStrict(at, from, to, address) ==
  Cardinality({i \in from .. to - 1 : at[i] < address})

\* How many of the sorted at[from .. to - 1] are not greater than the address:
\* the distance from the first to what std::upper_bound returns.
NotAfter(at, from, to, address) ==
  Cardinality({i \in from .. to - 1 : at[i] <= address})

\* A mutant: `<` in the loop.
BisectStrict(at, count, address) ==
  LET search[len \in 0 .. count] ==
        [pos \in 0 .. count - len |->
           LET half == len \div 2
           IN IF len = 0 THEN pos
              ELSE IF at[pos + half] < address THEN search[len - (half + 1)][pos + half + 1]
              ELSE search[half][pos]]
  IN search[count][0] - 1

\* FindEntry's own loop.
Bisect(at, count, address) ==
  LET search[len \in 0 .. count] ==
        [pos \in 0 .. count - len |->
           LET half == len \div 2
           IN IF len = 0 THEN pos
              ELSE IF at[pos + half] <= address THEN search[len - (half + 1)][pos + half + 1]
              ELSE search[half][pos]]
  IN search[count][0] - 1

\* FindEntry: the index of the last offset of a node that is not greater than
\* the address, -1 if there is none.  It is what the loop above comes to.
FindInNode(at, count, address) == NotAfter(at, 0, count, address) - 1

\* The entry node for an address, as findEntry finds it in the offset nodes; -1
\* if there is none.
FindNode(t, address) ==
  LET inline == HasInlineLevel2(t) /\ address < t.root.slots[0]
      from == IF inline THEN t.root.count ELSE 0
      to == IF inline THEN OffsetsPerNode ELSE t.root.count
      index == NotAfter(t.root.slots, from, to, address) - 1
      node == t.level2[index]
  IN IF index = -1 \/ inline \/ ~ HasLevel2(t) THEN index
     ELSE FindInNode(node.at, node.count, address)

Begins(t, k) == [i \in 0 .. t.nodes[k].count - 1 |-> t.nodes[k].entry[i].at]

Nowhere == [node |-> -1, index |-> -1, count |-> 0]

\* findEntry, and the constructor of the Locator that it returns.
Find(t, address) ==
  LET k == FindNode(t, address)
      i == FindInNode(Begins(t, k), t.nodes[k].count, address)
  IN IF ~ IsInitialized(t) \/ address >= t.root.end THEN Nowhere
     ELSE IF k < 0 \/ k >= t.nodeCount THEN Nowhere
     ELSE IF i < 0 THEN Nowhere
     ELSE [node |-> k, index |-> i, count |-> t.nodes[k].count]

\* What every table has, wherever its nodes came from: the entries are sorted
\* along the nodes, and each offset of the root leads to a further node if there
\* are two levels.
WellFormed(t) ==
  /\ t.nodeCount \in Nat /\ t.root.count \in Nat
  /\ t.root.end \in Nat
  /\ HasLevel2(t) => \A j \in 0 .. t.root.count - 1 : t.level2[j].count \in Nat
  /\ \A k \in 0 .. t.nodeCount - 1 :
       /\ t.nodes[k].count \in Nat
       /\ \A i \in 0 .. t.nodes[k].count - 1 : t.nodes[k].entry[i].at \in Nat
  /\ \A k, l \in 0 .. t.nodeCount - 1 :
       \A i \in 0 .. t.nodes[k].count - 1, j \in 0 .. t.nodes[l].count - 1 :
         k < l \/ (k = l /\ i < j) => t.nodes[k].entry[i].at < t.nodes[l].entry[j].at

-----------------------------------------------------------------------------
HasValue(loc) == loc.node >= 0 /\ loc.index >= 0

EntryAt(t, loc) == t.nodes[loc.node].entry[loc.index]

HasNext(t, loc) ==
  HasValue(loc) /\ (loc.index + 1 < loc.count \/ loc.node + 1 < t.nodeCount)

\* Locator::next, for a locator that has a next entry; Nowhere if it fails.
NextLocator(t, loc) ==
  IF loc.index + 1 < loc.count THEN [loc EXCEPT !.index = @ + 1]
  ELSE IF t.nodes[loc.node + 1].count = 0 THEN Nowhere
  ELSE [node |-> loc.node + 1, index |-> 0, count |-> t.nodes[loc.node + 1].count]
=============================================================================
