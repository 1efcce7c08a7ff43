--------------------------- MODULE MCPatchedSection ---------------------------
(* Nodes of two offsets or two entries: up to four entries fit under the      *)
(* root, five and six need a second level next to offsets in the root, seven  *)
(* and eight fill the root with further nodes.                                *)
EXTENDS PatchedSection, TLC

CONSTANTS g1, g2

\* Where the n entries begin, from `start` on: a new one after 2, 4, 2, ... bytes.
Starts(start, n) == [i \in 0 .. n |-> start + 2 * i + 2 * ((i + 1) \div 2) - (IF i = 0 THEN 0 ELSE 2)]

Generations == <<g1, g2, NotEncrypted, g1>>

ExTree(start, n) ==
  Layout([i \in 0 .. n - 1 |-> [at |-> Starts(start, n)[i], generation |-> Generations[(i % 4) + 1]]],
         n, Starts(start, n)[n])

Ex(t, size, missing) ==
  [kind |-> "aesCtrEx", tree |-> t, storageSize |-> (0 :> size) @@ (1 :> 0), missing |-> missing, padded |-> {}]

\* A table whose last node could not be loaded.
LastNodeLost(t) ==
  [t EXCEPT !.nodes[t.nodeCount - 1] = [count |-> 0, entry |-> <<>>]]

EmptyTree ==
  [root |-> [slots |-> [i \in 0 .. OffsetsPerNode - 1 |-> 0], count |-> 0, end |-> 0],
   level2 |-> <<>>, nodes |-> <<>>, nodeCount |-> 0]

\* The storages take turns; storage 0 is read backwards.
IndirectTree(begins, n) ==
  Layout([i \in 0 .. n - 1 |->
            [at |-> begins[i], storage |-> i % 2,
             physical |-> IF i % 2 = 0 THEN begins[n] - begins[i + 1] ELSE begins[i]]],
         n, begins[n])

Indirect(t, sizes, missing, padded) ==
  [kind |-> "indirect", tree |-> t, storageSize |-> sizes, missing |-> missing, padded |-> padded]

Odd == [i \in 0 .. 4 |-> <<0, 1, 3, 4, 7>>[i + 1]]

MCImages ==
  {Ex(ExTree(start, n), 40, {}) : start \in {0, 2}, n \in 1 .. 8}
  \cup {Ex(ExTree(0, 4), 7, {}), Ex(ExTree(0, 4), 40, {<<0, 5>>}), Ex(EmptyTree, 40, {}),
        Ex(LastNodeLost(ExTree(0, 4)), 40, {})}
  \cup {Indirect(IndirectTree(Odd, n), (0 :> 7) @@ (1 :> size), missing, padded) :
          n \in 1 .. 4, size \in {4, 7}, missing \in {{}, {<<1, 2>>}}, padded \in {{}, {0, 1}}}
=============================================================================
