------------------------- MODULE PatchedSectionProofs -------------------------
(***************************************************************************)
(* For every table that is sorted, every number of nodes and entries and   *)
(* every request: the walk of a patched section stays inside of the        *)
(* request and never delivers a byte that the table does not stand for,    *)
(* not even when findEntry starts it at the wrong entry.  And where the    *)
(* table fits into its root, findEntry's bisection finds the entry that    *)
(* covers an address, the locator stays with the cursor, and no read of    *)
(* bytes that are all there is refused.                                    *)
(***************************************************************************)
EXTENDS PatchedSection, FiniteSetTheorems, WellFoundedInduction, TLAPS

\* The locator stands at an entry of the table, or nowhere.
Located(t, l) ==
  \/ l = Nowhere
  \/ /\ l = [node |-> l.node, index |-> l.index, count |-> l.count]
     /\ l.node \in 0 .. t.nodeCount - 1
     /\ l.index \in 0 .. t.nodes[l.node].count - 1
     /\ l.count = t.nodes[l.node].count

\* What the walk keeps: the cursor is in the request, what was delivered ends at
\* the cursor, and the locator is one of the table's.
WalkInv ==
  /\ image \in Images
  /\ phase \in {"idle", "walking", "returned"}
  /\ request.offset \in 0 .. MaxOffset /\ request.size \in 0 .. MaxSize
  /\ phase = "walking" =>
       /\ cur \in request.offset .. End
       /\ DOMAIN out = 0 .. cur - request.offset - 1
       /\ Located(tree, loc)
  /\ phase = "returned" => out = Nothing \/ DOMAIN out = 0 .. request.size - 1
  /\ DeliversGenuine

\* How many offsets are not after an address is a number between none and all.
LEMMA NotAfterIsCount ==
  ASSUME NEW at, NEW from \in Int, NEW to \in Int, NEW address
  PROVE  NotAfter(at, from, to, address) \in Nat
         /\ (from <= to => NotAfter(at, from, to, address) <= to - from)
<1> DEFINE S == {i \in from .. to - 1 : at[i] <= address}
<1>1. IsFiniteSet(from .. to - 1)
  BY FS_Interval
<1>2. IsFiniteSet(S) /\ Cardinality(S) <= Cardinality(from .. to - 1)
  BY <1>1, FS_Subset, FS_CardinalityType
<1>3. Cardinality(S) \in Nat
  BY <1>2, FS_CardinalityType
<1>4. from <= to => Cardinality(from .. to - 1) = to - from
  <2>1. Cardinality(from .. to - 1) = IF from > to - 1 THEN 0 ELSE (to - 1) - from + 1
    BY FS_Interval
  <2> QED
    BY <2>1
<1> QED
  BY <1>2, <1>3, <1>4 DEF NotAfter

\* findEntry returns a locator that stands at an entry of the table, or none.
LEMMA FindIsLocated ==
  ASSUME NEW t, WellFormed(t), NEW address \in Nat
  PROVE  Located(t, Find(t, address))
<1> DEFINE k == FindNode(t, address)
           n == t.nodes[k].count
           i == FindInNode(Begins(t, k), n, address)
<1>1. CASE ~ IsInitialized(t) \/ address >= t.root.end
  BY <1>1 DEF Find, Located
<1>2. CASE IsInitialized(t) /\ ~ (address >= t.root.end)
  <2>1. k \in Int
    <3> DEFINE inline == HasInlineLevel2(t) /\ address < t.root.slots[0]
               from == IF inline THEN t.root.count ELSE 0
               to == IF inline THEN OffsetsPerNode ELSE t.root.count
               index == NotAfter(t.root.slots, from, to, address) - 1
    <3>1. from \in Int /\ to \in Int /\ from <= to
      BY TreeAssumption DEF WellFormed, HasInlineLevel2
    <3>2. index \in -1 .. to - from - 1
      <4> HIDE DEF from, to
      <4> QED
        BY <3>1, NotAfterIsCount
    <3>3. CASE index = -1 \/ inline \/ ~ HasLevel2(t)
      <4>1. k = index
        BY <3>3 DEF FindNode
      <4> QED
        BY <4>1, <3>1, <3>2
    <3>4. CASE ~ (index = -1 \/ inline \/ ~ HasLevel2(t))
      <4>1. k = FindInNode(t.level2[index].at, t.level2[index].count, address)
        BY <3>4 DEF FindNode
      <4>2. index \in 0 .. t.root.count - 1
        <5>1. from = 0 /\ to = t.root.count /\ index # -1
          BY <3>4
        <5>2. t.root.count \in Nat
          BY DEF WellFormed
        <5> HIDE DEF from, to, index
        <5> QED
          BY <5>1, <5>2, <3>2
      <4>3. t.level2[index].count \in Nat
        BY <4>2, <3>4 DEF WellFormed
      <4>4. NotAfter(t.level2[index].at, 0, t.level2[index].count, address) \in Nat
        BY <4>3, NotAfterIsCount
      <4> QED
        <5> HIDE DEF k, index
        <5> QED
          BY <4>1, <4>4 DEF FindInNode
    <3> QED
      BY <3>3, <3>4
  <2>2. CASE k < 0 \/ k >= t.nodeCount
    BY <2>2, <1>2 DEF Find, Located
  <2>3. CASE k \in 0 .. t.nodeCount - 1
    <3>1. n \in Nat
      BY <2>3 DEF WellFormed
    <3>2. i \in -1 .. n - 1
      BY <3>1, NotAfterIsCount DEF FindInNode
    <3>3. CASE i < 0
      BY <3>3, <1>2, <2>3 DEF Find, Located
    <3>4. CASE i >= 0
      <4>1. Find(t, address) = [node |-> k, index |-> i, count |-> n]
        <5>1. ~ (k < 0 \/ k >= t.nodeCount) /\ ~ (i < 0)
          BY <2>3, <3>2, <3>4 DEF WellFormed
        <5> QED
          BY <5>1, <1>2 DEF Find
      <4> HIDE DEF k, n, i
      <4> QED
        BY <4>1, <2>3, <3>2, <3>4 DEF Located, n
    <3> QED
      BY <3>2, <3>3, <3>4
  <2> QED
    BY <2>1, <2>2, <2>3 DEF WellFormed
<1> QED
  BY <1>1, <1>2

\* Between the cursor and the end of a step no later entry of the table begins:
\* an entry that covers a position there is the one the locator stands at.
LEMMA StepStaysInEntry ==
  ASSUME WellFormed(tree), Located(tree, loc), cur \in Nat, EntryUsable,
         NEW p \in Int, cur <= p, p < NextOffset,
         NEW k, NEW i, Covers(tree, k, i, p)
  PROVE  k = loc.node /\ i = loc.index
<1> DEFINE at(n, j) == tree.nodes[n].entry[j].at
           K == loc.node
           I == loc.index
<1>1. /\ tree.nodeCount \in Nat /\ K \in 0 .. tree.nodeCount - 1
      /\ tree.nodes[K].count \in Nat /\ I \in 0 .. tree.nodes[K].count - 1
      /\ loc.count = tree.nodes[K].count
  BY DEF WellFormed, Located, EntryUsable, HasValue, Nowhere
<1>2. k \in 0 .. tree.nodeCount - 1 /\ i \in 0 .. tree.nodes[k].count - 1
      /\ tree.nodes[k].count \in Nat /\ at(k, i) \in Nat /\ at(k, i) <= p
  BY <1>1 DEF Covers, WellFormed
<1>3. at(K, I) <= p
  <2>1. at(K, I) <= cur /\ at(K, I) \in Nat
    BY <1>1 DEF EntryUsable, EntryAt, WellFormed
  <2> QED
    BY <2>1
<1>4. K < k \/ (K = k /\ I <= i)
  BY <1>1, <1>3 DEF Covers
<1>5. CASE I + 1 < loc.count
  <2>1. HasNext(tree, loc) /\ HasValue(loc)
    BY <1>1, <1>5 DEF HasNext, HasValue
  <2>2. NextOffset = at(K, I + 1)
    BY <2>1, <1>5 DEF NextOffset, After, NextLocator, EntryAt
  <2>3. I + 1 \in 0 .. tree.nodes[K].count - 1 /\ at(K, I + 1) \in Nat
    BY <1>1, <1>5 DEF WellFormed
  <2>4. ~ (K < k \/ (K = k /\ I + 1 < i))
    <3>1. K < k \/ (K = k /\ I + 1 < i) => at(K, I + 1) < at(k, i)
      BY <1>1, <1>2, <2>3 DEF WellFormed
    <3> QED
      BY <3>1, <2>2, <2>3, <1>2
  <2>5. ~ (K = k /\ I + 1 = i)
    BY <2>2, <2>3, <1>2
  <2> QED
    BY <2>4, <2>5, <1>4, <1>1, <1>2
<1>6. CASE ~ (I + 1 < loc.count) /\ K + 1 < tree.nodeCount
  <2>1. HasNext(tree, loc) /\ HasValue(loc)
    BY <1>1, <1>6 DEF HasNext, HasValue
  <2>2. After # Nowhere
    BY <2>1 DEF EntryUsable
  <2>3. tree.nodes[K + 1].count # 0 /\ After = [node |-> K + 1, index |-> 0, count |-> tree.nodes[K + 1].count]
    BY <2>1, <2>2, <1>6 DEF After, NextLocator
  <2>4. NextOffset = at(K + 1, 0)
    BY <2>1, <2>3 DEF NextOffset, EntryAt
  <2>5. K + 1 \in 0 .. tree.nodeCount - 1 /\ 0 \in 0 .. tree.nodes[K + 1].count - 1 /\ at(K + 1, 0) \in Nat
    BY <1>1, <1>6, <2>3 DEF WellFormed
  <2>6. ~ (K + 1 < k \/ (K + 1 = k /\ 0 < i))
    <3>1. K + 1 < k \/ (K + 1 = k /\ 0 < i) => at(K + 1, 0) < at(k, i)
      BY <1>2, <2>5 DEF WellFormed
    <3> QED
      BY <3>1, <2>4, <2>5, <1>2
  <2>7. ~ (K + 1 = k /\ i = 0)
    BY <2>4, <2>5, <1>2
  <2>8. K = k
    BY <2>6, <2>7, <1>4, <1>1, <1>2
  <2> QED
    BY <2>8, <1>1, <1>2, <1>4, <1>6
<1>7. CASE ~ (I + 1 < loc.count) /\ ~ (K + 1 < tree.nodeCount)
  BY <1>1, <1>2, <1>4, <1>7
<1> QED
  BY <1>5, <1>6, <1>7

\* The locator of the next entry stands at an entry of the table again.
LEMMA AfterIsLocated ==
  ASSUME WellFormed(tree), Located(tree, loc), EntryUsable
  PROVE  Located(tree, After)
<1>1. /\ tree.nodeCount \in Nat /\ loc.node \in 0 .. tree.nodeCount - 1
      /\ tree.nodes[loc.node].count \in Nat /\ loc.index \in 0 .. tree.nodes[loc.node].count - 1
      /\ loc.count = tree.nodes[loc.node].count
  BY DEF WellFormed, Located, EntryUsable, HasValue, Nowhere
<1>2. CASE ~ HasNext(tree, loc)
  BY <1>2 DEF After
<1>3. CASE HasNext(tree, loc) /\ loc.index + 1 < loc.count
  <2>1. After = [loc EXCEPT !.index = loc.index + 1]
    BY <1>3 DEF After, NextLocator
  <2>2. loc = [node |-> loc.node, index |-> loc.index, count |-> loc.count]
    BY DEF Located, EntryUsable, HasValue, Nowhere
  <2> QED
    BY <1>1, <1>3, <2>1, <2>2 DEF Located
<1>4. CASE HasNext(tree, loc) /\ ~ (loc.index + 1 < loc.count)
  <2>1. After # Nowhere
    BY <1>4 DEF EntryUsable
  <2>2. tree.nodes[loc.node + 1].count # 0
        /\ After = [node |-> loc.node + 1, index |-> 0, count |-> tree.nodes[loc.node + 1].count]
    BY <1>4, <2>1 DEF After, NextLocator
  <2>3. loc.node + 1 \in 0 .. tree.nodeCount - 1
    BY <1>1, <1>4 DEF HasNext
  <2>4. tree.nodes[loc.node + 1].count \in Nat
    BY <2>3 DEF WellFormed
  <2> QED
    BY <2>2, <2>3, <2>4 DEF Located
<1> QED
  BY <1>2, <1>3, <1>4

\* In the loop all offsets and sizes are numbers.
LEMMA StepIsInt ==
  ASSUME SectionAssumption, WalkInv, Unfinished, EntryUsable
  PROVE  /\ cur \in Nat /\ End \in Nat /\ cur < End
         /\ NextOffset \in Int /\ StepSize \in Int
         /\ WellFormed(tree) /\ Located(tree, loc)
<1>1. phase = "walking" /\ cur < End
  BY DEF Unfinished
<1>2. request.offset \in Nat /\ request.size \in Nat
  BY DEF WalkInv, SectionAssumption
<1>3. WellFormed(tree)
  BY DEF WalkInv, SectionAssumption, tree
<1>4. cur \in Nat /\ End \in Nat /\ Located(tree, loc)
  BY <1>1, <1>2 DEF WalkInv, End
<1>5. NextOffset \in Int
  <2>1. CASE HasNext(tree, loc)
    <3>1. After # Nowhere /\ Located(tree, After)
      BY <1>3, <1>4, <2>1, AfterIsLocated DEF EntryUsable
    <3> QED
      BY <2>1, <3>1, <1>3 DEF NextOffset, EntryAt, Located, WellFormed
  <2>2. CASE ~ HasNext(tree, loc)
    BY <2>2, <1>3 DEF NextOffset, Size, WellFormed
  <2> QED
    BY <2>1, <2>2
<1>6. StepSize \in Int
  BY <1>4, <1>5 DEF StepSize
<1> QED
  BY <1>1, <1>3, <1>4, <1>5, <1>6

\* The bytes of a step are those that the table has for their positions.
LEMMA StepGenuine ==
  ASSUME SectionAssumption, WalkInv, Unfinished, EntryUsable, NEW byte,
         \A p \in cur .. cur + StepSize - 1 : byte[p] = ByteOf(image, EntryAt(tree, loc), p)
  PROVE  \A p \in cur .. cur + StepSize - 1 : Genuine(image, p, byte[p])
<1> SUFFICES ASSUME NEW p \in cur .. cur + StepSize - 1,
                    NEW k \in 0 .. tree.nodeCount - 1, NEW i \in 0 .. tree.nodes[k].count - 1,
                    Covers(tree, k, i, p)
             PROVE  byte[p] = ByteOf(image, tree.nodes[k].entry[i], p)
  BY DEF Genuine, tree
<1>1. p \in Int /\ cur <= p /\ p < NextOffset
  BY StepIsInt DEF StepSize
<1>2. k = loc.node /\ i = loc.index
  BY <1>1, StepIsInt, StepStaysInEntry
<1> QED
  BY <1>2 DEF EntryAt

\* A round of the loop appends bytes that the table stands for and keeps the
\* cursor in the request.
LEMMA AdvanceKeepsInv ==
  ASSUME SectionAssumption, WalkInv, Unfinished, EntryUsable, StepSize >= 0,
         NEW byte, Advance(StepSize, byte),
         \A p \in cur .. cur + StepSize - 1 : Genuine(image, p, byte[p])
  PROVE  WalkInv'
<1>1. /\ image \in Images /\ phase = "walking"
      /\ request.offset \in Nat /\ request.size \in Nat /\ cur \in request.offset .. End
      /\ End \in Nat /\ cur < End
      /\ DOMAIN out = 0 .. cur - request.offset - 1 /\ Located(tree, loc)
      /\ MaxOffset \in Nat /\ MaxSize \in Nat
  BY DEF WalkInv, Unfinished, End, SectionAssumption
<1>2. WellFormed(tree)
  BY <1>1 DEF SectionAssumption, tree
<1>3. image' = image /\ phase' = phase /\ request' = request /\ tree' = tree /\ End' = End
  BY DEF Advance, tree, End
<1>4. NextOffset \in Int
  BY StepIsInt
<1>5. StepSize \in Nat /\ cur + StepSize <= End
  BY <1>1, <1>4 DEF StepSize
<1>6. cur' = cur + StepSize /\ loc' = After
  BY DEF Advance
<1>7. DOMAIN out' = 0 .. cur' - request.offset - 1
  BY <1>1, <1>5, <1>6 DEF Advance
<1>8. Located(tree, After)
  BY <1>1, <1>2, AfterIsLocated
<1>9. DeliversGenuine'
  <2> SUFFICES ASSUME NEW i \in DOMAIN out'
               PROVE  Genuine(image, request.offset + i, out'[i])
    BY <1>3 DEF DeliversGenuine
  <2>1. i \in 0 .. cur + StepSize - request.offset - 1
    BY <1>1, <1>5, <1>6, <1>7
  <2>2. CASE i \in DOMAIN out
    <3>1. out'[i] = out[i]
      BY <2>1, <2>2 DEF Advance
    <3> QED
      BY <2>2, <3>1 DEF WalkInv, DeliversGenuine
  <2>3. CASE i \notin DOMAIN out
    <3>1. out'[i] = byte[request.offset + i]
      BY <2>1, <2>3 DEF Advance
    <3>2. request.offset + i \in cur .. cur + StepSize - 1
      BY <1>1, <1>5, <2>1, <2>3
    <3> QED
      BY <3>1, <3>2
  <2> QED
    BY <2>2, <2>3
<1>10. cur' \in request.offset .. End
  BY <1>1, <1>5, <1>6
<1> QED
  BY <1>1, <1>3, <1>6, <1>7, <1>8, <1>9, <1>10 DEF WalkInv

\* Init establishes the invariant.
LEMMA WalkInit ==
  ASSUME SectionAssumption, Init
  PROVE  WalkInv
  BY DEF WalkInv, Init, Nothing, DeliversGenuine, SectionAssumption

\* Every step keeps the invariant.
LEMMA WalkStep ==
  ASSUME SectionAssumption, WalkInv, [Next]_vars
  PROVE  WalkInv'
<1>0. /\ image \in Images /\ WellFormed(tree)
      /\ request.offset \in Nat /\ request.size \in Nat
      /\ MaxOffset \in Nat /\ MaxSize \in Nat /\ Size \in Nat
  <2>1. image \in Images /\ WellFormed(tree)
    BY DEF WalkInv, SectionAssumption, tree
  <2>2. MaxOffset \in Nat /\ MaxSize \in Nat
    BY DEF SectionAssumption
  <2>3. request.offset \in Nat /\ request.size \in Nat
    BY <2>2 DEF WalkInv
  <2>4. Size \in Nat
    BY <2>1 DEF Size, WellFormed
  <2> QED
    BY <2>1, <2>2, <2>3, <2>4
<1>1. ASSUME NEW r, r.offset \in 0 .. MaxOffset, r.size \in 0 .. MaxSize, StartWalk(r)
      PROVE  WalkInv'
  <2>1. Located(tree, Find(tree, r.offset))
    BY <1>0, <1>1, FindIsLocated
  <2>2. /\ image' = image /\ phase' = "walking" /\ request' = r /\ cur' = r.offset
        /\ loc' = Find(tree, r.offset) /\ out' = Nothing /\ tree' = tree
    BY <1>1 DEF StartWalk, tree
  <2>3. DOMAIN out' = {} /\ 0 .. cur' - request'.offset - 1 = {}
    BY <1>0, <1>1, <2>2 DEF Nothing
  <2>4. cur' \in request'.offset .. End'
    BY <1>0, <1>1, <2>2 DEF End
  <2>5. DeliversGenuine'
    BY <2>3 DEF DeliversGenuine
  <2> QED
    BY <1>0, <1>1, <2>1, <2>2, <2>3, <2>4, <2>5 DEF WalkInv
<1>2. ASSUME Fail, image' = image, request'.offset \in 0 .. MaxOffset, request'.size \in 0 .. MaxSize
      PROVE  WalkInv'
  BY <1>0, <1>2 DEF WalkInv, Fail, Nothing, DeliversGenuine
<1>3. ASSUME NEW r \in Requests, BeginEx(r)
      PROVE  WalkInv'
  <2>1. r.offset \in 0 .. MaxOffset /\ r.size \in 1 .. MaxSize /\ r = [offset |-> r.offset, size |-> r.size]
    BY DEF Requests
  <2>2. r.offset < Size
    BY <1>3 DEF BeginEx, ExAccepts
  <2>3. Clamped(r).offset = r.offset /\ Clamped(r).size \in 0 .. MaxSize
    BY <1>0, <2>1, <2>2 DEF Clamped
  <2>4. StartWalk(Clamped(r))
    BY <1>3 DEF BeginEx
  <2> QED
    BY <1>1, <2>1, <2>3, <2>4
<1>4. ASSUME NEW r \in Requests, BeginIndirect(r)
      PROVE  WalkInv'
  <2>1. r.offset \in 0 .. MaxOffset /\ r.size \in 0 .. MaxSize
    BY <1>0 DEF Requests
  <2> QED
    BY <1>1, <1>4, <2>1 DEF BeginIndirect
<1>5. ASSUME NEW r \in Requests, Refuse(r)
      PROVE  WalkInv'
  <2>1. r.offset \in 0 .. MaxOffset /\ r.size \in 0 .. MaxSize
    BY <1>0 DEF Requests
  <2>2. Fail /\ image' = image /\ request' = r
    BY <1>5 DEF Refuse
  <2> QED
    BY <1>2, <2>1, <2>2
<1>6. CASE CopyEx
  <2>1. EntryUsable /\ Unfinished /\ image.kind = "aesCtrEx" /\ NextOffset > cur /\ Advance(StepSize, Deciphered)
    BY <1>6 DEF CopyEx, ExUsable
  <2>2. \A p \in cur .. cur + StepSize - 1 : Deciphered[p] = ByteOf(image, EntryAt(tree, loc), p)
    BY <2>1 DEF Deciphered, ByteOf
  <2>3. StepSize >= 0
    BY <2>1, StepIsInt DEF StepSize
  <2> QED
    BY <2>1, <2>2, <2>3, StepGenuine, AdvanceKeepsInv
<1>7. CASE CopyIndirect
  <2>1. EntryUsable /\ Unfinished /\ image.kind = "indirect" /\ Advance(StepSize, Fetched)
    BY <1>7 DEF CopyIndirect, IndirectUsable
  <2>2. \A p \in cur .. cur + StepSize - 1 : Fetched[p] = ByteOf(image, EntryAt(tree, loc), p)
    BY <2>1 DEF Fetched, ByteOf
  <2>3. StepSize >= 0
    BY <1>7, <2>1, StepIsInt DEF CopyIndirect, IndirectUsable, StorageReads
  <2> QED
    BY <2>1, <2>2, <2>3, StepGenuine, AdvanceKeepsInv
<1>8. CASE DecryptFails \/ Stop
  <2>1. Fail /\ image' = image /\ request' = request
    BY <1>8 DEF DecryptFails, Stop
  <2> QED
    BY <1>2, <2>1 DEF WalkInv
<1>9. CASE Return
  <2>1. /\ phase = "walking" /\ ~ (cur < End) /\ phase' = "returned"
        /\ UNCHANGED <<image, request, loc, cur, out>>
    BY <1>9 DEF Return, Unfinished
  <2>2. cur \in request.offset .. End /\ DOMAIN out = 0 .. cur - request.offset - 1
    BY <2>1 DEF WalkInv
  <2>3. cur = request.offset + request.size
    BY <1>0, <2>1, <2>2 DEF End
  <2>4. DOMAIN out = 0 .. request.size - 1
    BY <1>0, <2>2, <2>3
  <2>5. DeliversGenuine'
    BY <2>1 DEF WalkInv, DeliversGenuine
  <2> QED
    BY <2>1, <2>4, <2>5 DEF WalkInv
<1>10. CASE Done
  <2>1. /\ image' = image /\ phase' = "idle" /\ out' = Nothing
        /\ request'.offset = 0 /\ request'.size = 0
    BY <1>10 DEF Done
  <2>2. DeliversGenuine'
    BY <2>1 DEF DeliversGenuine, Nothing
  <2> QED
    BY <1>0, <2>1, <2>2 DEF WalkInv
<1>11. CASE UNCHANGED vars
  <2>1. UNCHANGED <<image, phase, request, loc, cur, out>> /\ End' = End /\ tree' = tree
    BY <1>11 DEF vars, End, tree
  <2>2. DeliversGenuine'
    BY <2>1 DEF WalkInv, DeliversGenuine
  <2> QED
    BY <2>1, <2>2 DEF WalkInv
<1> QED
  BY <1>3, <1>4, <1>5, <1>6, <1>7, <1>8, <1>9, <1>10, <1>11 DEF Next, Walk

\* The invariant of the walk holds in every reachable state.
THEOREM WalkInvariant == Spec => []WalkInv
<1>1. Init => WalkInv
  BY WalkInit, SectionAssumption
<1>2. WalkInv /\ [Next]_vars => WalkInv'
  BY WalkStep, SectionAssumption
<1> QED
  BY <1>1, <1>2, PTL DEF Spec

\* Type correctness: the walk never goes past the end of the request, and
\* delivers all of it or nothing.
THEOREM WalkTypeCorrect == Spec => []TypeOK
<1>1. WalkInv => TypeOK
  BY DEF WalkInv, TypeOK
<1> QED
  BY <1>1, WalkInvariant, PTL

\* Every delivered byte is the one of the entry that covers its position, in
\* tables of any size, with one level of offsets or two.
THEOREM WalkDeliversGenuine == Spec => []DeliversGenuine
<1>1. WalkInv => DeliversGenuine
  BY DEF WalkInv
<1> QED
  BY <1>1, WalkInvariant, PTL

-----------------------------------------------------------------------------
\* A set of numbers has a least one: what stands for induction below.
LEMMA LeastOfSet ==
  ASSUME NEW T \in SUBSET Nat, T # {}
  PROVE  \E x \in T : \A y \in T : x <= y
<1>1. PICK x \in T : \A y \in T : ~ (<<y, x>> \in OpToRel(<, Nat))
  BY NatLessThanWellFounded, WFMin
<1>2. ASSUME NEW y \in T PROVE ~ (y < x)
  BY <1>1 DEF OpToRel
<1>3. \A y \in T : x <= y
  BY <1>2
<1> QED
  BY <1>3

\* The first count of the offsets are in order.
Sorted(at, count) ==
  /\ \A i \in 0 .. count - 1 : at[i] \in Nat
  /\ \A i, j \in 0 .. count - 1 : i < j => at[i] < at[j]

\* Those that are not after the address are the first ones.
Boundary(at, count, address, bound) ==
  \A i \in 0 .. count - 1 : at[i] <= address <=> i < bound

\* Of sorted offsets those that are not after an address come before the others.
LEMMA SortedHasBoundary ==
  ASSUME NEW at, NEW count \in Nat, Sorted(at, count), NEW address \in Int
  PROVE  \E bound \in 0 .. count : Boundary(at, count, address, bound)
<1> DEFINE T == {i \in 0 .. count - 1 : ~ (at[i] <= address)}
<1>1. CASE T = {}
  <2>1. Boundary(at, count, address, count)
    BY <1>1 DEF Boundary
  <2> QED
    BY <2>1
<1>2. CASE T # {}
  <2>1. PICK x \in T : \A y \in T : x <= y
    <3>1. T \in SUBSET Nat
      OBVIOUS
    <3> HIDE DEF T
    <3> QED
      BY <1>2, <3>1, LeastOfSet
  <2>2. x \in 0 .. count - 1 /\ at[x] \in Nat /\ at[x] > address
    BY <2>1 DEF Sorted
  <2>3. ASSUME NEW i \in 0 .. count - 1 PROVE at[i] <= address <=> i < x
    <3>1. CASE i < x
      BY <2>1, <3>1
    <3>2. CASE i = x
      BY <2>2, <3>2
    <3>3. CASE x < i
      <4>1. at[x] < at[i] /\ at[i] \in Nat
        BY <2>2, <3>3 DEF Sorted
      <4> QED
        BY <2>2, <3>3, <4>1
    <3> QED
      BY <2>2, <3>1, <3>2, <3>3
  <2> QED
    BY <2>2, <2>3 DEF Boundary
<1> QED
  BY <1>1, <1>2

\* How many they are is where the others begin.
LEMMA CountIsBoundary ==
  ASSUME NEW at, NEW count \in Nat, NEW address,
         NEW bound \in 0 .. count, Boundary(at, count, address, bound)
  PROVE  NotAfter(at, 0, count, address) = bound /\ FindInNode(at, count, address) = bound - 1
<1>1. {i \in 0 .. count - 1 : at[i] <= address} = 0 .. bound - 1
  BY DEF Boundary
<1>2. Cardinality(0 .. bound - 1) = bound
  BY FS_Interval
<1> QED
  BY <1>1, <1>2 DEF NotAfter, FindInNode

\* The loop of FindEntry halves what is left until it stands where the others
\* begin: it comes to what counting comes to.
LEMMA BisectIsFind ==
  ASSUME NEW at, NEW count \in Nat, Sorted(at, count), NEW address \in Int
  PROVE  Bisect(at, count, address) = FindInNode(at, count, address)
<1>1. PICK bound \in 0 .. count : Boundary(at, count, address, bound)
  BY SortedHasBoundary
<1> DEFINE search[len \in 0 .. count] ==
             [pos \in 0 .. count - len |->
                LET half == len \div 2
                IN IF len = 0 THEN pos
                   ELSE IF at[pos + half] <= address
                          THEN search[len - (half + 1)][pos + half + 1]
                   ELSE search[half][pos]]
           Clip(len, pos) == IF bound < pos THEN pos ELSE IF bound > pos + len THEN pos + len ELSE bound
           clipped == [len \in 0 .. count |-> [pos \in 0 .. count - len |-> Clip(len, pos)]]
\* What is left is halved.
<1>2. ASSUME NEW len \in 0 .. count, len # 0, NEW pos \in 0 .. count - len
      PROVE  LET half == len \div 2
             IN /\ half \in 0 .. len - 1 /\ pos + half \in 0 .. count - 1
                /\ len - (half + 1) \in 0 .. len - 1 /\ half \in 0 .. count
                /\ len - (half + 1) \in 0 .. count
                /\ pos \in 0 .. count - half
                /\ pos + half + 1 \in 0 .. count - (len - (half + 1))
                /\ at[pos + half] <= address <=> pos + half < bound
  <2> DEFINE half == len \div 2
  <2>1. half \in 0 .. len - 1
    BY <1>2
  <2> HIDE DEF half
  <2>2. pos + half \in 0 .. count - 1
    BY <1>2, <2>1
  <2>3. at[pos + half] <= address <=> pos + half < bound
    BY <1>1, <2>2 DEF Boundary
  <2>4. /\ len - (half + 1) \in 0 .. len - 1 /\ half \in 0 .. count
        /\ len - (half + 1) \in 0 .. count
        /\ pos \in 0 .. count - half
        /\ pos + half + 1 \in 0 .. count - (len - (half + 1))
    BY <1>2, <2>1, <2>2
  <2> QED
    BY <2>1, <2>2, <2>3, <2>4 DEF half
\* The position of the boundary solves the equation of the loop.
<1>3. ASSUME NEW len \in 0 .. count, NEW pos \in 0 .. count - len
      PROVE  Clip(len, pos) =
               LET half == len \div 2
               IN IF len = 0 THEN pos
                  ELSE IF at[pos + half] <= address THEN clipped[len - (half + 1)][pos + half + 1]
                  ELSE clipped[half][pos]
  <2>1. CASE len = 0
    BY <2>1
  <2>2. CASE len # 0
    <3> DEFINE half == len \div 2
    <3>1. /\ half \in 0 .. len - 1 /\ pos + half \in 0 .. count - 1
          /\ len - (half + 1) \in 0 .. count /\ half \in 0 .. count
          /\ pos \in 0 .. count - half
          /\ pos + half + 1 \in 0 .. count - (len - (half + 1))
          /\ at[pos + half] <= address <=> pos + half < bound
      BY <1>2, <2>2
    <3> HIDE DEF half
    <3>2. /\ clipped[len - (half + 1)][pos + half + 1] = Clip(len - (half + 1), pos + half + 1)
          /\ clipped[half][pos] = Clip(half, pos)
      BY <3>1
    <3>3. CASE at[pos + half] <= address
      <4>1. Clip(len, pos) = Clip(len - (half + 1), pos + half + 1)
        BY <3>1, <3>3
      <4> QED
        BY <2>2, <3>2, <3>3, <4>1 DEF half
    <3>4. CASE ~ (at[pos + half] <= address)
      <4>1. Clip(len, pos) = Clip(half, pos)
        BY <3>1, <3>4
      <4> QED
        BY <2>2, <3>2, <3>4, <4>1 DEF half
    <3> QED
      BY <3>3, <3>4
  <2> QED
    BY <2>1, <2>2
<1>4. clipped = [len \in 0 .. count |->
                   [pos \in 0 .. count - len |->
                      LET half == len \div 2
                      IN IF len = 0 THEN pos
                         ELSE IF at[pos + half] <= address
                                THEN clipped[len - (half + 1)][pos + half + 1]
                         ELSE clipped[half][pos]]]
  BY <1>3
<1>5. search = [len \in 0 .. count |->
                  [pos \in 0 .. count - len |->
                     LET half == len \div 2
                     IN IF len = 0 THEN pos
                        ELSE IF at[pos + half] <= address
                               THEN search[len - (half + 1)][pos + half + 1]
                        ELSE search[half][pos]]]
  <2> HIDE DEF clipped
  <2> QED
    BY <1>4, Zenon
<1>6. Bisect(at, count, address) = search[count][0] - 1
  BY Zenon DEF Bisect
<1> HIDE DEF search
\* No shorter stretch is searched wrongly, so none is.
<1>7. ASSUME NEW len \in 0 .. count, NEW pos \in 0 .. count - len
      PROVE  search[len][pos] = Clip(len, pos)
  <2> DEFINE Wrong == {n \in 0 .. count : \E p \in 0 .. count - n : search[n][p] # Clip(n, p)}
  <2>1. SUFFICES ASSUME Wrong # {} PROVE FALSE
    OBVIOUS
  <2>2. PICK n \in Wrong : \A m \in Wrong : n <= m
    <3>1. Wrong \in SUBSET Nat
      OBVIOUS
    <3> HIDE DEF Wrong
    <3> QED
      BY <2>1, <3>1, LeastOfSet
  <2>3. PICK p \in 0 .. count - n : search[n][p] # Clip(n, p)
    OBVIOUS
  <2>4. n \in 0 .. count /\ \A m \in 0 .. n - 1 : m \notin Wrong
    BY <2>2
  <2>5. CASE n = 0
    <3>1. search[n][p] = p
      BY <1>5, <2>4, <2>5
    <3> QED
      BY <2>3, <2>5, <3>1
  <2>6. CASE n # 0
    <3> DEFINE half == n \div 2
    <3>1. /\ half \in 0 .. n - 1 /\ n - (half + 1) \in 0 .. n - 1
          /\ n - (half + 1) \in 0 .. count /\ half \in 0 .. count
          /\ p \in 0 .. count - half
          /\ p + half + 1 \in 0 .. count - (n - (half + 1))
      BY <1>2, <2>4, <2>6
    <3>2. search[n][p] = IF at[p + half] <= address THEN search[n - (half + 1)][p + half + 1]
                         ELSE search[half][p]
      BY <1>5, <2>4, <2>6
    <3>3. Clip(n, p) = IF at[p + half] <= address
                         THEN clipped[n - (half + 1)][p + half + 1]
                         ELSE clipped[half][p]
      BY <1>3, <2>4, <2>6
    <3> HIDE DEF half
    <3>4. search[n - (half + 1)][p + half + 1] = Clip(n - (half + 1), p + half + 1)
      BY <2>4, <3>1
    <3>5. search[half][p] = Clip(half, p)
      BY <2>4, <3>1
    <3>6. /\ clipped[n - (half + 1)][p + half + 1] = Clip(n - (half + 1), p + half + 1)
          /\ clipped[half][p] = Clip(half, p)
      BY <3>1
    <3> QED
      BY <2>3, <3>2, <3>3, <3>4, <3>5, <3>6
  <2> QED
    BY <2>5, <2>6
<1>8. search[count][0] = bound
  BY <1>7
<1> QED
  BY <1>1, <1>6, <1>8, CountIsBoundary

\* The entries of a node begin in order.
LEMMA NodeIsSorted ==
  ASSUME NEW t, WellFormed(t), NEW k \in 0 .. t.nodeCount - 1
  PROVE  t.nodes[k].count \in Nat /\ Sorted(Begins(t, k), t.nodes[k].count)
<1>1. t.nodes[k].count \in Nat
  BY DEF WellFormed
<1>2. \A i \in 0 .. t.nodes[k].count - 1 : Begins(t, k)[i] = t.nodes[k].entry[i].at
  BY DEF Begins
<1>3. \A i \in 0 .. t.nodes[k].count - 1 : t.nodes[k].entry[i].at \in Nat
  BY DEF WellFormed
<1>4. \A i, j \in 0 .. t.nodes[k].count - 1 :
        i < j => t.nodes[k].entry[i].at < t.nodes[k].entry[j].at
  BY DEF WellFormed
<1> QED
  BY <1>1, <1>2, <1>3, <1>4 DEF Sorted

\* FindEntry's loop finds the last offset that is not after the address, in nodes
\* of any number of entries and for every address: its bisection leaves none out
\* and comes to an end at the right place.
THEOREM WalkBisectionFinds == Spec => []BisectionFinds
<1>1. ASSUME WalkInv PROVE BisectionFinds
  <2>1. WellFormed(tree) /\ Size \in Nat
    BY <1>1, SectionAssumption DEF WalkInv, tree, Size, WellFormed
  <2> SUFFICES ASSUME NEW k \in 0 .. tree.nodeCount - 1, NEW address \in 0 .. Size
               PROVE  Bisect(Begins(tree, k), tree.nodes[k].count, address) =
                        FindInNode(Begins(tree, k), tree.nodes[k].count, address)
    BY DEF BisectionFinds
  <2>2. tree.nodes[k].count \in Nat /\ Sorted(Begins(tree, k), tree.nodes[k].count)
    BY <2>1, NodeIsSorted
  <2>3. address \in Int
    BY <2>1
  <2> QED
    BY <2>2, <2>3, BisectIsFind
<1> QED
  BY <1>1, WalkInvariant, PTL

-----------------------------------------------------------------------------
\* findEntry leads to the entry that covers the address, if the root has the
\* offsets of all nodes.
LEMMA FindCovers ==
  ASSUME NEW t, WellFormed(t), Rooted(t), NEW address \in Nat, Contains(t, address)
  PROVE  /\ Find(t, address) # Nowhere
         /\ Covers(t, Find(t, address).node, Find(t, address).index, address)
<1> DEFINE k == FindNode(t, address)
           n == t.nodes[k].count
           i == FindInNode(Begins(t, k), n, address)
<1>1. /\ t.nodeCount \in Nat \ {0} /\ IsInitialized(t) /\ ~ HasLevel2(t)
      /\ t.root.count = t.nodeCount /\ ~ (address >= t.root.end) /\ t.root.end \in Nat
  BY DEF WellFormed, Rooted, IsInitialized, Contains
<1>2. \A l \in 0 .. t.nodeCount - 1 :
        /\ t.nodes[l].count \in Nat \ {0} /\ t.root.slots[l] = t.nodes[l].entry[0].at
        /\ t.nodes[l].entry[0].at \in Nat
  BY DEF WellFormed, Rooted
<1>3. Sorted(t.root.slots, t.nodeCount)
  <2>1. ASSUME NEW l \in 0 .. t.nodeCount - 1, NEW m \in 0 .. t.nodeCount - 1, l < m
        PROVE  t.root.slots[l] < t.root.slots[m]
    <3>1. 0 \in 0 .. t.nodes[l].count - 1 /\ 0 \in 0 .. t.nodes[m].count - 1
      BY <1>2
    <3>2. t.nodes[l].entry[0].at < t.nodes[m].entry[0].at
      BY <2>1, <3>1 DEF WellFormed
    <3> QED
      BY <1>2, <3>2
  <2> QED
    BY <1>2, <2>1 DEF Sorted
<1>4. PICK u \in 0 .. t.nodeCount : Boundary(t.root.slots, t.nodeCount, address, u)
  BY <1>1, <1>3, SortedHasBoundary
<1>5. u > 0
  BY <1>1, <1>4 DEF Boundary, Contains
<1>6. k = u - 1 /\ k \in 0 .. t.nodeCount - 1
  <2>1. NotAfter(t.root.slots, 0, t.nodeCount, address) = u
    BY <1>1, <1>4, CountIsBoundary
  <2>2. ~ HasInlineLevel2(t)
    BY <1>1 DEF HasInlineLevel2
  <2>3. k = u - 1
    BY <1>1, <1>4, <2>1, <2>2 DEF FindNode
  <2> QED
    BY <1>1, <1>4, <1>5, <2>3
<1> HIDE DEF k
<1>7. n \in Nat \ {0} /\ Sorted(Begins(t, k), n)
  BY <1>2, <1>6, NodeIsSorted
<1>8. PICK v \in 0 .. n : Boundary(Begins(t, k), n, address, v)
  BY <1>7, SortedHasBoundary
<1>9. \A j \in 0 .. n - 1 : t.nodes[k].entry[j].at <= address <=> j < v
  BY <1>8 DEF Boundary, Begins
<1>10. v > 0
  <2>1. t.root.slots[k] <= address
    BY <1>4, <1>6 DEF Boundary
  <2>2. t.nodes[k].entry[0].at <= address
    BY <1>2, <1>6, <2>1
  <2> QED
    BY <1>7, <1>9, <2>2
<1>11. i = v - 1 /\ i \in 0 .. n - 1
  BY <1>7, <1>8, <1>10, CountIsBoundary
<1>12. Find(t, address) = [node |-> k, index |-> i, count |-> n]
  <2>1. ~ (k < 0 \/ k >= t.nodeCount) /\ ~ (i < 0)
    BY <1>1, <1>6, <1>11
  <2> HIDE DEF i, n
  <2>2. Find(t, address) =
          IF ~ IsInitialized(t) \/ address >= t.root.end THEN Nowhere
          ELSE IF k < 0 \/ k >= t.nodeCount THEN Nowhere
          ELSE IF i < 0 THEN Nowhere
          ELSE [node |-> k, index |-> i, count |-> n]
    BY DEF Find, k, i, n
  <2> QED
    BY <1>1, <2>1, <2>2
<1>13. Covers(t, k, i, address)
  <2>1. ASSUME NEW l \in 0 .. t.nodeCount - 1, NEW j \in 0 .. t.nodes[l].count - 1,
               t.nodes[l].entry[j].at <= address
        PROVE  l < k \/ (l = k /\ j <= i)
    <3>1. t.nodes[l].entry[0].at <= address
      <4>1. /\ t.nodes[l].entry[j].at \in Nat /\ t.nodes[l].entry[0].at \in Nat
            /\ t.nodes[l].count \in Nat \ {0}
        BY <1>2 DEF WellFormed
      <4>2. j > 0 => t.nodes[l].entry[0].at < t.nodes[l].entry[j].at
        <5>1. 0 \in 0 .. t.nodes[l].count - 1
          BY <4>1
        <5> QED
          BY <5>1 DEF WellFormed
      <4> QED
        BY <2>1, <4>1, <4>2
    <3>2. l < u
      BY <1>2, <1>4, <3>1 DEF Boundary
    <3>3. l = k => j < v
      BY <1>9, <2>1
    <3> QED
      BY <1>1, <1>4, <1>6, <1>7, <1>8, <1>11, <3>2, <3>3
  <2> HIDE DEF i, n
  <2>2. t.nodes[k].entry[i].at <= address /\ i \in 0 .. t.nodes[k].count - 1
    <3>1. i < v
      BY <1>8, <1>7, <1>11
    <3> QED
      BY <1>9, <1>11, <3>1 DEF n
  <2> QED
    BY <1>6, <2>1, <2>2 DEF Covers
<1>14. [node |-> k, index |-> i, count |-> n] # Nowhere
  BY <1>6, <1>1 DEF Nowhere
<1> QED
  <2> HIDE DEF i, n
  <2> QED
    BY <1>12, <1>13, <1>14

\* The locator of the next entry leads to the very next one, none is passed over.
LEMMA AfterIsNext ==
  ASSUME WellFormed(tree), Rooted(tree), Located(tree, loc), loc # Nowhere
  PROVE  /\ HasValue(loc)
         /\ HasNext(tree, loc) =>
              /\ After # Nowhere /\ Located(tree, After)
              /\ loc.node < After.node \/ (loc.node = After.node /\ loc.index < After.index)
         /\ \A l \in 0 .. tree.nodeCount - 1 : \A j \in 0 .. tree.nodes[l].count - 1 :
              loc.node < l \/ (loc.node = l /\ loc.index < j) =>
                /\ HasNext(tree, loc)
                /\ EntryAt(tree, After).at <= tree.nodes[l].entry[j].at
<1> DEFINE K == loc.node
           I == loc.index
<1>1. /\ tree.nodeCount \in Nat /\ K \in 0 .. tree.nodeCount - 1
      /\ tree.nodes[K].count \in Nat /\ I \in 0 .. tree.nodes[K].count - 1
      /\ loc.count = tree.nodes[K].count
      /\ loc = [node |-> K, index |-> I, count |-> tree.nodes[K].count]
  BY DEF WellFormed, Located
<1>2. HasValue(loc)
  BY <1>1 DEF HasValue
<1>3. CASE I + 1 < loc.count
  <2>1. HasNext(tree, loc)
    BY <1>2, <1>3 DEF HasNext
  <2>2. After = [node |-> K, index |-> I + 1, count |-> tree.nodes[K].count]
    BY <1>1, <1>3, <2>1 DEF After, NextLocator
  <2>3. I + 1 \in 0 .. tree.nodes[K].count - 1
    BY <1>1, <1>3
  <2>4. After # Nowhere /\ Located(tree, After)
    BY <1>1, <2>2, <2>3 DEF Nowhere, Located
  <2>5. EntryAt(tree, After) = tree.nodes[K].entry[I + 1] /\ After.node = K /\ After.index = I + 1
    BY <2>2 DEF EntryAt
  <2>6. ASSUME NEW l \in 0 .. tree.nodeCount - 1, NEW j \in 0 .. tree.nodes[l].count - 1,
               K < l \/ (K = l /\ I < j)
        PROVE  tree.nodes[K].entry[I + 1].at <= tree.nodes[l].entry[j].at
    <3>1. /\ tree.nodes[l].entry[j].at \in Nat /\ tree.nodes[K].entry[I + 1].at \in Nat
          /\ tree.nodes[l].count \in Nat
      BY <1>1, <2>3 DEF WellFormed
    <3>2. CASE K = l /\ j = I + 1
      BY <3>1, <3>2
    <3>3. CASE ~ (K = l /\ j = I + 1)
      <4>1. K < l \/ (K = l /\ I + 1 < j)
        BY <1>1, <2>6, <3>1, <3>3
      <4>2. tree.nodes[K].entry[I + 1].at < tree.nodes[l].entry[j].at
        BY <1>1, <2>3, <4>1 DEF WellFormed
      <4> QED
        BY <3>1, <4>2
    <3> QED
      BY <3>2, <3>3
  <2>7. K < After.node \/ (K = After.node /\ I < After.index)
    BY <1>1, <2>5
  <2> HIDE DEF K, I
  <2> QED
    BY <1>2, <2>1, <2>4, <2>5, <2>6, <2>7 DEF K, I
<1>4. CASE ~ (I + 1 < loc.count) /\ K + 1 < tree.nodeCount
  <2>1. HasNext(tree, loc)
    BY <1>2, <1>4 DEF HasNext
  <2>2. K + 1 \in 0 .. tree.nodeCount - 1
    BY <1>1, <1>4
  <2>3. tree.nodes[K + 1].count \in Nat \ {0}
    BY <2>2 DEF WellFormed, Rooted
  <2>4. After = [node |-> K + 1, index |-> 0, count |-> tree.nodes[K + 1].count]
    BY <1>1, <1>4, <2>1, <2>3 DEF After, NextLocator
  <2>5. 0 \in 0 .. tree.nodes[K + 1].count - 1
    BY <2>3
  <2>6. After # Nowhere /\ Located(tree, After)
    BY <1>1, <2>2, <2>4, <2>5 DEF Nowhere, Located
  <2>7. EntryAt(tree, After) = tree.nodes[K + 1].entry[0] /\ After.node = K + 1 /\ After.index = 0
    BY <2>4 DEF EntryAt
  <2>8. ASSUME NEW l \in 0 .. tree.nodeCount - 1, NEW j \in 0 .. tree.nodes[l].count - 1,
               K < l \/ (K = l /\ I < j)
        PROVE  tree.nodes[K + 1].entry[0].at <= tree.nodes[l].entry[j].at
    <3>1. /\ tree.nodes[l].entry[j].at \in Nat /\ tree.nodes[K + 1].entry[0].at \in Nat
          /\ tree.nodes[l].count \in Nat
      BY <2>2, <2>5 DEF WellFormed
    <3>2. K < l
      BY <1>1, <1>4, <2>8
    <3>3. CASE l = K + 1 /\ j = 0
      BY <3>1, <3>3
    <3>4. CASE ~ (l = K + 1 /\ j = 0)
      <4>1. K + 1 < l \/ (K + 1 = l /\ 0 < j)
        BY <1>1, <3>1, <3>2, <3>4
      <4>2. tree.nodes[K + 1].entry[0].at < tree.nodes[l].entry[j].at
        BY <2>2, <2>5, <4>1 DEF WellFormed
      <4> QED
        BY <3>1, <4>2
    <3> QED
      BY <3>3, <3>4
  <2>9. K < After.node
    BY <1>1, <2>7
  <2> HIDE DEF K, I
  <2> QED
    BY <1>2, <2>1, <2>6, <2>7, <2>8, <2>9 DEF K, I
<1>5. CASE ~ (I + 1 < loc.count) /\ ~ (K + 1 < tree.nodeCount)
  <2>1. ~ HasNext(tree, loc)
    BY <1>5 DEF HasNext
  <2>2. ASSUME NEW l \in 0 .. tree.nodeCount - 1, NEW j \in 0 .. tree.nodes[l].count - 1,
               K < l \/ (K = l /\ I < j)
        PROVE  FALSE
    <3>1. tree.nodes[l].count \in Nat
      BY DEF WellFormed
    <3> QED
      BY <1>1, <1>5, <2>2, <3>1
  <2> QED
    BY <1>2, <2>1, <2>2
<1> QED
  BY <1>3, <1>4, <1>5

\* As long as bytes are wanted of an intact part, the locator stands at the entry
\* that covers the cursor.
LocatorCovers ==
  phase = "walking" /\ cur < End /\ Intact(request) => Covers(tree, loc.node, loc.index, cur)

DeliveryInv == WalkInv /\ LocatorCovers

\* Where the locator stands at the entry that covers the cursor: the next entry
\* begins behind it, in the table, and up to there this one covers everything.
LEMMA StepIsCovered ==
  ASSUME DeliveryInv, Unfinished, Intact(request)
  PROVE  /\ EntryUsable /\ NextOffset > cur /\ NextOffset \in Nat
         /\ loc.node \in 0 .. tree.nodeCount - 1
         /\ loc.index \in 0 .. tree.nodes[loc.node].count - 1
         /\ EntryAt(tree, loc).at \in Nat /\ EntryAt(tree, loc).at <= cur
         /\ NextOffset = Size \/ \E k \in 0 .. tree.nodeCount - 1 :
                                  \E i \in 0 .. tree.nodes[k].count - 1 :
                                    NextOffset = tree.nodes[k].entry[i].at
         /\ \A p \in Nat : cur <= p /\ p < NextOffset => Covers(tree, loc.node, loc.index, p)
<1>1. /\ WellFormed(tree) /\ Rooted(tree) /\ Located(tree, loc) /\ Size \in Nat
      /\ cur \in Nat /\ cur < End /\ End \in Nat /\ End <= Size
      /\ Covers(tree, loc.node, loc.index, cur)
  <2>1. phase = "walking" /\ cur < End /\ image \in Images
    BY DEF Unfinished, DeliveryInv, WalkInv
  <2>2. WellFormed(tree) /\ Rooted(tree)
    BY <2>1, SectionAssumption DEF tree, Intact
  <2>3. Located(tree, loc) /\ Covers(tree, loc.node, loc.index, cur)
    BY <2>1 DEF DeliveryInv, LocatorCovers, WalkInv
  <2>4. request.offset \in Nat /\ request.size \in Nat
    BY SectionAssumption DEF DeliveryInv, WalkInv
  <2>5. cur \in Nat /\ End \in Nat
    BY <2>1, <2>4 DEF DeliveryInv, WalkInv, End
  <2>6. Size \in Nat /\ End <= Size
    BY <2>2 DEF Intact, End, Size, WellFormed
  <2> QED
    BY <2>1, <2>2, <2>3, <2>5, <2>6
<1>2. loc # Nowhere
  BY <1>1 DEF Covers, Nowhere
<1>3. /\ loc.node \in 0 .. tree.nodeCount - 1
      /\ loc.index \in 0 .. tree.nodes[loc.node].count - 1
      /\ EntryAt(tree, loc).at \in Nat /\ EntryAt(tree, loc).at <= cur
  BY <1>1 DEF Covers, EntryAt, WellFormed
<1>4. ASSUME HasNext(tree, loc)
      PROVE  /\ After # Nowhere /\ Located(tree, After)
             /\ NextOffset = EntryAt(tree, After).at /\ NextOffset \in Nat /\ NextOffset > cur
             /\ After.node \in 0 .. tree.nodeCount - 1
             /\ After.index \in 0 .. tree.nodes[After.node].count - 1
  <2>1. /\ After # Nowhere /\ Located(tree, After)
        /\ loc.node < After.node \/ (loc.node = After.node /\ loc.index < After.index)
    BY <1>1, <1>2, <1>4, AfterIsNext
  <2>2. /\ After.node \in 0 .. tree.nodeCount - 1
        /\ After.index \in 0 .. tree.nodes[After.node].count - 1
    BY <2>1 DEF Located
  <2>3. NextOffset = EntryAt(tree, After).at /\ NextOffset \in Nat
    BY <1>1, <1>4, <2>2 DEF NextOffset, EntryAt, WellFormed
  <2>4. ~ (NextOffset <= cur)
    <3>1. SUFFICES ASSUME NextOffset <= cur PROVE FALSE
      OBVIOUS
    <3>2. After.node < loc.node \/ (After.node = loc.node /\ After.index <= loc.index)
      BY <1>1, <2>2, <2>3, <3>1 DEF Covers, EntryAt
    <3>3. /\ After.node \in Int /\ loc.node \in Int /\ After.index \in Int /\ loc.index \in Int
      BY <1>3, <2>2
    <3> QED
      BY <2>1, <3>2, <3>3
  <2> QED
    BY <1>1, <2>1, <2>2, <2>3, <2>4
<1>5. NextOffset > cur /\ NextOffset \in Nat
  <2>1. CASE HasNext(tree, loc)
    BY <1>4, <2>1
  <2>2. CASE ~ HasNext(tree, loc)
    BY <1>1, <2>2 DEF NextOffset
  <2> QED
    BY <2>1, <2>2
<1>6. HasNext(tree, loc) => After # Nowhere /\ Contains(tree, NextOffset)
  <2>1. SUFFICES ASSUME HasNext(tree, loc) PROVE Contains(tree, NextOffset)
    BY <1>4
  <2>2. NextOffset < Size
    BY <1>1, <1>4, <2>1 DEF Rooted, EntryAt, Size
  <2>3. tree.root.slots[0] <= request.offset /\ request.offset <= cur
    BY <1>1 DEF Intact, Contains, DeliveryInv, WalkInv, Unfinished
  <2>4. request.offset \in Nat /\ tree.root.slots[0] \in Nat
    <3>1. 0 \in 0 .. tree.nodeCount - 1
      BY <1>1 DEF WellFormed, Rooted, IsInitialized
    <3>2. tree.root.slots[0] = tree.nodes[0].entry[0].at /\ tree.nodes[0].count \in Nat \ {0}
      BY <1>1, <3>1 DEF Rooted, WellFormed
    <3>3. 0 \in 0 .. tree.nodes[0].count - 1
      BY <3>2
    <3>4. tree.nodes[0].entry[0].at \in Nat
      BY <1>1, <3>1, <3>3 DEF WellFormed
    <3>5. request.offset \in Nat
      BY SectionAssumption DEF DeliveryInv, WalkInv
    <3> QED
      BY <3>2, <3>4, <3>5
  <2> QED
    BY <1>1, <1>5, <2>2, <2>3, <2>4 DEF Contains, Size
<1>7. EntryUsable
  BY <1>1, <1>2, <1>3, <1>6, AfterIsNext DEF EntryUsable
<1>8. ASSUME NEW p \in Nat, cur <= p, p < NextOffset
      PROVE  Covers(tree, loc.node, loc.index, p)
  <2>1. ASSUME NEW l \in 0 .. tree.nodeCount - 1, NEW j \in 0 .. tree.nodes[l].count - 1,
               tree.nodes[l].entry[j].at <= p
        PROVE  l < loc.node \/ (l = loc.node /\ j <= loc.index)
    <3>1. SUFFICES ASSUME loc.node < l \/ (loc.node = l /\ loc.index < j) PROVE FALSE
      <4>1. /\ tree.nodes[l].count \in Nat /\ tree.nodeCount \in Nat
            /\ tree.nodes[loc.node].count \in Nat
        BY <1>1, <1>3 DEF WellFormed
      <4> QED
        BY <1>3, <4>1
    <3>2. HasNext(tree, loc) /\ EntryAt(tree, After).at <= tree.nodes[l].entry[j].at
      BY <1>1, <1>2, <3>1, AfterIsNext
    <3>3. tree.nodes[l].entry[j].at \in Nat
      BY <1>1 DEF WellFormed
    <3> QED
      BY <1>4, <1>8, <2>1, <3>2, <3>3
  <2>2. tree.nodes[loc.node].entry[loc.index].at <= p
    BY <1>1, <1>3, <1>8 DEF EntryAt
  <2> QED
    BY <1>3, <2>1, <2>2 DEF Covers
<1>9. NextOffset = Size \/ \E k \in 0 .. tree.nodeCount - 1 :
                             \E i \in 0 .. tree.nodes[k].count - 1 :
                               NextOffset = tree.nodes[k].entry[i].at
  <2>1. CASE HasNext(tree, loc)
    BY <1>4, <2>1 DEF EntryAt
  <2>2. CASE ~ HasNext(tree, loc)
    BY <2>2 DEF NextOffset
  <2> QED
    BY <2>1, <2>2
<1> QED
  BY <1>3, <1>5, <1>7, <1>8, <1>9

\* No check of the loop fails in an intact part.
LEMMA IntactIsUsable ==
  ASSUME DeliveryInv, Unfinished, Intact(request)
  PROVE  IF image.kind = "aesCtrEx" THEN ExUsable ELSE IndirectUsable
<1>1. /\ cur \in Nat /\ End \in Nat /\ cur < End /\ request.offset \in Nat
      /\ request.size \in Nat /\ request.offset <= cur /\ image \in Images
  BY SectionAssumption DEF Unfinished, DeliveryInv, WalkInv, End
<1>2. CASE image.kind = "aesCtrEx"
  <2>1. NextOffset % BlockSize = 0
    BY <1>2, StepIsCovered DEF Intact
  <2> QED
    BY <1>2, <2>1, StepIsCovered DEF ExUsable
<1>3. CASE image.kind # "aesCtrEx"
  <2> DEFINE entry == EntryAt(tree, loc)
             from == entry.physical + (cur - entry.at)
  <2>1. StepSize \in Nat \ {0} /\ cur + StepSize <= NextOffset /\ cur + StepSize <= End
    BY <1>1, StepIsCovered DEF StepSize
  <2>2. ASSUME NEW p \in cur .. cur + StepSize - 1
        PROVE  /\ entry.storage \in Storages /\ entry.physical \in Nat
               /\ entry.physical + (p - entry.at) < image.storageSize[entry.storage]
               /\ <<entry.storage, entry.physical + (p - entry.at)>> \notin image.missing
    <3>1. p \in Nat /\ cur <= p /\ p < NextOffset /\ p < End
      BY <1>1, <2>1, StepIsCovered
    <3>2. Covers(tree, loc.node, loc.index, p)
      BY <3>1, StepIsCovered
    <3>3. There(image, p)
      <4>1. p \in request.offset .. request.offset + request.size - 1
        BY <1>1, <3>1 DEF End
      <4> QED
        BY <4>1 DEF Intact
    <3> QED
      BY <1>3, <3>2, <3>3, StepIsCovered DEF There, EntryAt, tree
  <2>3. /\ entry.storage \in Storages /\ entry.physical \in Nat
        /\ from < image.storageSize[entry.storage]
    <3>1. cur \in cur .. cur + StepSize - 1
      BY <1>1, <2>1
    <3> QED
      BY <2>2, <3>1
  <2>4. image.storageSize[entry.storage] \in Nat
    BY <1>1, <2>3, SectionAssumption
  <2>5. entry.at \in Nat /\ entry.at <= cur
    BY StepIsCovered
  <2> HIDE DEF entry
  <2>6. entry.physical \in 0 .. image.storageSize[entry.storage] - 1
    BY <1>1, <2>3, <2>4, <2>5
  <2>7. from + StepSize <= image.storageSize[entry.storage]
    <3>1. cur + StepSize - 1 \in cur .. cur + StepSize - 1
      BY <1>1, <2>1
    <3> DEFINE last == cur + StepSize - 1
    <3>2. last \in Nat
      BY <1>1, <2>1
    <3> HIDE DEF last
    <3>3. entry.physical + (last - entry.at) < image.storageSize[entry.storage]
      BY <2>2, <3>1 DEF last
    <3>4. from + StepSize - 1 = entry.physical + (last - entry.at)
      BY <1>1, <2>1, <2>3, <2>5 DEF last
    <3> QED
      BY <1>1, <2>1, <2>3, <2>4, <2>5, <3>2, <3>3, <3>4
  <2>8. \A q \in from .. from + StepSize - 1 : <<entry.storage, q>> \notin image.missing
    <3> SUFFICES ASSUME NEW q \in from .. from + StepSize - 1
                 PROVE  <<entry.storage, q>> \notin image.missing
      OBVIOUS
    <3> DEFINE p == q - entry.physical + entry.at
    <3>1. p \in cur .. cur + StepSize - 1
      BY <1>1, <2>1, <2>3, <2>5
    <3>2. entry.physical + (p - entry.at) = q
      BY <1>1, <2>1, <2>3, <2>5
    <3> HIDE DEF p
    <3>3. <<entry.storage, entry.physical + (p - entry.at)>> \notin image.missing
      BY <2>2, <3>1
    <3> QED
      BY <3>2, <3>3
  <2>9. StorageReads(entry.storage, from, StepSize)
    BY <2>1, <2>3, <2>7, <2>8 DEF StorageReads
  <2> QED
    BY <1>3, <2>3, <2>6, <2>9, StepIsCovered DEF IndirectUsable, entry
<1> QED
  BY <1>2, <1>3

\* No intact part is refused at once.
LEMMA IntactIsAccepted ==
  ASSUME image \in Images, NEW r \in Requests, Intact(r)
  PROVE  IF image.kind = "aesCtrEx" THEN ExAccepts(r) ELSE IndirectAccepts(r)
<1>1. /\ r.offset \in Nat /\ r.size \in Nat \ {0}
      /\ r = [offset |-> r.offset, size |-> r.size]
  BY SectionAssumption DEF Requests
<1>2. /\ IsInitialized(tree) /\ Contains(tree, r.offset) /\ r.offset < Size
      /\ r.offset + r.size <= Size /\ Size \in Nat
  BY SectionAssumption DEF Intact, Rooted, Contains, Size, tree, WellFormed
<1>3. CASE image.kind = "aesCtrEx"
  <2>1. Clamped(r) = r
    BY <1>1, <1>2 DEF Clamped
  <2>2. Below(r.offset, r.size)
    <3>1. ASSUME NEW p \in r.offset .. r.offset + r.size - 1
          PROVE  p < image.storageSize[0] /\ <<0, p>> \notin image.missing
      BY <1>3 DEF Intact, There
    <3>2. image.storageSize[0] \in Nat
      BY SectionAssumption DEF Storages
    <3>3. r.offset + r.size - 1 < image.storageSize[0]
      <4>1. r.offset + r.size - 1 \in r.offset .. r.offset + r.size - 1
        BY <1>1
      <4> QED
        BY <3>1, <4>1
    <3> QED
      BY <1>1, <3>1, <3>2, <3>3 DEF Below
  <2> QED
    BY <1>2, <1>3, <2>1, <2>2 DEF ExAccepts, Intact
<1>4. CASE image.kind # "aesCtrEx"
  BY <1>2, <1>4 DEF IndirectAccepts
<1> QED
  BY <1>3, <1>4

\* The root of an intact part and where the walk of it begins.
LEMMA IntactIsRooted ==
  ASSUME image \in Images, NEW r, r.offset \in Nat, Intact(r)
  PROVE  Covers(tree, Find(tree, r.offset).node, Find(tree, r.offset).index, r.offset)
<1>1. WellFormed(tree) /\ Rooted(tree) /\ Contains(tree, r.offset)
  BY SectionAssumption DEF Intact, tree
<1> QED
  BY <1>1, FindCovers

\* The locator moves on to the entry that covers the new cursor.
LEMMA AdvanceKeepsCovers ==
  ASSUME DeliveryInv, Unfinished, NEW byte, Advance(StepSize, byte)
  PROVE  LocatorCovers'
<1>1. /\ image' = image /\ phase' = phase /\ request' = request /\ tree' = tree /\ End' = End
      /\ cur' = cur + StepSize /\ loc' = After /\ Size' = Size
  BY DEF Advance, tree, End, Size
<1> SUFFICES ASSUME cur' < End, Intact(request)
             PROVE  Covers(tree, After.node, After.index, cur')
  BY <1>1 DEF LocatorCovers, Intact
<1>2. /\ cur \in Nat /\ End \in Nat /\ cur < End /\ Size \in Nat /\ End <= Size
      /\ WellFormed(tree) /\ Rooted(tree) /\ Located(tree, loc)
  <2>1. image \in Images /\ phase = "walking" /\ cur < End
    BY DEF Unfinished, DeliveryInv, WalkInv
  <2>2. WellFormed(tree) /\ Rooted(tree)
    BY <2>1, SectionAssumption DEF Intact, tree
  <2>3. request.offset \in Nat /\ request.size \in Nat
    BY SectionAssumption DEF DeliveryInv, WalkInv
  <2>4. cur \in Nat /\ End \in Nat /\ Located(tree, loc)
    BY <2>1, <2>3 DEF DeliveryInv, WalkInv, End
  <2>5. Size \in Nat /\ End <= Size
    BY <2>2 DEF Intact, End, Size, WellFormed
  <2> QED
    BY <2>1, <2>2, <2>4, <2>5
<1>3. NextOffset \in Nat /\ cur' = NextOffset
  BY <1>1, <1>2, StepIsCovered DEF StepSize
<1>4. HasNext(tree, loc)
  BY <1>2, <1>3 DEF NextOffset
<1>5. loc # Nowhere
  BY <1>4 DEF HasNext, HasValue, Nowhere
<1>6. Located(tree, After) /\ After # Nowhere
  BY <1>2, <1>4, <1>5, AfterIsNext
<1>7. /\ After.node \in 0 .. tree.nodeCount - 1
      /\ After.index \in 0 .. tree.nodes[After.node].count - 1
      /\ NextOffset = tree.nodes[After.node].entry[After.index].at
  BY <1>4, <1>6 DEF Located, NextOffset, EntryAt
<1>8. ASSUME NEW l \in 0 .. tree.nodeCount - 1, NEW j \in 0 .. tree.nodes[l].count - 1,
             tree.nodes[l].entry[j].at <= NextOffset
      PROVE  l < After.node \/ (l = After.node /\ j <= After.index)
  <2>1. SUFFICES ASSUME After.node < l \/ (After.node = l /\ After.index < j) PROVE FALSE
    <3>1. /\ tree.nodes[l].count \in Nat /\ tree.nodeCount \in Nat
          /\ tree.nodes[After.node].count \in Nat
      BY <1>2, <1>7 DEF WellFormed
    <3> QED
      BY <1>7, <3>1
  <2>2. NextOffset < tree.nodes[l].entry[j].at /\ tree.nodes[l].entry[j].at \in Nat
    BY <1>2, <1>7, <2>1 DEF WellFormed
  <2> QED
    BY <1>3, <1>8, <2>2
<1> QED
  BY <1>3, <1>7, <1>8 DEF Covers

\* Every step keeps the locator at the entry that covers the cursor.
LEMMA DeliveryStep ==
  ASSUME DeliveryInv, [Next]_vars
  PROVE  DeliveryInv'
<1>1. WalkInv'
  BY WalkStep, SectionAssumption DEF DeliveryInv
<1>2. image \in Images
  BY DEF DeliveryInv, WalkInv
<1>3. ASSUME NEW r, r.offset \in Nat, StartWalk(r)
      PROVE  LocatorCovers'
  <2>1. /\ image' = image /\ request' = r /\ tree' = tree /\ Size' = Size /\ cur' = r.offset
        /\ loc' = Find(tree, r.offset)
    BY <1>3 DEF StartWalk, tree, Size
  <2>2. Intact(request)' => Intact(r)
    BY <2>1 DEF Intact
  <2> QED
    BY <1>2, <1>3, <2>1, <2>2, IntactIsRooted DEF LocatorCovers
<1>4. ASSUME phase' # "walking" PROVE LocatorCovers'
  BY <1>4 DEF LocatorCovers
<1>5. ASSUME NEW r \in Requests, BeginEx(r) \/ BeginIndirect(r) \/ Refuse(r)
      PROVE  LocatorCovers'
  <2>1. r.offset \in Nat /\ Clamped(r).offset = r.offset
    BY SectionAssumption DEF Requests, Clamped
  <2>2. StartWalk(Clamped(r)) \/ StartWalk(r) \/ phase' = "returned"
    BY <1>5 DEF BeginEx, BeginIndirect, Refuse, Fail
  <2> QED
    BY <1>3, <1>4, <2>1, <2>2
<1>6. ASSUME CopyEx \/ CopyIndirect PROVE LocatorCovers'
  BY <1>6, AdvanceKeepsCovers DEF CopyEx, CopyIndirect
<1>7. ASSUME DecryptFails \/ Stop \/ Return \/ Done PROVE LocatorCovers'
  BY <1>4, <1>7 DEF DecryptFails, Stop, Return, Done, Fail
<1>8. ASSUME UNCHANGED vars PROVE LocatorCovers'
  <2>1. /\ UNCHANGED <<image, phase, request, loc, cur>>
        /\ tree' = tree /\ End' = End /\ Size' = Size
    BY <1>8 DEF vars, tree, End, Size
  <2>2. Intact(request)' => Intact(request)
    BY <2>1 DEF Intact
  <2> QED
    BY <2>1, <2>2 DEF DeliveryInv, LocatorCovers
<1>9. LocatorCovers'
  BY <1>5, <1>6, <1>7, <1>8 DEF Next, Walk
<1> QED
  BY <1>1, <1>9 DEF DeliveryInv

\* The invariant of a walk through an intact part.
THEOREM WalkLocatorCovers == Spec => []DeliveryInv
<1>1. Init => DeliveryInv
  BY WalkInit, SectionAssumption DEF Init, DeliveryInv, LocatorCovers
<1>2. DeliveryInv /\ [Next]_vars => DeliveryInv'
  BY DeliveryStep
<1> QED
  BY <1>1, <1>2, PTL DEF Spec

\* In a table of one level of offsets, of any size, no check turns away a request
\* that lies in the section, is aligned and wants only bytes that are there, at the
\* beginning or in any round of the walk: findEntry leads to the entry that covers
\* its first byte, and the locator to each next one.
THEOREM WalkDeliversIntact == Spec => IntactIsDelivered
<1> DEFINE Turned == (\E r \in Requests : Refuse(r)) \/ Stop => ~ Intact(request')
<1>1. ASSUME DeliveryInv, Next PROVE Turned
  <2>1. image \in Images
    BY <1>1 DEF DeliveryInv, WalkInv
  <2>2. ASSUME NEW r \in Requests, Refuse(r) PROVE ~ Intact(request')
    BY <2>1, <2>2, IntactIsAccepted DEF Refuse
  <2>3. ASSUME Stop PROVE ~ Intact(request')
    BY <1>1, <2>3, IntactIsUsable DEF Stop
  <2> QED
    BY <2>2, <2>3
<1>2. DeliveryInv /\ [Next]_vars => [Turned]_vars
  BY <1>1
<1> QED
  BY <1>2, WalkLocatorCovers, PTL DEF Spec, IntactIsDelivered
=============================================================================
