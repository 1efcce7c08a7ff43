----------------------------- MODULE RomFsProofs -----------------------------
(***************************************************************************)
(* Proofs about a RomFS: RomFs for tables of any size, intact or damaged,  *)
(* and, at the end, RomFileTable, its lookup cache, for any number of      *)
(* threads, any cache size and any table.                                  *)
(*                                                                         *)
(* RomFs.  Follow and Descent are recursive functions; LoopRuns, which     *)
(* rests on the least number for which a claim would fail, gives them      *)
(* their values (FollowRuns, DescentRuns).  What is found along a chain is *)
(* the one entry with its parent and name (FindExact), so that chains and  *)
(* lists tell the same tree.  What is listed behind an entry is the rest   *)
(* of what is listed from the head (TailListed), so that a page which is   *)
(* resumed from the name of an entry goes on behind it (PagesInv).         *)
(*                                                                         *)
(* RomFileTable.  The invariant adds two facts to the cache's own:         *)
(* whatever the cache holds for a path is the position of that path, and a *)
(* thread past the walk carries the position of its own path.              *)
(***************************************************************************)
EXTENDS RomFs, RomFileTable, LruCacheProofs, FiniteSetTheorems, WellFoundedInduction

\* A set of numbers has a least one: what stands for induction below.
LEMMA LeastOfSet ==
  ASSUME NEW T \in SUBSET Nat, T # {}
  PROVE  \E x \in T : \A y \in T : x <= y
<1>1. PICK x \in T : \A y \in T : ~ (<<y, x>> \in OpToRel(<, Nat))
  BY NatLessThanWellFounded, WFMin
<1>2. ASSUME NEW y \in T PROVE ~ (y < x)
  BY <1>1 DEF OpToRel
<1>3. \A y \in T : x <= y
  BY <1>2
<1> QED
  BY <1>3

\* What holds before a loop and is kept by every round holds after each.
LEMMA LoopKeeps ==
  ASSUME NEW n \in Nat, NEW good,
         0 \in good, \A j \in 1 .. n : j - 1 \in good => j \in good
  PROVE  \A j \in 0 .. n : j \in good
<1> DEFINE Bad == {j \in 0 .. n : j \notin good}
<1>1. SUFFICES ASSUME Bad # {} PROVE FALSE
  OBVIOUS
<1>2. PICK j \in Bad : \A i \in Bad : j <= i
  <2>1. Bad \in SUBSET Nat
    OBVIOUS
  <2> HIDE DEF Bad
  <2> QED
    BY <1>1, <2>1, LeastOfSet
<1>3. j # 0 /\ j \in 1 .. n
  OBVIOUS
<1>4. j - 1 \in 0 .. n /\ ~ (j <= j - 1)
  BY <1>3
<1>5. j - 1 \in good
  BY <1>2, <1>4
<1> QED
  BY <1>3, <1>5

\* The course f[0], .., f[n] of a loop.
IsCourse(f, n, start, step) ==
  f = [j \in 0 .. n |-> IF j = 0 THEN start ELSE step[j][f[j - 1]]]

\* A loop whose rounds lead from one set of states to the next has a course:
\* the recursive functions of RomFs stand for what they seem to.
LEMMA LoopRuns ==
  ASSUME NEW n \in Nat, NEW D, NEW start \in D[0], NEW step,
         \A j \in 1 .. n : \A d \in D[j - 1] : step[j][d] \in D[j]
  PROVE  \E f : IsCourse(f, n, start, step) /\ \A j \in 0 .. n : f[j] \in D[j]
<1> DEFINE Course(m, f) ==
             /\ f = [j \in 0 .. m |-> f[j]]
             /\ \A j \in 0 .. m : f[j] \in D[j]
             /\ \A j \in 0 .. m : f[j] = IF j = 0 THEN start ELSE step[j][f[j - 1]]
           good == {m \in 0 .. n : \E f : Course(m, f)}
<1>1. 0 \in good
  <2> DEFINE f == [j \in 0 .. 0 |-> start]
  <2>1. Course(0, f)
    OBVIOUS
  <2>2. \E h : Course(0, h)
    <3> HIDE DEF Course, f
    <3> QED
      BY <2>1
  <2> QED
    BY <2>2
<1>2. ASSUME NEW m \in 1 .. n, m - 1 \in good PROVE m \in good
  <2>1. PICK f : Course(m - 1, f)
    BY <1>2
  <2> DEFINE g == [j \in 0 .. m |-> IF j = m THEN step[m][f[m - 1]] ELSE f[j]]
  <2>2. m - 1 \in 0 .. m - 1 /\ m \in 1 .. n
    OBVIOUS
  <2>3. f[m - 1] \in D[m - 1]
    BY <2>1, <2>2
  <2>4. step[m][f[m - 1]] \in D[m]
    BY <2>2, <2>3
  <2>5. \A j \in 0 .. m : g[j] \in D[j]
    <3>1. SUFFICES ASSUME NEW j \in 0 .. m, j # m PROVE f[j] \in D[j]
      BY <2>4
    <3> QED
      BY <2>1, <3>1
  <2>6. \A j \in 0 .. m : g[j] = IF j = 0 THEN start ELSE step[j][g[j - 1]]
    <3>1. SUFFICES ASSUME NEW j \in 0 .. m
                   PROVE  g[j] = IF j = 0 THEN start ELSE step[j][g[j - 1]]
      OBVIOUS
    <3>2. CASE j = m
      <4>1. g[m] = step[m][f[m - 1]]
        OBVIOUS
      <4>2. g[m - 1] = f[m - 1] /\ m # 0
        OBVIOUS
      <4> HIDE DEF g
      <4> QED
        BY <3>2, <4>1, <4>2
    <3>3. CASE j # m
      <4>1. j \in 0 .. m - 1
        BY <3>3
      <4>2. g[j] = f[j] /\ (j # 0 => g[j - 1] = f[j - 1])
        BY <3>3
      <4>3. f[j] = IF j = 0 THEN start ELSE step[j][f[j - 1]]
        BY <2>1, <4>1
      <4> HIDE DEF g
      <4> QED
        BY <4>2, <4>3
    <3> QED
      BY <3>2, <3>3
  <2>7. Course(m, g)
    <3>1. g = [j \in 0 .. m |-> g[j]]
      OBVIOUS
    <3> HIDE DEF g
    <3> QED
      BY <2>5, <2>6, <3>1
  <2>8. \E h : Course(m, h)
    <3> HIDE DEF Course, g
    <3> QED
      BY <2>7
  <2>9. m \in 0 .. n
    OBVIOUS
  <2> HIDE DEF Course
  <2> QED
    BY <2>8, <2>9
<1>3. \A m \in 0 .. n : m \in good
  <2> HIDE DEF good
  <2> QED
    BY <1>1, <1>2, LoopKeeps
<1>4. PICK f : Course(n, f)
  <2>1. n \in good
    BY <1>3
  <2> HIDE DEF Course
  <2> QED
    BY <2>1
<1>5. f = [j \in 0 .. n |-> IF j = 0 THEN start ELSE step[j][f[j - 1]]]
  BY <1>4
<1>6. IsCourse(f, n, start, step)
  BY <1>5, Zenon DEF IsCourse
<1> QED
  BY <1>4, <1>6

-----------------------------------------------------------------------------
\* The course of a walk: Follow stands for what it seems to.
LEMMA FollowRuns ==
  ASSUME NEW next, IsFiniteSet(DOMAIN next), NEW first
  PROVE  LET at == Follow(next, first)
             n == Cardinality(DOMAIN next)
         IN /\ n \in Nat /\ DOMAIN at = 0 .. n /\ at[0] = first
            /\ \A i \in 1 .. n : at[i] = IF at[i - 1] \in DOMAIN next THEN next[at[i - 1]] ELSE End
<1> DEFINE n == Cardinality(DOMAIN next)
           V == {first, End} \cup {next[p] : p \in DOMAIN next}
           step == [i \in 1 .. n |-> [v \in V |-> IF v \in DOMAIN next THEN next[v] ELSE End]]
           D == [i \in 0 .. n |-> V]
           g == Follow(next, first)
<1>1. n \in Nat
  BY FS_CardinalityType
<1>2. first \in D[0]
  BY <1>1
<1>3. \A i \in 1 .. n : \A d \in D[i - 1] : step[i][d] \in D[i]
  BY <1>1
<1>4. PICK f : IsCourse(f, n, first, step) /\ \A j \in 0 .. n : f[j] \in D[j]
  <2> HIDE DEF n, D, step
  <2> QED
    BY <1>1, <1>2, <1>3, LoopRuns
<1>5. \A i \in 1 .. n : step[i][f[i - 1]] = IF f[i - 1] \in DOMAIN next THEN next[f[i - 1]] ELSE End
  <2>1. \A i \in 1 .. n : f[i - 1] \in V
    BY <1>1, <1>4
  <2> QED
    BY <2>1
<1>6. f = [i \in 0 .. n |->
             IF i = 0 THEN first ELSE IF f[i - 1] \in DOMAIN next THEN next[f[i - 1]] ELSE End]
  <2> HIDE DEF n, D, step
  <2> QED
    BY <1>1, <1>4, <1>5 DEF IsCourse
<1>7. g = [i \in 0 .. n |->
             IF i = 0 THEN first ELSE IF g[i - 1] \in DOMAIN next THEN next[g[i - 1]] ELSE End]
  <2> HIDE DEF V, D, step
  <2>1. \E h : h = [i \in 0 .. n |->
             IF i = 0 THEN first ELSE IF h[i - 1] \in DOMAIN next THEN next[h[i - 1]] ELSE End]
    BY <1>6
  <2> QED
    BY <2>1, Zenon DEF Follow
<1> HIDE DEF n, g
<1>8. DOMAIN g = 0 .. n /\ g[0] = first
  BY <1>1, <1>7
<1>9. \A i \in 1 .. n : g[i] = IF g[i - 1] \in DOMAIN next THEN next[g[i - 1]] ELSE End
  BY <1>1, <1>7
<1> QED
  BY <1>1, <1>8, <1>9 DEF n, g

LEMMA FirstEndIsLeast ==
  ASSUME NEW ends \in SUBSET Nat
  PROVE  /\ FirstEnd(ends) = Loops <=> ends = {}
         /\ ends # {} => FirstEnd(ends) \in ends /\ \A i \in ends : FirstEnd(ends) <= i
<1>1. CASE ends = {}
  BY <1>1 DEF FirstEnd
<1>2. CASE ends # {}
  <2>1. \E x \in ends : \A y \in ends : x <= y
    BY <1>2, LeastOfSet
  <2>2. FirstEnd(ends) = CHOOSE x \in ends : \A y \in ends : x <= y
    BY <1>2 DEF FirstEnd
  <2>3. FirstEnd(ends) \in ends /\ \A i \in ends : FirstEnd(ends) <= i
    BY <2>1, <2>2
  <2>4. FirstEnd(ends) # Loops
    BY <2>3 DEF Loops
  <2> QED
    BY <1>2, <2>3, <2>4
<1> QED
  BY <1>1, <1>2

\* What the assumption says of one image.
LEMMA ImageFacts ==
  ASSUME NEW m \in Images
  PROVE  /\ IsTable(m.dirs) /\ IsTable(m.files)
         /\ IsFiniteSet(DOMAIN m.dirs) /\ DOMAIN m.dirs \subseteq Nat
         /\ IsFiniteSet(DOMAIN m.files) /\ DOMAIN m.files \subseteq Nat
  BY RomFsAssumption DEF IsTable

LEMMA ChainRuns ==
  ASSUME NEW table, IsTable(table), NEW first
  PROVE  LET at == Follow(Chains(table), first)
             n == Cardinality(DOMAIN table)
         IN /\ n \in Nat /\ DOMAIN at = 0 .. n /\ at[0] = first
            /\ \A i \in 1 .. n : at[i] = IF at[i - 1] \in DOMAIN table
                                         THEN table[at[i - 1]].chain ELSE End
<1> DEFINE next == Chains(table)
<1>1. DOMAIN next = DOMAIN table /\ \A q \in DOMAIN table : next[q] = table[q].chain
  BY DEF Chains
<1>2. IsFiniteSet(DOMAIN next)
  BY <1>1 DEF IsTable
<1> HIDE DEF next
<1> QED
  BY <1>1, <1>2, FollowRuns DEF next

LEMMA SiblingsRun ==
  ASSUME NEW table, IsTable(table), NEW first
  PROVE  LET at == Follow(SiblingsIn(table), first)
             n == Cardinality(DOMAIN table)
         IN /\ n \in Nat /\ DOMAIN at = 0 .. n /\ at[0] = first
            /\ \A i \in 1 .. n : at[i] = IF at[i - 1] \in DOMAIN table
                                         THEN table[at[i - 1]].sibling ELSE End
<1> DEFINE next == SiblingsIn(table)
<1>1. DOMAIN next = DOMAIN table /\ \A q \in DOMAIN table : next[q] = table[q].sibling
  BY DEF SiblingsIn
<1>2. IsFiniteSet(DOMAIN next)
  BY <1>1 DEF IsTable
<1> HIDE DEF next
<1> QED
  BY <1>1, <1>2, FollowRuns DEF next

\* What is found is an entry with that parent and that name.
LEMMA FindSound ==
  ASSUME NEW table, IsTable(table), NEW buckets, NEW parent, NEW name
  PROVE  LET found == Find(table, buckets, parent, name)
         IN \/ found \in {None, Loops}
            \/ /\ found \in DOMAIN table /\ Len(name) \in 1 .. MaxPath
               /\ table[found].parent = parent /\ table[found].name = name
<1> DEFINE at == BucketOf(table, buckets, parent, name)
           Usable(i) == at[i] \in DOMAIN table /\ Len(table[at[i]].name) \in 1 .. MaxPath
           Matches(i) == table[at[i]].parent = parent /\ table[at[i]].name = name
           last == FirstEnd({i \in DOMAIN at :
                               ~ Usable(i) \/ Matches(i) \/ at[i] = table[at[i]].chain})
<1>1. Find(table, buckets, parent, name)
        = IF last = Loops THEN Loops
          ELSE IF Usable(last) /\ Matches(last) THEN at[last] ELSE None
  BY DEF Find, Found
<1> HIDE DEF at, last
<1> QED
  BY <1>1

\* A lookup that comes to no end has run around a circle.
LEMMA FindEnds ==
  ASSUME NEW table, IsTable(table), NEW buckets \in Seq(Int), buckets # <<>>,
         NEW parent, NEW name, CalcHash(parent, name) \in Nat,
         Find(table, buckets, parent, name) = Loops
  PROVE  \E i \in DOMAIN buckets : IsCircle(table, buckets[i])
<1> DEFINE b == (CalcHash(parent, name) % Len(buckets)) + 1
           at == Follow(Chains(table), buckets[b])
           n == Cardinality(DOMAIN table)
           Usable(i) == at[i] \in DOMAIN table /\ Len(table[at[i]].name) \in 1 .. MaxPath
           Matches(i) == table[at[i]].parent = parent /\ table[at[i]].name = name
           ends == {i \in DOMAIN at : ~ Usable(i) \/ Matches(i) \/ at[i] = table[at[i]].chain}
           last == FirstEnd(ends)
           stops == {i \in DOMAIN at : at[i] \notin DOMAIN table \/ at[i] = table[at[i]].chain}
<1>1. b \in DOMAIN buckets
  <2>1. Len(buckets) \in Nat \ {0}
    BY EmptySeq, LenProperties
  <2> QED
    BY <2>1
<1>2. Find(table, buckets, parent, name)
        = IF last = Loops THEN Loops
          ELSE IF Usable(last) /\ Matches(last) THEN at[last] ELSE None
  BY DEF Find, Found, BucketOf
<1>3. n \in Nat /\ DOMAIN at = 0 .. n
  BY ChainRuns
<1> HIDE DEF b, at, n
<1>4. ends \in SUBSET Nat /\ stops \subseteq ends
  BY <1>3
<1> HIDE DEF ends
<1>5. last = Loops
  <2>1. Loops \notin DOMAIN table /\ Loops # None
    BY DEF IsTable, Loops, None
  <2> QED
    BY <1>2, <2>1 DEF last
<1>6. ends = {}
  BY <1>4, <1>5, FirstEndIsLeast DEF last
<1>7. FirstEnd(stops) = Loops
  <2>1. stops = {}
    BY <1>4, <1>6
  <2> QED
    BY <2>1 DEF FirstEnd
<1>8. IsCircle(table, buckets[b])
  BY <1>7 DEF IsCircle, at
<1> QED
  BY <1>1, <1>8

\* The course of a descent.
LEMMA DescentRuns ==
  ASSUME NEW m \in Images, NEW S, NEW p \in Seq(S)
  PROVE  LET at == Descent(m, p)
         IN /\ DOMAIN at = 0 .. Len(p) /\ at[0] = 0
            /\ \A k \in 1 .. Len(p) : at[k] = FindIn(m.dirs, m.dirBuckets, at[k - 1], p[k])
            /\ \A k \in 0 .. Len(p) : at[k] \in DOMAIN m.dirs \cup {0, None, Loops}
<1> DEFINE n == Len(p)
           V == DOMAIN m.dirs \cup {0, None, Loops}
           Down(k, v) == FindIn(m.dirs, m.dirBuckets, v, p[k])
           step == [k \in 1 .. n |-> [v \in V |-> Down(k, v)]]
           D == [k \in 0 .. n |-> V]
           g == Descent(m, p)
<1>1. n \in Nat
  BY LenProperties
<1>2. 0 \in D[0]
  BY <1>1
<1>3. ASSUME NEW k \in 1 .. n, NEW v \in V PROVE Down(k, v) \in V
  <2>1. IsTable(m.dirs)
    BY ImageFacts
  <2>2. Find(m.dirs, m.dirBuckets, v, p[k]) \in DOMAIN m.dirs \cup {None, Loops}
    BY <2>1, FindSound
  <2> QED
    BY <2>2 DEF FindIn
<1>4. \A k \in 1 .. n : \A d \in D[k - 1] : step[k][d] \in D[k]
  <2>1. SUFFICES ASSUME NEW k \in 1 .. n, NEW d \in D[k - 1] PROVE step[k][d] \in D[k]
    OBVIOUS
  <2>2. d \in V /\ D[k] = V
    BY <1>1
  <2>3. step[k][d] = Down(k, d)
    BY <2>2
  <2> HIDE DEF V, Down, D, step
  <2> QED
    BY <1>3, <2>2, <2>3
<1>5. PICK f : IsCourse(f, n, 0, step) /\ \A k \in 0 .. n : f[k] \in D[k]
  <2> HIDE DEF n, D, step
  <2> QED
    BY <1>1, <1>2, <1>4, LoopRuns
<1>6. \A k \in 0 .. n : f[k] \in V
  BY <1>5
<1>7. \A k \in 1 .. n : step[k][f[k - 1]] = Down(k, f[k - 1])
  <2>1. \A k \in 1 .. n : f[k - 1] \in V
    BY <1>1, <1>6
  <2> HIDE DEF V, Down
  <2> QED
    BY <2>1
<1>8. f = [k \in 0 .. n |-> IF k = 0 THEN 0 ELSE Down(k, f[k - 1])]
  <2> HIDE DEF n, D, step, Down
  <2> QED
    BY <1>1, <1>5, <1>7 DEF IsCourse
<1>9. g = [k \in 0 .. n |-> IF k = 0 THEN 0 ELSE Down(k, g[k - 1])]
  <2>1. \E h : h = [k \in 0 .. n |-> IF k = 0 THEN 0 ELSE Down(k, h[k - 1])]
    BY <1>8, Zenon
  <2> QED
    BY <2>1, Zenon DEF Descent
<1> HIDE DEF g, V, Down, n
<1>10. DOMAIN g = 0 .. n /\ g[0] = 0
  BY <1>1, <1>9
<1>11. \A k \in 1 .. n : g[k] = Down(k, g[k - 1])
  BY <1>1, <1>9
<1>12. \A k \in 0 .. n : g[k] \in V
  <2> DEFINE good == {k \in 0 .. n : g[k] \in V}
  <2>1. 0 \in good
    BY <1>1, <1>10 DEF V
  <2>2. \A k \in 1 .. n : k - 1 \in good => k \in good
    BY <1>1, <1>3, <1>11
  <2>3. \A k \in 0 .. n : k \in good
    <3> HIDE DEF good
    <3> QED
      BY <1>1, <2>1, <2>2, LoopKeeps
  <2> QED
    BY <2>3
<1> QED
  BY <1>10, <1>11, <1>12 DEF g, V, Down, n

\* The home of a path is where the descent of it ends.
LEMMA HomeOfPath ==
  ASSUME NEW m \in Images, NEW S, NEW p \in Seq(S)
  PROVE  /\ Home(m, p) = Descent(m, p)[Len(p)]
         /\ Home(m, p) \in DOMAIN m.dirs \cup {0, None, Loops}
<1>1. Len(p) \in Nat /\ (p = Root <=> Len(p) = 0)
  BY LenProperties, EmptySeq DEF Root
<1>2. Home(m, p) = Descent(m, p)[Len(p)]
  BY <1>1, DescentRuns DEF Home, FindDirectory
<1>3. Descent(m, p)[Len(p)] \in DOMAIN m.dirs \cup {0, None, Loops}
  BY <1>1, DescentRuns
<1> QED
  BY <1>2, <1>3

\* What is below a path is looked for in its home.
LEMMA ChildLookup ==
  ASSUME NEW m \in Images, NEW S, NEW p \in Seq(S), NEW name
  PROVE  /\ Append(p, name) # Root
         /\ FindDirectory(m, Append(p, name)) = FindIn(m.dirs, m.dirBuckets, Home(m, p), name)
         /\ FindFile(m, Append(p, name)) = FindIn(m.files, m.fileBuckets, Home(m, p), name)
<1> DEFINE c == Append(p, name)
           n == Len(p)
           f == Descent(m, p)
           g == Descent(m, c)
           good == {k \in 0 .. n : g[k] = f[k]}
<1>1. n \in Nat /\ p \in Seq(S \cup {name}) /\ c \in Seq(S \cup {name}) /\ Len(c) = n + 1
      /\ c[n + 1] = name /\ \A k \in 1 .. n : c[k] = p[k]
  OBVIOUS
<1> HIDE DEF c
<1>2. /\ f[0] = 0
      /\ \A k \in 1 .. n : f[k] = FindIn(m.dirs, m.dirBuckets, f[k - 1], p[k])
  BY DescentRuns
<1>3. /\ g[0] = 0
      /\ \A k \in 1 .. n + 1 : g[k] = FindIn(m.dirs, m.dirBuckets, g[k - 1], c[k])
  <2>1. /\ g[0] = 0
        /\ \A k \in 1 .. Len(c) : g[k] = FindIn(m.dirs, m.dirBuckets, g[k - 1], c[k])
    BY <1>1, DescentRuns
  <2> QED
    BY <1>1, <2>1
<1> HIDE DEF f, g, n
<1>4. g[n] = f[n]
  <2>1. 0 \in good
    BY <1>1, <1>2, <1>3
  <2>2. \A k \in 1 .. n : k - 1 \in good => k \in good
    <3>1. SUFFICES ASSUME NEW k \in 1 .. n, g[k - 1] = f[k - 1] PROVE g[k] = f[k]
      BY <1>1
    <3>2. k \in 1 .. n + 1 /\ c[k] = p[k]
      BY <1>1
    <3> QED
      BY <1>2, <1>3, <3>1, <3>2
  <2>3. \A k \in 0 .. n : k \in good
    <3> HIDE DEF good
    <3> QED
      BY <1>1, <2>1, <2>2, LoopKeeps
  <2> QED
    BY <1>1, <2>3
<1>5. f[n] = Home(m, p)
  BY HomeOfPath DEF f, n
<1>6. c # Root
  BY <1>1 DEF Root
<1>7. FindDirectory(m, c) = FindIn(m.dirs, m.dirBuckets, Home(m, p), name)
  <2>1. FindDirectory(m, c) = g[n + 1]
    BY <1>1, <1>6 DEF FindDirectory, g
  <2>2. g[n + 1] = FindIn(m.dirs, m.dirBuckets, g[n + 1 - 1], c[n + 1])
    BY <1>1, <1>3
  <2>3. n + 1 - 1 = n
    BY <1>1
  <2> QED
    BY <1>1, <1>4, <1>5, <2>1, <2>2, <2>3
<1>8. FindFile(m, c) = FindIn(m.files, m.fileBuckets, Home(m, p), name)
  <2>1. FindFile(m, c) = FindIn(m.files, m.fileBuckets, g[Len(c) - 1], c[Len(c)])
    BY <1>6 DEF FindFile, g
  <2>2. Len(c) - 1 = n
    BY <1>1
  <2> QED
    BY <1>1, <1>4, <1>5, <2>1, <2>2
<1> QED
  BY <1>6, <1>7, <1>8 DEF c

\* The walk along a list, and how far it can be read.
Way(table, first) == Follow(SiblingsIn(table), first)
Reach(table, first) == LengthOf(table, Way(table, first))

LEMMA ReachFacts ==
  ASSUME NEW table, IsTable(table), NEW first
  PROVE  LET at == Way(table, first)
             n == Reach(table, first)
         IN /\ n = Loops => \A i \in DOMAIN at : at[i] \in DOMAIN table
            /\ n # Loops => /\ n \in 0 .. Cardinality(DOMAIN table) /\ at[n] \notin DOMAIN table
                            /\ \A i \in 0 .. n - 1 : at[i] \in DOMAIN table
<1> DEFINE at == Way(table, first)
           n == Reach(table, first)
           last == Cardinality(DOMAIN table)
           ends == {i \in DOMAIN at : at[i] \notin DOMAIN table}
<1>1. last \in Nat /\ DOMAIN at = 0 .. last
  BY SiblingsRun DEF Way
<1>2. n = FirstEnd(ends)
  BY DEF Reach, LengthOf
<1> HIDE DEF at, n, last
<1>3. ends \in SUBSET Nat
  BY <1>1
<1>4. n = Loops => ends = {}
  <2> HIDE DEF ends
  <2> QED
    BY <1>2, <1>3, FirstEndIsLeast
<1>5. n # Loops => n \in ends /\ \A i \in ends : n <= i
  <2> HIDE DEF ends
  <2> QED
    BY <1>2, <1>3, FirstEndIsLeast
<1>6. ASSUME n # Loops
      PROVE  /\ n \in 0 .. last /\ at[n] \notin DOMAIN table
             /\ \A i \in 0 .. n - 1 : at[i] \in DOMAIN table
  <2>1. n \in 0 .. last /\ at[n] \notin DOMAIN table
    BY <1>1, <1>5, <1>6
  <2>2. ASSUME NEW i \in 0 .. n - 1, at[i] \notin DOMAIN table PROVE FALSE
    <3>1. i \in ends /\ ~ (n <= i)
      BY <1>1, <2>1, <2>2
    <3> QED
      BY <1>5, <1>6, <3>1
  <2> QED
    BY <2>1, <2>2
<1>7. n = Loops => \A i \in DOMAIN at : at[i] \in DOMAIN table
  BY <1>4
<1> QED
  BY <1>6, <1>7 DEF at, n, last

LEMMA FunctionIsSeq ==
  ASSUME NEW S, NEW n \in Nat, NEW f \in [1 .. n -> S]
  PROVE  f \in Seq(S) /\ Len(f) = n
  OBVIOUS

\* What is listed from a position on.
LEMMA SiblingsFacts ==
  ASSUME NEW table, IsTable(table), NEW first, NEW type
  PROVE  LET at == Way(table, first)
             n == Reach(table, first)
             list == Siblings(table, first, type)
         IN /\ list.entries \in Seq([name : ListedNames(table), type : {type}])
            /\ list.outcome \in {"loops", "ends", "breaks"}
            /\ list.outcome = "loops" <=> n = Loops
            /\ n # Loops => /\ Len(list.entries) = n
                            /\ \A i \in 1 .. n : list.entries[i] =
                                 [name |-> Listed(table[at[i - 1]].name), type |-> type]
                            /\ list.outcome = "ends" <=> at[n] = End
<1> DEFINE at == Way(table, first)
           n == Reach(table, first)
           list == Siblings(table, first, type)
           m == IF n = Loops THEN 0 ELSE n
<1>1. /\ list.entries = [i \in 1 .. m |->
                           [name |-> Listed(table[at[i - 1]].name), type |-> type]]
      /\ list.outcome = IF n = Loops THEN "loops" ELSE IF at[n] = End THEN "ends" ELSE "breaks"
  BY DEF Siblings, List, Way, Reach
<1>2. n # Loops => n \in Nat /\ \A i \in 0 .. n - 1 : at[i] \in DOMAIN table
  BY ReachFacts
<1> HIDE DEF at, n, list
<1>3. m \in Nat /\ \A i \in 1 .. m : at[i - 1] \in DOMAIN table
  BY <1>2
<1>4. \A i \in 1 .. m : [name |-> Listed(table[at[i - 1]].name), type |-> type]
                          \in [name : ListedNames(table), type : {type}]
  BY <1>3 DEF ListedNames
<1> HIDE DEF m
<1>5. list.entries \in [1 .. m -> [name : ListedNames(table), type : {type}]]
  BY <1>1, <1>4
<1>6. list.entries \in Seq([name : ListedNames(table), type : {type}]) /\ Len(list.entries) = m
  <2> DEFINE S == [name : ListedNames(table), type : {type}]
  <2>1. list.entries \in Seq(S)
    <3> HIDE DEF S
    <3> QED
      BY <1>3, <1>5, FunctionIsSeq DEF S
  <2>2. DOMAIN list.entries = 1 .. m
    BY <1>5
  <2> QED
    BY <1>3, <2>1, <2>2, LenProperties
<1>7. n # Loops => m = n
  BY DEF m
<1>8. \A i \in 1 .. m : list.entries[i] = [name |-> Listed(table[at[i - 1]].name), type |-> type]
  BY <1>1
<1>9. /\ list.outcome \in {"loops", "ends", "breaks"}
      /\ list.outcome = "loops" <=> n = Loops
      /\ n # Loops => (list.outcome = "ends" <=> at[n] = End)
  BY <1>1
<1> QED
  BY <1>6, <1>7, <1>8, <1>9 DEF at, n, list

LEMMA OutcomeFacts ==
  ASSUME NEW table, IsTable(table), NEW first, NEW type
  PROVE  Siblings(table, first, type).outcome = "loops" <=> Reach(table, first) = Loops
  BY SiblingsFacts

LEMMA EntryFacts ==
  ASSUME NEW table, IsTable(table), NEW first, NEW type, Reach(table, first) # Loops
  PROVE  /\ Len(Siblings(table, first, type).entries) = Reach(table, first)
         /\ \A i \in 1 .. Reach(table, first) :
              Siblings(table, first, type).entries[i]
                = [name |-> Listed(table[Way(table, first)[i - 1]].name), type |-> type]
         /\ Siblings(table, first, type).outcome = "ends" <=>
              Way(table, first)[Reach(table, first)] = End
  BY SiblingsFacts

\* The positions that are listed.
LEMMA ListFromFacts ==
  ASSUME NEW table, IsTable(table), NEW first, Reach(table, first) # Loops
  PROVE  ListFrom(table, first) = {Way(table, first)[i] : i \in 0 .. Reach(table, first) - 1}
<1> DEFINE at == Way(table, first)
           n == Reach(table, first)
           last == Cardinality(DOMAIN table)
<1>1. last \in Nat /\ DOMAIN at = 0 .. last
  BY SiblingsRun DEF Way
<1>2. n \in 0 .. last
  BY ReachFacts
<1>3. ListFrom(table, first) = {at[i] : i \in {j \in DOMAIN at : n = Loops \/ j < n}}
  BY DEF ListFrom, Way, Reach
<1> HIDE DEF at, n, last
<1>4. n # Loops
  BY DEF n
<1>5. {j \in DOMAIN at : n = Loops \/ j < n} = 0 .. n - 1
  BY <1>1, <1>2, <1>4
<1> QED
  BY <1>3, <1>5 DEF at, n

-----------------------------------------------------------------------------
EntriesOf(m) == [name : NamesOf(m), type : {"directory", "file"}]

LEMMA ListsAreEntries ==
  ASSUME NEW m \in Images, NEW d
  PROVE  /\ Siblings(m.dirs, d.dir, "directory").entries \in Seq(EntriesOf(m))
         /\ Siblings(m.files, d.file, "file").entries \in Seq(EntriesOf(m))
<1>1. IsTable(m.dirs) /\ IsTable(m.files)
  BY ImageFacts
<1> DEFINE Ds == [name : ListedNames(m.dirs), type : {"directory"}]
           Fs == [name : ListedNames(m.files), type : {"file"}]
<1>2. /\ Siblings(m.dirs, d.dir, "directory").entries \in Seq(Ds)
      /\ Siblings(m.files, d.file, "file").entries \in Seq(Fs)
  BY <1>1, SiblingsFacts
<1>3. Ds \subseteq EntriesOf(m) /\ Fs \subseteq EntriesOf(m)
  BY DEF EntriesOf, NamesOf
<1> HIDE DEF Ds, Fs
<1> QED
  BY <1>2, <1>3

\* What a reading of a directory delivers.
LEMMA ReadDirFacts ==
  ASSUME NEW m \in Images, NEW d
  PROVE  LET ds == Siblings(m.dirs, d.dir, "directory")
             fs == Siblings(m.files, d.file, "file")
         IN /\ ReadDir(m, d) \in Seq(EntriesOf(m))
            /\ Read(m, d, 0, 0).ok <=> ds.outcome = "ends" /\ fs.outcome = "ends"
            /\ Read(m, d, 0, 0).ok => ReadDir(m, d) = ds.entries \o fs.entries
<1> DEFINE ds == Siblings(m.dirs, d.dir, "directory")
           fs == Siblings(m.files, d.file, "file")
           all == ds.entries \o fs.entries
           ok == ds.outcome = "ends" /\ fs.outcome = "ends"
<1>1. ds.entries \in Seq(EntriesOf(m)) /\ fs.entries \in Seq(EntriesOf(m))
  BY ListsAreEntries
<1> HIDE DEF ds, fs
<1>2. all \in Seq(EntriesOf(m)) /\ Len(all) \in Nat
  <2> HIDE DEF all
  <2> QED
    BY <1>1, ConcatProperties, LenProperties DEF all
<1> HIDE DEF all
<1> DEFINE left == IF 0 < Len(all) THEN Len(all) - 0 ELSE 0
           Taken(max) == SubSeq(all, 0 + 1, 0 + (IF max < left THEN max ELSE left))
<1>3. left = Len(all)
  BY <1>2
<1>4. \A max : Read(m, d, max, 0) = IF ~ ok THEN [ok |-> FALSE, entries |-> <<>>, count |-> 0]
                                    ELSE [ok |-> TRUE, count |-> left, entries |-> Taken(max)]
  BY DEF Read, Window, ds, fs, all
<1>5. Read(m, d, 0, 0).ok <=> ok
  BY <1>4
<1>6. ReadDir(m, d) = Read(m, d, Read(m, d, 0, 0).count, 0).entries
  BY DEF ReadDir, GetCount
<1>7. CASE ~ ok
  <2>1. ReadDir(m, d) = <<>>
    BY <1>4, <1>6, <1>7
  <2> QED
    BY <1>5, <1>7, <2>1, EmptySeq DEF ds, fs
<1>8. CASE ok
  <2>1. ReadDir(m, d) = Taken(left)
    BY <1>4, <1>6, <1>8
  <2>2. Taken(left) = SubSeq(all, 1, Len(all))
    BY <1>2, <1>3
  <2>3. SubSeq(all, 1, Len(all)) = all
    BY <1>2
  <2> QED
    BY <1>2, <1>5, <1>8, <2>1, <2>2, <2>3 DEF ds, fs, all
<1> QED
  BY <1>7, <1>8

\* The paths that a user can know are made of names that are listed.
LEMMA KnownFacts ==
  ASSUME NEW m \in Images
  PROVE  Root \in KnownPaths(m) /\ KnownPaths(m) \subseteq Seq(NamesOf(m))
<1> DEFINE Start == {Root}
           V == {paths \in SUBSET Seq(NamesOf(m)) : Root \in paths}
           step == [k \in 1 .. Depth |-> [paths \in V |-> Below(m, paths)]]
           D == [k \in 0 .. Depth |-> V]
           Rounds(h) == h = [k \in 0 .. Depth |->
                               IF k = 0 THEN Start ELSE Below(m, h[k - 1])]
<1>1. Depth \in Nat
  BY DEF Depth
<1>2. Start \in V
  BY EmptySeq DEF Root
<1> HIDE DEF Start
<1>3. ASSUME NEW paths \in V PROVE Below(m, paths) \in V
  <2>1. ASSUME NEW p \in Seq(NamesOf(m)), NEW d, NEW i \in DOMAIN ReadDir(m, d)
        PROVE  Append(p, ReadDir(m, d)[i].name) \in Seq(NamesOf(m))
    <3>1. ReadDir(m, d)[i] \in EntriesOf(m)
      BY ReadDirFacts, ElementOfSeq, LenProperties
    <3>2. ReadDir(m, d)[i].name \in NamesOf(m)
      BY <3>1 DEF EntriesOf
    <3> QED
      BY <3>2
  <2>2. Below(m, paths) \subseteq Seq(NamesOf(m))
    BY <2>1 DEF Below
  <2>3. Root \in Below(m, paths)
    BY DEF Below
  <2> QED
    BY <2>2, <2>3
<1>4. Start \in D[0] /\ \A k \in 1 .. Depth : \A d \in D[k - 1] : step[k][d] \in D[k]
  <2> HIDE DEF V
  <2> QED
    BY <1>1, <1>2, <1>3
<1>5. PICK f : IsCourse(f, Depth, Start, step) /\ \A k \in 0 .. Depth : f[k] \in D[k]
  <2> HIDE DEF D, step
  <2> QED
    BY <1>1, <1>4, LoopRuns
<1>6. Rounds(f)
  <2>1. \A k \in 1 .. Depth : f[k - 1] \in V
    BY <1>1, <1>5
  <2>2. \A k \in 1 .. Depth : step[k][f[k - 1]] = Below(m, f[k - 1])
    <3> HIDE DEF V
    <3> QED
      BY <2>1
  <2>3. f = [k \in 0 .. Depth |-> IF k = 0 THEN Start ELSE step[k][f[k - 1]]]
    BY <1>5, Zenon DEF IsCourse
  <2> DEFINE Wider(k, x) == Below(m, x)
             Ran(k, x) == step[k][x]
  <2>4. \A k \in 1 .. Depth : Ran(k, f[k - 1]) = Wider(k, f[k - 1])
    BY <2>2
  <2>5. f = [k \in 0 .. Depth |-> IF k = 0 THEN Start ELSE Ran(k, f[k - 1])]
    BY <2>3
  <2>6. f = [k \in 0 .. Depth |-> IF k = 0 THEN Start ELSE Wider(k, f[k - 1])]
    <3> HIDE DEF Wider, Ran, D
    <3> QED
      BY <1>1, <2>4, <2>5
  <2> QED
    BY <2>6
<1> DEFINE g == CHOOSE h : Rounds(h)
<1>7. KnownPaths(m) = g[Depth]
  BY DEF KnownPaths, Start
<1>8. Rounds(g)
  <2> HIDE DEF Rounds
  <2> QED
    BY <1>6
<1> HIDE DEF g, V
<1>9. \A k \in 0 .. Depth : g[k] \in V
  <2> DEFINE good == {k \in 0 .. Depth : g[k] \in V}
  <2>1. 0 \in good
    BY <1>1, <1>2, <1>8
  <2>2. \A k \in 1 .. Depth : k - 1 \in good => k \in good
    <3>1. \A k \in 1 .. Depth : g[k] = Below(m, g[k - 1])
      BY <1>1, <1>8
    <3> QED
      BY <1>1, <1>3, <3>1
  <2>3. \A k \in 0 .. Depth : k \in good
    <3> HIDE DEF good, Rounds
    <3> QED
      BY <1>1, <2>1, <2>2, LoopKeeps
  <2> QED
    BY <2>3
<1>10. g[Depth] \in V
  BY <1>1, <1>9
<1> QED
  BY <1>7, <1>10 DEF V

\* A page is made of entries.
LEMMA PageIsEntries ==
  ASSUME NEW m \in Images, NEW d, NEW marker, NEW room \in Nat
  PROVE  ForEachEntry(m, d, marker, room) \in Seq(EntriesOf(m))
<1> DEFINE heads == Heads(m, d, marker)
           ds == Siblings(m.dirs, heads.dir, "directory")
           fs == Siblings(m.files, heads.file, "file")
           all == Ahead(ds, fs)
<1>1. ds.entries \in Seq(EntriesOf(m)) /\ fs.entries \in Seq(EntriesOf(m))
  BY ListsAreEntries
<1>2. ForEachEntry(m, d, marker, room) = Page(all, room)
  BY DEF ForEachEntry
<1> HIDE DEF ds, fs
<1>3. all \in Seq(EntriesOf(m))
  BY <1>1, ConcatProperties DEF Ahead
<1> HIDE DEF all
<1>4. Len(all) \in Nat
  BY <1>3, LenProperties
<1>5. (IF room < Len(all) THEN room ELSE Len(all)) \in 0 .. Len(all)
  BY <1>4
<1>6. Page(all, room) \in Seq(EntriesOf(m))
  BY <1>3, <1>4, <1>5 DEF Page
<1> QED
  BY <1>2, <1>6

\* The types, with what the pages delivered as a sequence of entries of the image.
RomTypes ==
  /\ image \in Images
  /\ dir.path \in KnownPaths(image)
  /\ pages \in Seq(EntriesOf(image))
  /\ phase \in {"closed", "paging", "finished", "hung"}

LEMMA InitTypes == Init => RomTypes
<1> SUFFICES ASSUME Init PROVE RomTypes
  OBVIOUS
<1>1. dir.path = Root
  BY DEF Init, NoDirectory
<1>2. pages \in Seq(EntriesOf(image))
  BY EmptySeq DEF Init
<1> QED
  BY <1>1, <1>2, KnownFacts DEF Init, RomTypes

LEMMA NextTypes == RomTypes /\ [Next]_vars => RomTypes'
<1> SUFFICES ASSUME RomTypes, [Next]_vars PROVE RomTypes'
  OBVIOUS
<1>1. ASSUME NEW p \in KnownPaths(image), OpenDirectory(p) PROVE RomTypes'
  <2>1. image' = image /\ pages' = <<>> /\ phase' \in {"hung", "paging"}
    BY <1>1 DEF OpenDirectory
  <2>2. dir'.path \in {p, dir.path}
    <3>1. dir' \in {DirectoryAt(image, p), dir}
      BY <1>1 DEF OpenDirectory
    <3> QED
      BY <3>1 DEF DirectoryAt
  <2>3. pages' \in Seq(EntriesOf(image'))
    BY <2>1, EmptySeq
  <2> QED
    BY <2>1, <2>2, <2>3 DEF RomTypes
<1>2. ASSUME NEW room \in 1 .. MaxRoom, ReadPage(room) PROVE RomTypes'
  <2> DEFINE page == ForEachEntry(image, dir, Marker, room)
  <2>1. room \in Nat
    BY RomFsAssumption
  <2>2. page \in Seq(EntriesOf(image))
    BY <2>1, PageIsEntries DEF RomTypes
  <2>3. /\ image' = image /\ dir' = dir /\ pages' \in {pages, pages \o page}
        /\ phase' \in {"finished", "paging", "hung"}
    BY <1>2 DEF ReadPage
  <2> HIDE DEF page
  <2>4. pages' \in Seq(EntriesOf(image))
    BY <2>2, <2>3, ConcatProperties DEF RomTypes
  <2> QED
    BY <2>3, <2>4 DEF RomTypes
<1>3. ASSUME Close PROVE RomTypes'
  <2>1. image' = image /\ dir' = NoDirectory /\ pages' = <<>> /\ phase' = "closed"
    BY <1>3 DEF Close
  <2>2. dir'.path = Root
    BY <2>1 DEF NoDirectory
  <2>3. pages' \in Seq(EntriesOf(image'))
    BY <2>1, EmptySeq
  <2> QED
    BY <2>1, <2>2, <2>3, KnownFacts DEF RomTypes
<1>4. ASSUME UNCHANGED vars PROVE RomTypes'
  BY <1>4 DEF vars, RomTypes
<1> QED
  BY <1>1, <1>2, <1>3, <1>4 DEF Next

\* What is open is a directory that lists led to, and whatever the pages have
\* delivered are names of the image.
THEOREM RomTypeOK == Spec => []TypeOK
<1>1. RomTypes => TypeOK
  <2>1. ASSUME RomTypes PROVE \A i \in DOMAIN pages : pages[i] \in EntriesOf(image)
    BY <2>1, ElementOfSeq, LenProperties DEF RomTypes
  <2> QED
    BY <2>1 DEF RomTypes, TypeOK, EntriesOf
<1> QED
  BY InitTypes, NextTypes, <1>1, PTL DEF Spec

LEMMA ImageStays == Spec => [](image \in Images)
<1>1. RomTypes => image \in Images
  BY DEF RomTypes
<1> QED
  BY InitTypes, NextTypes, <1>1, PTL DEF Spec

-----------------------------------------------------------------------------
\* An image without a chain that runs in a circle.
NoCircle(m) ==
  /\ \A i \in DOMAIN m.dirBuckets : ~ IsCircle(m.dirs, m.dirBuckets[i])
  /\ \A i \in DOMAIN m.fileBuckets : ~ IsCircle(m.files, m.fileBuckets[i])

LEMMA ComponentEnds ==
  ASSUME NEW m \in Images, NoCircle(m), NEW home \in DOMAIN m.dirs \cup {0, None},
         NEW name \in NamesOf(m)
  PROVE  /\ FindIn(m.dirs, m.dirBuckets, home, name) # Loops
         /\ FindIn(m.files, m.fileBuckets, home, name) # Loops
<1>1. None # Loops
  BY DEF None, Loops
<1>2. ASSUME home # None
      PROVE  /\ Find(m.dirs, m.dirBuckets, home, name) # Loops
             /\ Find(m.files, m.fileBuckets, home, name) # Loops
  <2>1. home \in DOMAIN m.dirs \cup {0}
    BY <1>2
  <2>2. CalcHash(home, name) \in Nat
    BY <2>1, RomFsAssumption DEF NamesOf
  <2>3. /\ IsTable(m.dirs) /\ m.dirBuckets \in Seq(Int) /\ m.dirBuckets # <<>>
        /\ IsTable(m.files) /\ m.fileBuckets \in Seq(Int) /\ m.fileBuckets # <<>>
    BY RomFsAssumption
  <2> QED
    BY <2>2, <2>3, FindEnds DEF NoCircle
<1>3. home # Loops
  <2>1. Loops \notin Nat
    BY DEF Loops
  <2> QED
    BY <1>1, <2>1, ImageFacts
<1> QED
  BY <1>1, <1>2, <1>3 DEF FindIn

LEMMA HomeEnds ==
  ASSUME NEW m \in Images, NoCircle(m), NEW p \in Seq(NamesOf(m))
  PROVE  Home(m, p) \in DOMAIN m.dirs \cup {0, None}
<1> DEFINE at == Descent(m, p)
           n == Len(p)
           V == DOMAIN m.dirs \cup {0, None}
           good == {k \in 0 .. n : at[k] \in V}
<1>1. n \in Nat /\ \A k \in 1 .. n : p[k] \in NamesOf(m)
  BY ElementOfSeq, LenProperties
<1>2. /\ at[0] = 0
      /\ \A k \in 1 .. n : at[k] = FindIn(m.dirs, m.dirBuckets, at[k - 1], p[k])
      /\ \A k \in 0 .. n : at[k] \in V \cup {Loops}
  BY DescentRuns
<1> HIDE DEF at, n, V
<1>3. 0 \in good
  BY <1>1, <1>2 DEF V
<1>4. \A k \in 1 .. n : k - 1 \in good => k \in good
  <2>1. SUFFICES ASSUME NEW k \in 1 .. n, at[k - 1] \in V PROVE at[k] \in V
    BY <1>1
  <2>2. FindIn(m.dirs, m.dirBuckets, at[k - 1], p[k]) # Loops
    BY <1>1, <2>1, ComponentEnds DEF V
  <2>3. k \in 0 .. n
    BY <1>1
  <2> QED
    BY <1>2, <2>2, <2>3
<1>5. \A k \in 0 .. n : k \in good
  <2> HIDE DEF good
  <2> QED
    BY <1>1, <1>3, <1>4, LoopKeeps
<1>6. at[n] \in V
  BY <1>1, <1>5
<1>7. Home(m, p) = at[n]
  BY HomeOfPath DEF at, n
<1> QED
  BY <1>6, <1>7 DEF V

\* In a table, damaged or not, a lookup comes to an end unless one of the hash
\* chains is a circle of two or more entries: the walk of EntryMap::find stops at
\* an entry that leads to itself, and nothing else can hold it.
THEOREM RomLookupEnds == Spec => []LookupEnds
<1>1. ASSUME image \in Images PROVE LookupEnds
  <2>1. SUFFICES ASSUME NEW p \in KnownPaths(image), NEW name \in NamesOf(image),
                        NoCircle(image)
                 PROVE  /\ FindDirectory(image, Append(p, name)) # Loops
                        /\ FindFile(image, Append(p, name)) # Loops
    BY DEF LookupEnds, NoCircle
  <2>2. p \in Seq(NamesOf(image))
    BY <1>1, KnownFacts
  <2>3. Home(image, p) \in DOMAIN image.dirs \cup {0, None}
    BY <1>1, <2>1, <2>2, HomeEnds
  <2>4. /\ FindDirectory(image, Append(p, name))
             = FindIn(image.dirs, image.dirBuckets, Home(image, p), name)
        /\ FindFile(image, Append(p, name))
             = FindIn(image.files, image.fileBuckets, Home(image, p), name)
    BY <1>1, <2>2, ChildLookup
  <2> QED
    BY <1>1, <2>1, <2>3, <2>4, ComponentEnds
<1> QED
  BY ImageStays, <1>1, PTL

\* A walk that has come to an entry whose chain leads to itself stays there.
LEMMA WalkStays ==
  ASSUME NEW table, IsTable(table), NEW first,
         NEW i \in Nat, NEW j \in Nat, i <= j, j <= Cardinality(DOMAIN table),
         Follow(Chains(table), first)[i] \in DOMAIN table,
         Follow(Chains(table), first)[i] = table[Follow(Chains(table), first)[i]].chain
  PROVE  Follow(Chains(table), first)[j] = Follow(Chains(table), first)[i]
<1> DEFINE at == Follow(Chains(table), first)
           n == Cardinality(DOMAIN table)
           good == {k \in 0 .. n - i : at[i + k] = at[i]}
<1>1. /\ n \in Nat
      /\ \A k \in 1 .. n : at[k] = IF at[k - 1] \in DOMAIN table
                                   THEN table[at[k - 1]].chain ELSE End
  BY ChainRuns
<1>2. i <= n /\ j <= n /\ at[i] \in DOMAIN table /\ at[i] = table[at[i]].chain
  BY <1>1
<1> HIDE DEF at, n
<1>3. n - i \in Nat
  BY <1>1, <1>2
<1>4. 0 \in good
  BY <1>3
<1>5. \A k \in 1 .. n - i : k - 1 \in good => k \in good
  <2>1. SUFFICES ASSUME NEW k \in 1 .. n - i, at[i + (k - 1)] = at[i] PROVE at[i + k] = at[i]
    BY <1>3
  <2>2. i + k \in 1 .. n /\ i + k - 1 = i + (k - 1)
    BY <1>1, <1>3
  <2> QED
    BY <1>1, <1>2, <2>1, <2>2
<1>6. \A k \in 0 .. n - i : k \in good
  <2> HIDE DEF good
  <2> QED
    BY <1>3, <1>4, <1>5, LoopKeeps
<1>7. j - i \in 0 .. n - i /\ i + (j - i) = j
  BY <1>1, <1>2
<1>8. at[j] = at[i]
  BY <1>6, <1>7
<1> QED
  BY <1>8 DEF at

\* An entry that can be met along its bucket is what a lookup finds.
LEMMA FindExact ==
  ASSUME NEW table, IsTable(table), NEW buckets, NEW q \in DOMAIN table,
         InBucket(table, buckets, q), Len(table[q].name) \in 1 .. MaxPath,
         \A x \in DOMAIN table : Len(table[x].name) <= MaxPath,
         \A x \in DOMAIN table :
           table[x].parent = table[q].parent /\ table[x].name = table[q].name => x = q
  PROVE  Find(table, buckets, table[q].parent, table[q].name) = q
<1> DEFINE parent == table[q].parent
           name == table[q].name
           first == buckets[(CalcHash(parent, name) % Len(buckets)) + 1]
           at == Follow(Chains(table), first)
           n == Cardinality(DOMAIN table)
           Usable(i) == at[i] \in DOMAIN table /\ Len(table[at[i]].name) \in 1 .. MaxPath
           Matches(i) == table[at[i]].parent = parent /\ table[at[i]].name = name
           ends == {i \in DOMAIN at : ~ Usable(i) \/ Matches(i) \/ at[i] = table[at[i]].chain}
           stops == {i \in DOMAIN at : \/ at[i] \notin DOMAIN table
                                       \/ table[at[i]].name = <<>> \/ at[i] = q}
           met == FirstEnd(stops)
           last == FirstEnd(ends)
<1>1. Find(table, buckets, parent, name)
        = IF last = Loops THEN Loops
          ELSE IF Usable(last) /\ Matches(last) THEN at[last] ELSE None
  BY DEF Find, Found, BucketOf
<1>2. met # Loops /\ at[met] = q
  BY DEF InBucket, BucketOf
<1>3. n \in Nat /\ DOMAIN at = 0 .. n
  BY ChainRuns
<1>4. ASSUME NEW i \in 0 .. n, NEW j \in 0 .. n, i <= j,
             at[i] \in DOMAIN table, at[i] = table[at[i]].chain
      PROVE  at[j] = at[i]
  <2>1. i \in Nat /\ j \in Nat /\ j <= n
    BY <1>3
  <2> HIDE DEF first
  <2> QED
    BY <1>4, <2>1, WalkStays
<1> HIDE DEF first, at, n
<1>5. met \in stops /\ \A i \in stops : met <= i
  <2>1. stops \in SUBSET Nat
    BY <1>3
  <2> HIDE DEF stops
  <2> QED
    BY <1>2, <2>1, FirstEndIsLeast
<1>6. met \in 0 .. n
  BY <1>3, <1>5
<1>7. Usable(met) /\ Matches(met)
  BY <1>2
<1>8. met \in ends
  BY <1>3, <1>6, <1>7
<1>9. ASSUME NEW i \in ends, i < met PROVE FALSE
  <2>1. i \in 0 .. n /\ i \notin stops
    <3>1. i \in 0 .. n
      BY <1>3
    <3>2. ~ (met <= i)
      BY <1>6, <1>9, <3>1
    <3> HIDE DEF stops, met
    <3> QED
      BY <1>5, <3>1, <3>2
  <2>2. at[i] \in DOMAIN table /\ table[at[i]].name # <<>> /\ at[i] # q
    BY <1>3, <2>1
  <2>3. Usable(i)
    <3>1. table[at[i]].name \in Seq(Nat)
      BY <2>2 DEF IsTable
    <3>2. Len(table[at[i]].name) \in Nat /\ Len(table[at[i]].name) # 0
      BY <2>2, <3>1, EmptySeq, LenProperties
    <3> QED
      BY <2>2, <3>2, RomFsAssumption
  <2>4. ~ Matches(i)
    BY <2>2
  <2>5. at[i] = table[at[i]].chain
    BY <2>3, <2>4
  <2>6. at[met] = at[i]
    BY <1>4, <1>6, <1>9, <2>1, <2>2, <2>5
  <2> QED
    BY <1>2, <2>2, <2>6
<1>10. last = met
  <2>1. ends \in SUBSET Nat
    BY <1>3
  <2> HIDE DEF ends, met
  <2>2. last \in ends /\ last <= met
    BY <1>8, <2>1, FirstEndIsLeast
  <2>3. ~ (last < met)
    BY <1>9, <2>2
  <2> QED
    <3>1. last \in Nat /\ met \in Nat
      BY <1>8, <2>1, <2>2
    <3> HIDE DEF last
    <3> QED
      BY <2>2, <2>3, <3>1
<1>11. last # Loops
  BY <1>2, <1>10
<1> QED
  BY <1>1, <1>2, <1>7, <1>10, <1>11

-----------------------------------------------------------------------------
\* What is listed in one directory has distinct names.
LEMMA NamesApart ==
  ASSUME NEW m \in Images
  PROVE  /\ \A x, y \in DOMAIN m.dirs :
              m.dirs[x].parent = m.dirs[y].parent
              /\ Listed(m.dirs[x].name) = Listed(m.dirs[y].name) => x = y
         /\ \A x, y \in DOMAIN m.files :
              m.files[x].parent = m.files[y].parent
              /\ Listed(m.files[x].name) = Listed(m.files[y].name) => x = y
         /\ \A x \in DOMAIN m.dirs, y \in DOMAIN m.files :
              ~ (/\ m.dirs[x].parent = m.files[y].parent
                 /\ Listed(m.dirs[x].name) = Listed(m.files[y].name))
<1> DEFINE D(x) == <<"directory", x, m.dirs[x].parent, Listed(m.dirs[x].name)>>
           F(x) == <<"file", x, m.files[x].parent, Listed(m.files[x].name)>>
           all == Listings(m.dirs, "directory") \cup Listings(m.files, "file")
<1>1. \A x, y \in all : x[3] = y[3] /\ x[4] = y[4] => x = y
  BY RomFsAssumption
<1>2. \A x \in DOMAIN m.dirs : D(x) \in all
  BY DEF Listings
<1>3. \A x \in DOMAIN m.files : F(x) \in all
  BY DEF Listings
<1> HIDE DEF all
<1>4. \A x : D(x)[1] = "directory" /\ D(x)[2] = x
             /\ D(x)[3] = m.dirs[x].parent /\ D(x)[4] = Listed(m.dirs[x].name)
  OBVIOUS
<1>5. \A x : F(x)[1] = "file" /\ F(x)[2] = x
             /\ F(x)[3] = m.files[x].parent /\ F(x)[4] = Listed(m.files[x].name)
  OBVIOUS
<1> HIDE DEF D, F
<1>6. "file" # "directory"
  OBVIOUS
<1>7. \A x, y \in DOMAIN m.dirs :
        m.dirs[x].parent = m.dirs[y].parent
        /\ Listed(m.dirs[x].name) = Listed(m.dirs[y].name) => x = y
  BY <1>1, <1>2, <1>4
<1>8. \A x, y \in DOMAIN m.files :
        m.files[x].parent = m.files[y].parent
        /\ Listed(m.files[x].name) = Listed(m.files[y].name) => x = y
  BY <1>1, <1>3, <1>5
<1>9. ASSUME NEW x \in DOMAIN m.dirs, NEW y \in DOMAIN m.files,
             m.dirs[x].parent = m.files[y].parent,
             Listed(m.dirs[x].name) = Listed(m.files[y].name)
      PROVE  FALSE
  BY <1>1, <1>2, <1>3, <1>4, <1>5, <1>6, <1>9
<1> QED
  BY <1>7, <1>8, <1>9

\* A name that fits is listed as it is.
LEMMA ListedShort ==
  ASSUME NEW name \in Seq(Nat), Len(name) < MaxPath
  PROVE  Listed(name) = name
<1>1. Listed(name) = SubSeq(name, 1, Len(name))
  BY DEF Listed
<1> QED
  BY <1>1

\* In an intact image, names are listed as they are, and whatever has one is found.
LEMMA IntactFacts ==
  ASSUME NEW m \in Images, Intact(m)
  PROVE  /\ \A q \in DOMAIN m.dirs : Listed(m.dirs[q].name) = m.dirs[q].name
         /\ \A q \in DOMAIN m.files : Listed(m.files[q].name) = m.files[q].name
         /\ \A q \in DOMAIN m.dirs \ {0} : m.dirs[q].name # <<>>
         /\ \A q \in DOMAIN m.files : m.files[q].name # <<>>
         /\ \A q \in DOMAIN m.dirs \ {0} :
              Find(m.dirs, m.dirBuckets, m.dirs[q].parent, m.dirs[q].name) = q
         /\ \A q \in DOMAIN m.files :
              Find(m.files, m.fileBuckets, m.files[q].parent, m.files[q].name) = q
<1>1. IsTable(m.dirs) /\ IsTable(m.files) /\ MaxPath \in Nat \ {0}
  BY RomFsAssumption
<1>2. \A q \in DOMAIN m.dirs : m.dirs[q].name \in Seq(Nat) /\ Len(m.dirs[q].name) \in Nat
  BY <1>1, LenProperties DEF IsTable
<1>3. \A q \in DOMAIN m.files : m.files[q].name \in Seq(Nat) /\ Len(m.files[q].name) \in Nat
  BY <1>1, LenProperties DEF IsTable
<1>4. Len(<<>>) = 0
  OBVIOUS
<1>5. \A q \in DOMAIN m.dirs : Len(m.dirs[q].name) < MaxPath
  <2>1. \A q \in DOMAIN m.dirs : q = 0 \/ Len(m.dirs[q].name) \in 1 .. MaxPath - 1
    BY DEF Intact
  <2>2. m.dirs[0].name = <<>>
    BY DEF Intact
  <2> QED
    BY <1>1, <1>2, <1>4, <2>1, <2>2
<1>6. \A q \in DOMAIN m.files : Len(m.files[q].name) \in 1 .. MaxPath - 1
  BY DEF Intact
<1>7. \A q \in DOMAIN m.dirs \ {0} : Len(m.dirs[q].name) \in 1 .. MaxPath - 1
  BY DEF Intact
<1>8. /\ \A q \in DOMAIN m.dirs : Listed(m.dirs[q].name) = m.dirs[q].name
      /\ \A q \in DOMAIN m.files : Listed(m.files[q].name) = m.files[q].name
  BY <1>1, <1>2, <1>3, <1>5, <1>6, ListedShort
<1>9. /\ \A q \in DOMAIN m.dirs \ {0} : m.dirs[q].name # <<>>
      /\ \A q \in DOMAIN m.files : m.files[q].name # <<>>
  BY <1>1, <1>4, <1>6, <1>7
<1>10. ASSUME NEW q \in DOMAIN m.dirs \ {0}
       PROVE  Find(m.dirs, m.dirBuckets, m.dirs[q].parent, m.dirs[q].name) = q
  <2>1. InBucket(m.dirs, m.dirBuckets, q)
    BY DEF Intact
  <2>2. Len(m.dirs[q].name) \in 1 .. MaxPath
    BY <1>1, <1>7
  <2>3. \A x \in DOMAIN m.dirs : Len(m.dirs[x].name) <= MaxPath
    BY <1>1, <1>2, <1>5
  <2>4. \A x \in DOMAIN m.dirs :
          m.dirs[x].parent = m.dirs[q].parent /\ m.dirs[x].name = m.dirs[q].name => x = q
    BY NamesApart
  <2> QED
    BY <1>1, <2>1, <2>2, <2>3, <2>4, FindExact
<1>11. ASSUME NEW q \in DOMAIN m.files
       PROVE  Find(m.files, m.fileBuckets, m.files[q].parent, m.files[q].name) = q
  <2>1. InBucket(m.files, m.fileBuckets, q)
    BY DEF Intact
  <2>2. Len(m.files[q].name) \in 1 .. MaxPath
    BY <1>1, <1>6
  <2>3. \A x \in DOMAIN m.files : Len(m.files[x].name) <= MaxPath
    BY <1>1, <1>3, <1>6
  <2>4. \A x \in DOMAIN m.files :
          m.files[x].parent = m.files[q].parent /\ m.files[x].name = m.files[q].name => x = q
    BY NamesApart
  <2> QED
    BY <1>1, <2>1, <2>2, <2>3, <2>4, FindExact
<1> QED
  BY <1>8, <1>9, <1>10, <1>11

\* What a list delivers is what its positions are named.
LEMMA ListedAre ==
  ASSUME NEW table, IsTable(table), NEW first, NEW type, Reach(table, first) # Loops
  PROVE  Range(Siblings(table, first, type).entries)
           = {[name |-> Listed(table[q].name), type |-> type] : q \in ListFrom(table, first)}
<1> DEFINE at == Way(table, first)
           n == Reach(table, first)
           entries == Siblings(table, first, type).entries
           E(q) == [name |-> Listed(table[q].name), type |-> type]
<1>1. n \in Nat
  BY ReachFacts
<1>2. Len(entries) = n /\ \A i \in 1 .. n : entries[i] = E(at[i - 1])
  BY EntryFacts
<1>3. DOMAIN entries = 1 .. n
  <2>1. entries \in Seq([name : ListedNames(table), type : {type}])
    BY SiblingsFacts
  <2> HIDE DEF entries
  <2> QED
    BY <1>2, <2>1, LenProperties
<1>4. ListFrom(table, first) = {at[i] : i \in 0 .. n - 1}
  BY ListFromFacts
<1> HIDE DEF at, n, entries, E
<1>5. Range(entries) = {entries[i] : i \in 1 .. n}
  BY <1>3 DEF Range
<1>6. \A i \in 0 .. n - 1 : i + 1 \in 1 .. n /\ entries[i + 1] = E(at[i])
  BY <1>1, <1>2
<1>7. \A i \in 1 .. n : i - 1 \in 0 .. n - 1
  BY <1>1
<1>8. Range(entries) = {E(q) : q \in ListFrom(table, first)}
  BY <1>2, <1>4, <1>5, <1>6, <1>7
<1> QED
  BY <1>8 DEF entries, E

LEMMA RangeOfConcat ==
  ASSUME NEW S, NEW s \in Seq(S), NEW t \in Seq(S)
  PROVE  Range(s \o t) = Range(s) \cup Range(t)
<1>1. /\ Len(s) \in Nat /\ DOMAIN s = 1 .. Len(s)
      /\ Len(t) \in Nat /\ DOMAIN t = 1 .. Len(t)
  BY LenProperties
<1>2. /\ DOMAIN (s \o t) = 1 .. Len(s) + Len(t)
      /\ \A i \in 1 .. Len(s) + Len(t) : (s \o t)[i] = IF i <= Len(s) THEN s[i] ELSE t[i - Len(s)]
  BY ConcatProperties, LenProperties
<1>3. ASSUME NEW x \in Range(s \o t) PROVE x \in Range(s) \cup Range(t)
  <2>1. PICK i \in 1 .. Len(s) + Len(t) : (s \o t)[i] = x
    BY <1>2 DEF Range
  <2>2. CASE i <= Len(s)
    BY <1>1, <1>2, <2>1, <2>2 DEF Range
  <2>3. CASE ~ (i <= Len(s))
    <3>1. i - Len(s) \in 1 .. Len(t)
      BY <1>1, <2>3
    <3> QED
      BY <1>1, <1>2, <2>1, <2>3, <3>1 DEF Range
  <2> QED
    BY <2>2, <2>3
<1>4. ASSUME NEW i \in DOMAIN s PROVE s[i] \in Range(s \o t)
  <2>1. i \in 1 .. Len(s) + Len(t) /\ i <= Len(s)
    BY <1>1
  <2>2. (s \o t)[i] = s[i]
    BY <1>2, <2>1
  <2> QED
    BY <1>2, <2>1, <2>2 DEF Range
<1>5. ASSUME NEW i \in DOMAIN t PROVE t[i] \in Range(s \o t)
  <2>1. /\ i + Len(s) \in 1 .. Len(s) + Len(t) /\ ~ (i + Len(s) <= Len(s))
        /\ i + Len(s) - Len(s) = i
    BY <1>1
  <2>2. (s \o t)[i + Len(s)] = t[i]
    BY <1>2, <2>1
  <2> QED
    BY <1>2, <2>1, <2>2 DEF Range
<1>6. Range(s) \cup Range(t) \subseteq Range(s \o t)
  BY <1>4, <1>5 DEF Range
<1> QED
  BY <1>3, <1>6

\* What is in a directory: its subdirectories and its files.
DirsIn(m, home) == {q \in DOMAIN m.dirs \ {0} : m.dirs[q].parent = home}
FilesIn(m, home) == {q \in DOMAIN m.files : m.files[q].parent = home}

\* A directory of an intact image that can be opened: where it is, and what it lists.
LEMMA OpenedFacts ==
  ASSUME NEW m \in Images, Intact(m), NEW p, Opens(m, p, "directory") = "yes"
  PROVE  LET home == Home(m, p)
             d == DirectoryAt(m, p)
         IN /\ home \in DOMAIN m.dirs
            /\ d.dir = m.dirs[home].dir /\ d.file = m.dirs[home].file
            /\ Read(m, d, 0, 0).ok
            /\ ListFrom(m.dirs, d.dir) = DirsIn(m, home)
            /\ ListFrom(m.files, d.file) = FilesIn(m, home)
<1> DEFINE home == Home(m, p)
           d == DirectoryAt(m, p)
<1>1. home \in DOMAIN m.dirs
  BY DEF Opens, Outcome, Home, Intact
<1>2. d.dir = m.dirs[home].dir /\ d.file = m.dirs[home].file
  BY <1>1 DEF DirectoryAt
<1> HIDE DEF home, d
<1>3. /\ Read(m, m.dirs[home], 0, 0).ok
      /\ ListFrom(m.dirs, m.dirs[home].dir) = DirsIn(m, home)
      /\ ListFrom(m.files, m.dirs[home].file) = FilesIn(m, home)
  BY <1>1 DEF Intact, DirsIn, FilesIn
<1>4. Read(m, d, 0, 0).ok
  BY <1>2, <1>3 DEF Read
<1> QED
  BY <1>1, <1>2, <1>3, <1>4 DEF home, d

LEMMA OpenedLists ==
  ASSUME NEW m \in Images, Intact(m), NEW p, Opens(m, p, "directory") = "yes"
  PROVE  Range(ReadDir(m, DirectoryAt(m, p)))
           = {[name |-> m.dirs[q].name, type |-> "directory"] : q \in DirsIn(m, Home(m, p))}
             \cup {[name |-> m.files[q].name, type |-> "file"] : q \in FilesIn(m, Home(m, p))}
<1> DEFINE home == Home(m, p)
           d == DirectoryAt(m, p)
           ds == Siblings(m.dirs, d.dir, "directory")
           fs == Siblings(m.files, d.file, "file")
<1>1. IsTable(m.dirs) /\ IsTable(m.files)
  BY ImageFacts
<1>2. /\ Read(m, d, 0, 0).ok
      /\ ListFrom(m.dirs, d.dir) = DirsIn(m, home) /\ ListFrom(m.files, d.file) = FilesIn(m, home)
  BY OpenedFacts
<1> HIDE DEF d, home
<1>3. /\ ds.outcome = "ends" /\ fs.outcome = "ends" /\ ReadDir(m, d) = ds.entries \o fs.entries
  BY <1>2, ReadDirFacts
<1>4. Reach(m.dirs, d.dir) # Loops /\ Reach(m.files, d.file) # Loops
  <2>1. ds.outcome # "loops" /\ fs.outcome # "loops"
    BY <1>3
  <2> QED
    BY <1>1, <2>1, OutcomeFacts
<1>5. ds.entries \in Seq(EntriesOf(m)) /\ fs.entries \in Seq(EntriesOf(m))
  BY ListsAreEntries
<1>6. /\ Range(ds.entries) = {[name |-> Listed(m.dirs[q].name), type |-> "directory"] :
                                q \in DirsIn(m, home)}
      /\ Range(fs.entries) = {[name |-> Listed(m.files[q].name), type |-> "file"] :
                                q \in FilesIn(m, home)}
  BY <1>1, <1>2, <1>4, ListedAre
<1> HIDE DEF ds, fs
<1>7. Range(ReadDir(m, d)) = Range(ds.entries) \cup Range(fs.entries)
  BY <1>3, <1>5, RangeOfConcat
<1>8. /\ \A q \in DirsIn(m, home) : Listed(m.dirs[q].name) = m.dirs[q].name
      /\ \A q \in FilesIn(m, home) : Listed(m.files[q].name) = m.files[q].name
  BY IntactFacts DEF DirsIn, FilesIn
<1>9. /\ Range(ds.entries) = {[name |-> m.dirs[q].name, type |-> "directory"] :
                                q \in DirsIn(m, home)}
      /\ Range(fs.entries) = {[name |-> m.files[q].name, type |-> "file"] :
                                q \in FilesIn(m, home)}
  BY <1>6, <1>8
<1> QED
  BY <1>7, <1>9 DEF d, home

\* What a lookup below a directory finds.
LEMMA FoundBelow ==
  ASSUME NEW m \in Images, NEW S, NEW p \in Seq(S), NEW name, Home(m, p) \in Nat
  PROVE  LET home == Home(m, p)
             c == Append(p, name)
         IN /\ c # Root
            /\ FindDirectory(m, c) = Find(m.dirs, m.dirBuckets, home, name)
            /\ FindFile(m, c) = Find(m.files, m.fileBuckets, home, name)
            /\ FindDirectory(m, c) \in DOMAIN m.dirs =>
                 /\ m.dirs[FindDirectory(m, c)].parent = home
                 /\ m.dirs[FindDirectory(m, c)].name = name /\ name # <<>>
            /\ FindFile(m, c) \in DOMAIN m.files =>
                 /\ m.files[FindFile(m, c)].parent = home
                 /\ m.files[FindFile(m, c)].name = name /\ name # <<>>
<1> DEFINE home == Home(m, p)
           c == Append(p, name)
<1>1. IsTable(m.dirs) /\ IsTable(m.files) /\ DOMAIN m.dirs \subseteq Nat /\ DOMAIN m.files \subseteq Nat
  BY ImageFacts
<1>2. None \notin Nat /\ Loops \notin Nat
  BY DEF None, Loops
<1>3. /\ c # Root
      /\ FindDirectory(m, c) = FindIn(m.dirs, m.dirBuckets, home, name)
      /\ FindFile(m, c) = FindIn(m.files, m.fileBuckets, home, name)
  BY ChildLookup
<1>4. home \notin {None, Loops}
  BY <1>2
<1> HIDE DEF c, home
<1>5. /\ FindDirectory(m, c) = Find(m.dirs, m.dirBuckets, home, name)
      /\ FindFile(m, c) = Find(m.files, m.fileBuckets, home, name)
  BY <1>3, <1>4 DEF FindIn
<1>6. name = <<>> => ~ (Len(name) \in 1 .. MaxPath)
  OBVIOUS
<1>7. FindDirectory(m, c) \in DOMAIN m.dirs =>
        /\ m.dirs[FindDirectory(m, c)].parent = home
        /\ m.dirs[FindDirectory(m, c)].name = name /\ name # <<>>
  BY <1>1, <1>2, <1>5, <1>6, FindSound
<1>8. FindFile(m, c) \in DOMAIN m.files =>
        /\ m.files[FindFile(m, c)].parent = home
        /\ m.files[FindFile(m, c)].name = name /\ name # <<>>
  BY <1>1, <1>2, <1>5, <1>6, FindSound
<1> QED
  BY <1>3, <1>5, <1>7, <1>8 DEF c, home

-----------------------------------------------------------------------------
\* What a directory of an intact image lists can be looked up below it.
LEMMA ListedIsFound ==
  ASSUME NEW m \in Images, Intact(m), NEW S, NEW p \in Seq(S), Home(m, p) \in DOMAIN m.dirs
  PROVE  /\ \A q \in DirsIn(m, Home(m, p)) :
              LET c == Append(p, m.dirs[q].name)
              IN FindDirectory(m, c) = q /\ FindFile(m, c) \notin DOMAIN m.files
         /\ \A q \in FilesIn(m, Home(m, p)) :
              LET c == Append(p, m.files[q].name)
              IN FindFile(m, c) = q /\ FindDirectory(m, c) \notin DOMAIN m.dirs
<1> DEFINE home == Home(m, p)
<1> home \in Nat
  BY ImageFacts
<1>1. ASSUME NEW q \in DirsIn(m, home)
      PROVE  LET c == Append(p, m.dirs[q].name)
             IN FindDirectory(m, c) = q /\ FindFile(m, c) \notin DOMAIN m.files
  <2> DEFINE c == Append(p, m.dirs[q].name)
  <2>1. q \in DOMAIN m.dirs \ {0} /\ m.dirs[q].parent = home
    BY DEF DirsIn
  <2>2. FindDirectory(m, c) = q
    BY <2>1, FoundBelow, IntactFacts
  <2>3. ASSUME FindFile(m, c) \in DOMAIN m.files PROVE FALSE
    <3> DEFINE f == FindFile(m, c)
    <3>1. m.files[f].parent = home /\ m.files[f].name = m.dirs[q].name
      BY <2>3, FoundBelow
    <3> HIDE DEF f, home
    <3>2. m.files[f].parent = m.dirs[q].parent /\ Listed(m.files[f].name) = Listed(m.dirs[q].name)
      BY <2>1, <3>1
    <3>3. f \in DOMAIN m.files
      BY <2>3 DEF f
    <3> QED
      BY <2>1, <3>2, <3>3, NamesApart
  <2> QED
    BY <2>2, <2>3
<1>2. ASSUME NEW q \in FilesIn(m, home)
      PROVE  LET c == Append(p, m.files[q].name)
             IN FindFile(m, c) = q /\ FindDirectory(m, c) \notin DOMAIN m.dirs
  <2> DEFINE c == Append(p, m.files[q].name)
  <2>1. q \in DOMAIN m.files /\ m.files[q].parent = home
    BY DEF FilesIn
  <2>2. FindFile(m, c) = q
    BY <2>1, FoundBelow, IntactFacts
  <2>3. ASSUME FindDirectory(m, c) \in DOMAIN m.dirs PROVE FALSE
    <3> DEFINE f == FindDirectory(m, c)
    <3>1. m.dirs[f].parent = home /\ m.dirs[f].name = m.files[q].name
      BY <2>3, FoundBelow
    <3> HIDE DEF f, home
    <3>2. m.dirs[f].parent = m.files[q].parent /\ Listed(m.dirs[f].name) = Listed(m.files[q].name)
      BY <2>1, <3>1
    <3>3. f \in DOMAIN m.dirs
      BY <2>3 DEF f
    <3> QED
      BY <2>1, <3>2, <3>3, NamesApart
  <2> QED
    BY <2>2, <2>3
<1> QED
  BY <1>1, <1>2

\* No lookup below a path of an intact image runs around a circle.
LEMMA IntactReturns ==
  ASSUME NEW m \in Images, Intact(m), NEW p \in Seq(NamesOf(m))
  PROVE  /\ Home(m, p) # Loops
         /\ \A name \in NamesOf(m) : /\ FindDirectory(m, Append(p, name)) # Loops
                                     /\ FindFile(m, Append(p, name)) # Loops
<1>1. NoCircle(m)
  BY DEF Intact, NoCircle
<1>2. Home(m, p) \in DOMAIN m.dirs \cup {0, None}
  BY <1>1, HomeEnds
<1>3. Home(m, p) # Loops
  BY <1>2, ImageFacts DEF Loops, None
<1>4. ASSUME NEW name \in NamesOf(m)
      PROVE  /\ FindDirectory(m, Append(p, name)) # Loops
             /\ FindFile(m, Append(p, name)) # Loops
  BY <1>1, <1>2, ChildLookup, ComponentEnds
<1> QED
  BY <1>3, <1>4

\* Whatever a directory of an intact image lists can be looked up below it and is
\* what the list said, and whatever can be looked up below it is listed: the two
\* ways through the tables, hash chains and sibling lists, tell the same story, and no
\* lookup on the way hangs.
THEOREM RomNamespaceAgrees == Spec => []NamespaceAgrees
<1>1. ASSUME image \in Images PROVE NamespaceAgrees
  <2> DEFINE m == image
             Listing(p) == Range(ReadDir(m, DirectoryAt(m, p)))
  <2>1. SUFFICES ASSUME Intact(m), NEW p \in KnownPaths(m), Opens(m, p, "directory") = "yes"
                 PROVE  /\ \A e \in Listing(p) :
                             /\ TypeOf(m, Append(p, e.name)) = e.type
                             /\ Accessible(m, Append(p, e.name)) = "yes"
                             /\ Opens(m, Append(p, e.name), e.type) = "yes"
                        /\ \A name \in NamesOf(m) :
                             TypeOf(m, Append(p, name)) # "none" =>
                               [name |-> name, type |-> TypeOf(m, Append(p, name))] \in Listing(p)
    BY DEF NamespaceAgrees
  <2> DEFINE home == Home(m, p)
  <2> HIDE DEF m
  <2>2. m \in Images
    BY <1>1 DEF m
  <2>3. p \in Seq(NamesOf(m)) /\ home \in DOMAIN m.dirs /\ home \in Nat
    BY <2>1, <2>2, KnownFacts, OpenedFacts, ImageFacts
  <2>4. Listing(p) = {[name |-> m.dirs[q].name, type |-> "directory"] : q \in DirsIn(m, home)}
                     \cup {[name |-> m.files[q].name, type |-> "file"] : q \in FilesIn(m, home)}
    BY <2>1, <2>2, OpenedLists
  <2> HIDE DEF Listing, home
  <2>5. ASSUME NEW q \in DirsIn(m, home)
        PROVE  LET c == Append(p, m.dirs[q].name)
               IN /\ TypeOf(m, c) = "directory" /\ Accessible(m, c) = "yes"
                  /\ Opens(m, c, "directory") = "yes"
    <3> DEFINE c == Append(p, m.dirs[q].name)
    <3>1. c # Root
      BY <2>2, <2>3, FoundBelow DEF home
    <3>2. FindDirectory(m, c) = q /\ FindFile(m, c) \notin DOMAIN m.files /\ q \in DOMAIN m.dirs
      BY <2>1, <2>2, <2>3, ListedIsFound DEF home, DirsIn
    <3>3. FindFile(m, c) # Loops
      <4>1. m.dirs[q].name \in NamesOf(m)
        BY <2>1, <2>2, <3>2, IntactFacts DEF NamesOf, ListedNames
      <4> QED
        BY <2>1, <2>2, <2>3, <4>1, IntactReturns
    <3> HIDE DEF c
    <3> QED
      BY <3>1, <3>2, <3>3 DEF TypeOf, Accessible, Opens, Outcome, c
  <2>6. ASSUME NEW q \in FilesIn(m, home)
        PROVE  LET c == Append(p, m.files[q].name)
               IN /\ TypeOf(m, c) = "file" /\ Accessible(m, c) = "yes"
                  /\ Opens(m, c, "file") = "yes"
    <3> DEFINE c == Append(p, m.files[q].name)
    <3>1. c # Root
      BY <2>2, <2>3, FoundBelow DEF home
    <3>2. FindFile(m, c) = q /\ q \in DOMAIN m.files
      BY <2>1, <2>2, <2>3, ListedIsFound DEF home, FilesIn
    <3> HIDE DEF c
    <3> QED
      BY <3>1, <3>2 DEF TypeOf, Accessible, Opens, Outcome, c
  <2>7. ASSUME NEW e \in Listing(p)
        PROVE  /\ TypeOf(m, Append(p, e.name)) = e.type
               /\ Accessible(m, Append(p, e.name)) = "yes"
               /\ Opens(m, Append(p, e.name), e.type) = "yes"
    <3>1. CASE \E q \in DirsIn(m, home) : e = [name |-> m.dirs[q].name, type |-> "directory"]
      BY <2>5, <3>1
    <3>2. CASE \E q \in FilesIn(m, home) : e = [name |-> m.files[q].name, type |-> "file"]
      BY <2>6, <3>2
    <3> QED
      BY <2>4, <3>1, <3>2
  <2>8. ASSUME NEW name \in NamesOf(m), TypeOf(m, Append(p, name)) # "none"
        PROVE  [name |-> name, type |-> TypeOf(m, Append(p, name))] \in Listing(p)
    <3> DEFINE c == Append(p, name)
               q == FindDirectory(m, c)
               f == FindFile(m, c)
    <3>1. /\ c # Root
          /\ q \in DOMAIN m.dirs =>
               m.dirs[q].parent = home /\ m.dirs[q].name = name /\ name # <<>>
          /\ f \in DOMAIN m.files => m.files[f].parent = home /\ m.files[f].name = name
      BY <2>2, <2>3, FoundBelow DEF home
    <3>4. q # Loops /\ f # Loops
      BY <2>1, <2>2, <2>3, IntactReturns
    <3>2. CASE f \in DOMAIN m.files
      <4>1. TypeOf(m, c) = "file"
        BY <3>1, <3>2 DEF TypeOf, Outcome
      <4>2. f \in FilesIn(m, home)
        BY <3>1, <3>2 DEF FilesIn
      <4> HIDE DEF f, c
      <4> QED
        BY <2>4, <3>1, <3>2, <4>1, <4>2 DEF c
    <3>3. CASE f \notin DOMAIN m.files /\ q \in DOMAIN m.dirs
      <4>1. TypeOf(m, c) = "directory"
        BY <3>1, <3>3, <3>4 DEF TypeOf, Outcome
      <4>2. q # 0
        BY <2>1, <3>1, <3>3 DEF Intact
      <4>3. q \in DirsIn(m, home)
        BY <3>1, <3>3, <4>2 DEF DirsIn
      <4> HIDE DEF q, f, c
      <4> QED
        BY <2>4, <3>1, <3>3, <4>1, <4>3 DEF c
    <3> QED
      BY <2>8, <3>1, <3>2, <3>3, <3>4 DEF TypeOf, Outcome
  <2> QED
    BY <2>7, <2>8
<1> QED
  BY ImageStays, <1>1, PTL

\* Two sequences of the same length and with the same elements are the same.
LEMMA SameSeq ==
  ASSUME NEW S, NEW s \in Seq(S), NEW t \in Seq(S), Len(s) = Len(t),
         \A i \in 1 .. Len(s) : s[i] = t[i]
  PROVE  s = t
  OBVIOUS

\* What is left of a sequence behind its first k elements.
LEMMA RestOfSeq ==
  ASSUME NEW S, NEW s \in Seq(S), NEW k \in 0 .. Len(s)
  PROVE  /\ SubSeq(s, k + 1, Len(s)) \in Seq(S)
         /\ Len(SubSeq(s, k + 1, Len(s))) = Len(s) - k
         /\ \A i \in 1 .. Len(s) - k : SubSeq(s, k + 1, Len(s))[i] = s[k + i]
<1>1. Len(s) \in Nat /\ k \in Nat /\ k <= Len(s)
  BY LenProperties
<1>2. \A i \in k + 1 .. Len(s) : s[i] \in S
  BY <1>1, ElementOfSeq
<1>3. /\ SubSeq(s, k + 1, Len(s)) \in Seq(S)
      /\ Len(SubSeq(s, k + 1, Len(s)))
           = IF k + 1 <= Len(s) THEN Len(s) - (k + 1) + 1 ELSE 0
      /\ \A i \in 1 .. Len(s) - (k + 1) + 1 : SubSeq(s, k + 1, Len(s))[i] = s[k + 1 + i - 1]
  BY <1>1, <1>2, SubSeqProperties
<1>4. Len(SubSeq(s, k + 1, Len(s))) = Len(s) - k
  BY <1>1, <1>3
<1>5. \A i \in 1 .. Len(s) - k : SubSeq(s, k + 1, Len(s))[i] = s[k + i]
  <2>1. Len(s) - (k + 1) + 1 = Len(s) - k
    BY <1>1
  <2>2. \A i \in 1 .. Len(s) - k : k + 1 + i - 1 = k + i
    BY <1>1
  <2> QED
    BY <1>3, <2>1, <2>2
<1> QED
  BY <1>3, <1>4, <1>5

LEMMA FirstOfSeq ==
  ASSUME NEW S, NEW s \in Seq(S), NEW k \in 0 .. Len(s)
  PROVE  /\ SubSeq(s, 1, k) \in Seq(S)
         /\ Len(SubSeq(s, 1, k)) = k
         /\ \A i \in 1 .. k : SubSeq(s, 1, k)[i] = s[i]
<1>1. Len(s) \in Nat /\ k \in Nat /\ k <= Len(s)
  BY LenProperties
<1>2. \A i \in 1 .. k : s[i] \in S
  BY <1>1, ElementOfSeq
<1>3. /\ SubSeq(s, 1, k) \in Seq(S)
      /\ Len(SubSeq(s, 1, k)) = IF 1 <= k THEN k - 1 + 1 ELSE 0
      /\ \A i \in 1 .. k - 1 + 1 : SubSeq(s, 1, k)[i] = s[1 + i - 1]
  BY <1>1, <1>2, SubSeqProperties
<1>4. k - 1 + 1 = k /\ \A i \in 1 .. k : 1 + i - 1 = i
  BY <1>1
<1>5. Len(SubSeq(s, 1, k)) = k
  BY <1>1, <1>3, <1>4
<1> QED
  BY <1>3, <1>4, <1>5

\* The rest of two sequences, from within the first or from within the second.
LEMMA RestOfFirst ==
  ASSUME NEW S, NEW s \in Seq(S), NEW t \in Seq(S), NEW k \in 0 .. Len(s)
  PROVE  SubSeq(s, k + 1, Len(s)) \o t = SubSeq(s \o t, k + 1, Len(s \o t))
<1> DEFINE r == SubSeq(s, k + 1, Len(s))
           u == s \o t
           v == SubSeq(u, k + 1, Len(u))
<1>1. Len(s) \in Nat /\ Len(t) \in Nat
  BY LenProperties
<1>2. /\ u \in Seq(S) /\ Len(u) = Len(s) + Len(t)
      /\ \A i \in 1 .. Len(s) + Len(t) : u[i] = IF i <= Len(s) THEN s[i] ELSE t[i - Len(s)]
  BY ConcatProperties
<1>3. /\ r \in Seq(S) /\ Len(r) = Len(s) - k
      /\ \A i \in 1 .. Len(s) - k : r[i] = s[k + i]
  BY RestOfSeq
<1> HIDE DEF r
<1>4. /\ r \o t \in Seq(S) /\ Len(r \o t) = Len(r) + Len(t)
      /\ \A i \in 1 .. Len(r) + Len(t) : (r \o t)[i] = IF i <= Len(r) THEN r[i] ELSE t[i - Len(r)]
  BY <1>3, ConcatProperties
<1> HIDE DEF u
<1>5. k \in 0 .. Len(u)
  BY <1>1, <1>2
<1>6. /\ v \in Seq(S) /\ Len(v) = Len(u) - k
      /\ \A i \in 1 .. Len(u) - k : v[i] = u[k + i]
  BY <1>2, <1>5, RestOfSeq
<1> HIDE DEF v
<1>7. Len(r \o t) = Len(v)
  BY <1>1, <1>2, <1>3, <1>4, <1>6
<1>8. ASSUME NEW i \in 1 .. Len(v) PROVE (r \o t)[i] = v[i]
  <2>1. /\ i \in 1 .. Len(u) - k /\ k + i \in 1 .. Len(s) + Len(t)
        /\ i \in 1 .. Len(r) + Len(t)
    BY <1>1, <1>2, <1>3, <1>6
  <2>2. v[i] = IF k + i <= Len(s) THEN s[k + i] ELSE t[k + i - Len(s)]
    BY <1>2, <1>6, <2>1
  <2>3. (r \o t)[i] = IF i <= Len(r) THEN r[i] ELSE t[i - Len(r)]
    BY <1>4, <2>1
  <2>4. CASE k + i <= Len(s)
    <3>1. i \in 1 .. Len(s) - k /\ i <= Len(r)
      BY <1>1, <1>3, <2>4
    <3> QED
      BY <1>3, <2>2, <2>3, <2>4, <3>1
  <2>5. CASE ~ (k + i <= Len(s))
    <3>1. ~ (i <= Len(r)) /\ i - Len(r) = k + i - Len(s)
      BY <1>1, <1>3, <2>5
    <3> QED
      BY <2>2, <2>3, <2>5, <3>1
  <2> QED
    BY <2>4, <2>5
<1>9. r \o t = v
  BY <1>4, <1>6, <1>7, <1>8, SameSeq
<1> QED
  BY <1>9 DEF r, u, v

LEMMA RestOfSecond ==
  ASSUME NEW S, NEW s \in Seq(S), NEW t \in Seq(S), NEW k \in 0 .. Len(t)
  PROVE  SubSeq(t, k + 1, Len(t)) = SubSeq(s \o t, Len(s) + k + 1, Len(s \o t))
<1> DEFINE r == SubSeq(t, k + 1, Len(t))
           u == s \o t
           v == SubSeq(u, Len(s) + k + 1, Len(u))
<1>1. Len(s) \in Nat /\ Len(t) \in Nat
  BY LenProperties
<1>2. /\ u \in Seq(S) /\ Len(u) = Len(s) + Len(t)
      /\ \A i \in 1 .. Len(s) + Len(t) : u[i] = IF i <= Len(s) THEN s[i] ELSE t[i - Len(s)]
  BY ConcatProperties
<1>3. /\ r \in Seq(S) /\ Len(r) = Len(t) - k
      /\ \A i \in 1 .. Len(t) - k : r[i] = t[k + i]
  BY RestOfSeq
<1> HIDE DEF r, u
<1>4. Len(s) + k \in 0 .. Len(u)
  BY <1>1, <1>2
<1>5. /\ v \in Seq(S) /\ Len(v) = Len(u) - (Len(s) + k)
      /\ \A i \in 1 .. Len(u) - (Len(s) + k) : v[i] = u[Len(s) + k + i]
  BY <1>2, <1>4, RestOfSeq
<1> HIDE DEF v
<1>6. Len(r) = Len(v)
  BY <1>1, <1>2, <1>3, <1>5
<1>7. ASSUME NEW i \in 1 .. Len(r) PROVE r[i] = v[i]
  <2>1. /\ i \in 1 .. Len(u) - (Len(s) + k) /\ Len(s) + k + i \in 1 .. Len(s) + Len(t)
        /\ i \in 1 .. Len(t) - k /\ ~ (Len(s) + k + i <= Len(s))
        /\ Len(s) + k + i - Len(s) = k + i
    BY <1>1, <1>2, <1>3
  <2>2. r[i] = t[k + i]
    BY <1>3, <2>1
  <2>3. v[i] = u[Len(s) + k + i]
    BY <1>5, <2>1
  <2>4. u[Len(s) + k + i] = t[Len(s) + k + i - Len(s)]
    BY <1>2, <2>1
  <2> QED
    BY <2>1, <2>2, <2>3, <2>4
<1>8. r = v
  BY <1>3, <1>5, <1>6, <1>7, SameSeq
<1> QED
  BY <1>8 DEF r, u, v

\* What was delivered and a page of the rest.
LEMMA PageOfRest ==
  ASSUME NEW S, NEW all \in Seq(S), NEW k \in 0 .. Len(all), NEW room \in Nat \ {0}
  PROVE  LET page == Page(SubSeq(all, k + 1, Len(all)), room)
             done == SubSeq(all, 1, k) \o page
         IN /\ Len(done) \in k .. Len(all)
            /\ done = SubSeq(all, 1, Len(done))
            /\ page = <<>> => k = Len(all) /\ Len(done) = k
<1> DEFINE rest == SubSeq(all, k + 1, Len(all))
           page == Page(rest, room)
           old == SubSeq(all, 1, k)
           done == old \o page
           n == IF room < Len(rest) THEN room ELSE Len(rest)
<1>1. Len(all) \in Nat /\ k \in Nat /\ k <= Len(all)
  BY LenProperties
<1>2. /\ rest \in Seq(S) /\ Len(rest) = Len(all) - k
      /\ \A i \in 1 .. Len(all) - k : rest[i] = all[k + i]
  BY RestOfSeq
<1>3. old \in Seq(S) /\ Len(old) = k /\ \A i \in 1 .. k : old[i] = all[i]
  BY FirstOfSeq
<1> HIDE DEF rest, old
<1>4. n \in 0 .. Len(rest) /\ n \in 0 .. Len(all) - k /\ (n = 0 => k = Len(all))
  BY <1>1, <1>2
<1>5. page = SubSeq(rest, 1, n)
  BY DEF Page
<1> HIDE DEF n, page
<1>6. page \in Seq(S) /\ Len(page) = n /\ \A i \in 1 .. n : page[i] = rest[i]
  BY <1>2, <1>4, <1>5, FirstOfSeq
<1>7. /\ done \in Seq(S) /\ Len(done) = k + n
      /\ \A i \in 1 .. k + n : done[i] = IF i <= k THEN old[i] ELSE page[i - k]
  BY <1>3, <1>6, ConcatProperties
<1> HIDE DEF done
<1>8. k + n \in k .. Len(all) /\ k + n \in 0 .. Len(all)
  BY <1>1, <1>4
<1>9. /\ SubSeq(all, 1, k + n) \in Seq(S) /\ Len(SubSeq(all, 1, k + n)) = k + n
      /\ \A i \in 1 .. k + n : SubSeq(all, 1, k + n)[i] = all[i]
  BY <1>8, FirstOfSeq
<1>10. ASSUME NEW i \in 1 .. k + n PROVE done[i] = all[i]
  <2>1. CASE i <= k
    <3>1. i \in 1 .. k
      BY <1>1, <1>4, <2>1
    <3> QED
      BY <1>3, <1>7, <2>1, <3>1
  <2>2. CASE ~ (i <= k)
    <3>1. i - k \in 1 .. n /\ i - k \in 1 .. Len(all) - k /\ k + (i - k) = i
      BY <1>1, <1>4, <2>2
    <3> QED
      BY <1>2, <1>6, <1>7, <2>2, <3>1
  <2> QED
    BY <2>1, <2>2
<1>11. done = SubSeq(all, 1, Len(done))
  BY <1>7, <1>9, <1>10, SameSeq
<1>12. page = <<>> => k = Len(all) /\ Len(done) = k
  <2>1. page = <<>> => n = 0
    BY <1>6
  <2> QED
    BY <1>1, <1>4, <1>7, <2>1
<1> QED
  BY <1>7, <1>8, <1>11, <1>12 DEF rest, page, old, done

\* The list from the sibling of an entry on is what follows that entry in its list.
LEMMA TailWay ==
  ASSUME NEW table, IsTable(table), NEW first, Reach(table, first) # Loops,
         NEW k \in 1 .. Reach(table, first)
  PROVE  LET rest == Way(table, first)[k]
         IN /\ rest = table[Way(table, first)[k - 1]].sibling
            /\ Reach(table, rest) = Reach(table, first) - k
            /\ \A i \in 0 .. Reach(table, first) - k : Way(table, rest)[i] = Way(table, first)[k + i]
<1> DEFINE at == Way(table, first)
           n == Reach(table, first)
           last == Cardinality(DOMAIN table)
           to == Way(table, at[k])
           m == Reach(table, at[k])
           good == {i \in 0 .. n - k : to[i] = at[k + i]}
<1>1. /\ last \in Nat
      /\ \A i \in 1 .. last : at[i] = IF at[i - 1] \in DOMAIN table
                                      THEN table[at[i - 1]].sibling ELSE End
  BY SiblingsRun DEF Way
<1>2. /\ DOMAIN to = 0 .. last /\ to[0] = at[k]
      /\ \A i \in 1 .. last : to[i] = IF to[i - 1] \in DOMAIN table
                                      THEN table[to[i - 1]].sibling ELSE End
  BY SiblingsRun DEF Way
<1>3. n \in 0 .. last /\ at[n] \notin DOMAIN table /\ \A i \in 0 .. n - 1 : at[i] \in DOMAIN table
  BY ReachFacts
<1>4. /\ m = Loops => \A i \in DOMAIN to : to[i] \in DOMAIN table
      /\ m # Loops => /\ m \in 0 .. last /\ to[m] \notin DOMAIN table
                      /\ \A i \in 0 .. m - 1 : to[i] \in DOMAIN table
  BY ReachFacts
<1> k \in 1 .. n
  OBVIOUS
<1> HIDE DEF at, n, last, to, m
<1>5. n \in Nat /\ n - k \in Nat /\ n - k <= last
  BY <1>1, <1>3
<1>6. 0 \in good
  BY <1>2, <1>5
<1>7. \A i \in 1 .. n - k : i - 1 \in good => i \in good
  <2>1. SUFFICES ASSUME NEW i \in 1 .. n - k, to[i - 1] = at[k + (i - 1)]
                 PROVE  to[i] = at[k + i]
    BY <1>5
  <2>2. k + i \in 1 .. last /\ i \in 1 .. last /\ k + i - 1 = k + (i - 1)
    BY <1>1, <1>3, <1>5
  <2>3. at[k + i] = IF at[k + i - 1] \in DOMAIN table THEN table[at[k + i - 1]].sibling ELSE End
    BY <1>1, <2>2
  <2>4. to[i] = IF to[i - 1] \in DOMAIN table THEN table[to[i - 1]].sibling ELSE End
    BY <1>2, <2>2
  <2> QED
    BY <2>1, <2>2, <2>3, <2>4
<1>8. \A i \in 0 .. n - k : i \in good
  <2> HIDE DEF good
  <2> QED
    BY <1>5, <1>6, <1>7, LoopKeeps
<1>9. \A i \in 0 .. n - k : to[i] = at[k + i]
  BY <1>8
<1>10. to[n - k] \notin DOMAIN table
  <2>1. n - k \in 0 .. n - k /\ k + (n - k) = n
    BY <1>5
  <2> QED
    BY <1>3, <1>9, <2>1
<1>11. \A i \in 0 .. n - k - 1 : to[i] \in DOMAIN table
  <2>1. SUFFICES ASSUME NEW i \in 0 .. n - k - 1 PROVE to[i] \in DOMAIN table
    OBVIOUS
  <2>2. i \in 0 .. n - k /\ k + i \in 0 .. n - 1
    BY <1>5
  <2> QED
    BY <1>3, <1>9, <2>2
<1>12. m # Loops
  <2>1. n - k \in DOMAIN to
    BY <1>1, <1>2, <1>5
  <2> QED
    BY <1>4, <1>10, <2>1
<1>13. m = n - k
  <2>1. m \in 0 .. last /\ to[m] \notin DOMAIN table /\ \A i \in 0 .. m - 1 : to[i] \in DOMAIN table
    BY <1>4, <1>12
  <2>2. ~ (n - k < m)
    <3>1. n - k < m => n - k \in 0 .. m - 1
      BY <1>1, <1>5, <2>1
    <3> QED
      BY <1>10, <2>1, <3>1
  <2>3. ~ (m < n - k)
    <3>1. m < n - k => m \in 0 .. n - k - 1
      BY <1>1, <1>5, <2>1
    <3> QED
      BY <1>11, <2>1, <3>1
  <2>4. m \in Nat
    BY <1>1, <2>1
  <2> QED
    BY <1>5, <2>2, <2>3, <2>4
<1>14. at[k] = table[at[k - 1]].sibling
  <2>1. k \in 1 .. last /\ k - 1 \in 0 .. n - 1
    BY <1>1, <1>3
  <2> QED
    BY <1>1, <1>3, <2>1
<1> QED
  BY <1>9, <1>13, <1>14 DEF at, n, to, m

\* And so are its entries.
LEMMA TailListed ==
  ASSUME NEW table, IsTable(table), NEW first, NEW type, Reach(table, first) # Loops,
         NEW k \in 1 .. Reach(table, first)
  PROVE  LET list == Siblings(table, first, type)
             rest == Siblings(table, table[Way(table, first)[k - 1]].sibling, type)
         IN /\ rest.entries = SubSeq(list.entries, k + 1, Len(list.entries))
            /\ rest.outcome = list.outcome
<1> DEFINE at == Way(table, first)
           n == Reach(table, first)
           list == Siblings(table, first, type)
           second == at[k]
           to == Way(table, second)
           m == Reach(table, second)
           rest == Siblings(table, second, type)
           E(q) == [name |-> Listed(table[q].name), type |-> type]
           S == [name : ListedNames(table), type : {type}]
<1>1. /\ second = table[at[k - 1]].sibling /\ m = n - k
      /\ \A i \in 0 .. n - k : to[i] = at[k + i]
  BY TailWay
<1>2. n \in Nat /\ k \in 1 .. n
  BY ReachFacts
<1>3. m # Loops
  <2>1. Loops \notin Nat
    BY DEF Loops
  <2> HIDE DEF m, n
  <2> QED
    BY <1>1, <1>2, <2>1
<1>4. /\ Len(list.entries) = n /\ \A i \in 1 .. n : list.entries[i] = E(at[i - 1])
      /\ list.outcome = "ends" <=> at[n] = End
  BY EntryFacts
<1>5. /\ Len(rest.entries) = m /\ \A i \in 1 .. m : rest.entries[i] = E(to[i - 1])
      /\ rest.outcome = "ends" <=> to[m] = End
  <2> HIDE DEF second
  <2> QED
    BY <1>3, EntryFacts
<1>6. /\ list.entries \in Seq(S) /\ list.outcome \in {"loops", "ends", "breaks"}
      /\ list.outcome = "loops" <=> n = Loops
  BY SiblingsFacts
<1>7. /\ rest.entries \in Seq(S) /\ rest.outcome \in {"loops", "ends", "breaks"}
      /\ rest.outcome = "loops" <=> m = Loops
  <2> HIDE DEF second
  <2> QED
    BY SiblingsFacts
<1> n # Loops
  OBVIOUS
<1> HIDE DEF at, n, list, second, to, m, rest, E, S
<1>8. rest.outcome = list.outcome
  <2>1. to[m] = at[n]
    <3>1. n - k \in 0 .. n - k /\ k + (n - k) = n
      BY <1>2
    <3> QED
      BY <1>1, <3>1
  <2> QED
    BY <1>3, <1>4, <1>5, <1>6, <1>7, <2>1
<1>9. rest.entries = SubSeq(list.entries, k + 1, Len(list.entries))
  <2> DEFINE r == SubSeq(list.entries, k + 1, Len(list.entries))
             es == list.entries
  <2>1. k \in 0 .. Len(es)
    BY <1>2, <1>4
  <2> HIDE DEF es
  <2>2. r \in Seq(S) /\ Len(r) = Len(es) - k /\ \A i \in 1 .. Len(es) - k : r[i] = es[k + i]
    BY <1>6, <2>1, RestOfSeq DEF es
  <2> HIDE DEF r
  <2>3. Len(r) = m /\ m = n - k
    BY <1>1, <1>4, <2>2 DEF es
  <2>4. ASSUME NEW i \in 1 .. m PROVE rest.entries[i] = r[i]
    <3>1. /\ i - 1 \in 0 .. n - k /\ k + i \in 1 .. n /\ k + (i - 1) = k + i - 1
          /\ i \in 1 .. Len(es) - k
      BY <1>2, <1>4, <2>3 DEF es
    <3>2. r[i] = E(at[k + i - 1])
      BY <1>4, <2>2, <3>1 DEF es
    <3>3. rest.entries[i] = E(at[k + (i - 1)])
      BY <1>1, <1>5, <3>1
    <3> QED
      BY <3>1, <3>2, <3>3
  <2> QED
    BY <1>5, <1>7, <2>2, <2>3, <2>4, SameSeq DEF r
<1>10. rest = Siblings(table, table[at[k - 1]].sibling, type)
  BY <1>1 DEF rest
<1> QED
  BY <1>8, <1>9, <1>10 DEF list, at

\* Nothing is listed from the end on.
LEMMA NothingListed ==
  ASSUME NEW table, IsTable(table), NEW type
  PROVE  /\ Siblings(table, End, type).entries = <<>>
         /\ Siblings(table, End, type).outcome = "ends"
<1>1. End \notin DOMAIN table
  BY DEF IsTable, End
<1>2. 0 \in DOMAIN Way(table, End) /\ Way(table, End)[0] = End
  BY SiblingsRun DEF Way
<1>3. Reach(table, End) = 0
  <2>1. Reach(table, End) # Loops
    BY <1>1, <1>2, ReachFacts
  <2>2. Reach(table, End) \in Nat
    BY <2>1, ReachFacts
  <2>3. 0 < Reach(table, End) => 0 \in 0 .. Reach(table, End) - 1
    BY <2>2
  <2>4. ~ (0 < Reach(table, End))
    BY <1>1, <1>2, <2>1, <2>3, ReachFacts
  <2> QED
    BY <2>2, <2>4
<1>4. Reach(table, End) # Loops
  BY <1>3 DEF Loops
<1>5. Len(Siblings(table, End, type).entries) = 0 /\ Siblings(table, End, type).outcome = "ends"
  BY <1>2, <1>3, <1>4, EntryFacts
<1>6. Siblings(table, End, type).entries \in Seq([name : ListedNames(table), type : {type}])
  BY SiblingsFacts
<1> QED
  BY <1>5, <1>6, EmptySeq

\* No position comes twice in a list that ends or breaks off.
LEMMA WayIsApart ==
  ASSUME NEW table, IsTable(table), NEW first, Reach(table, first) # Loops,
         NEW i \in 0 .. Reach(table, first) - 1, NEW j \in 0 .. Reach(table, first) - 1,
         Way(table, first)[i] = Way(table, first)[j]
  PROVE  i = j
<1> DEFINE at == Way(table, first)
           n == Reach(table, first)
           last == Cardinality(DOMAIN table)
<1>1. /\ last \in Nat
      /\ \A k \in 1 .. last : at[k] = IF at[k - 1] \in DOMAIN table
                                      THEN table[at[k - 1]].sibling ELSE End
  BY SiblingsRun DEF Way
<1>2. n \in 0 .. last /\ at[n] \notin DOMAIN table /\ \A k \in 0 .. n - 1 : at[k] \in DOMAIN table
  BY ReachFacts
<1>3. i \in 0 .. n - 1 /\ j \in 0 .. n - 1 /\ at[i] = at[j]
  OBVIOUS
<1> HIDE DEF at, n, last
<1>4. ASSUME NEW a \in 0 .. n - 1, NEW b \in 0 .. n - 1, a < b, at[a] = at[b] PROVE FALSE
  <2> DEFINE good == {k \in 0 .. n - b : at[a + k] = at[b + k]}
  <2>1. n \in Nat /\ n - b \in Nat
    BY <1>1, <1>2
  <2>2. 0 \in good
    BY <1>4, <2>1
  <2>3. \A k \in 1 .. n - b : k - 1 \in good => k \in good
    <3>1. SUFFICES ASSUME NEW k \in 1 .. n - b, at[a + (k - 1)] = at[b + (k - 1)]
                   PROVE  at[a + k] = at[b + k]
      BY <2>1
    <3>2. /\ a + k \in 1 .. last /\ a + k - 1 = a + (k - 1)
          /\ b + k \in 1 .. last /\ b + k - 1 = b + (k - 1)
      BY <1>1, <1>2, <1>4, <2>1
    <3> QED
      BY <1>1, <3>1, <3>2
  <2>4. \A k \in 0 .. n - b : k \in good
    <3> HIDE DEF good
    <3> QED
      BY <2>1, <2>2, <2>3, LoopKeeps
  <2>5. /\ n - b \in 0 .. n - b /\ b + (n - b) = n
        /\ a + (n - b) \in 0 .. n - 1
    BY <1>4, <2>1
  <2>6. at[a + (n - b)] = at[b + (n - b)]
    BY <2>4, <2>5
  <2> QED
    BY <1>2, <2>5, <2>6
<1>5. n \in Nat
  BY <1>1, <1>2
<1>6. ~ (i < j) /\ ~ (j < i)
  BY <1>3, <1>4
<1> QED
  BY <1>3, <1>5, <1>6

\* What forEachEntry delivers from the heads of a directory on.
All(m, d) ==
  Ahead(Siblings(m.dirs, d.dir, "directory"), Siblings(m.files, d.file, "file"))

DirEntry(m, q) == [name |-> Listed(m.dirs[q].name), type |-> "directory"]
FileEntry(m, q) == [name |-> Listed(m.files[q].name), type |-> "file"]

\* Both lists stay in the directory.
Stays(m, d) ==
  StaysIn(m.dirs, d.dir, Home(m, d.path)) /\ StaysIn(m.files, d.file, Home(m, d.path))

\* The k-th entry that is delivered comes from the k-th position of the list of
\* directories, or from the list of files when that one is through.
LEMMA AllFacts ==
  ASSUME NEW m \in Images, NEW d, ~ NeverEnds(m, d)
  PROVE  LET nd == Reach(m.dirs, d.dir)
             nf == Reach(m.files, d.file)
             all == All(m, d)
         IN /\ nd # Loops /\ nf # Loops /\ nd \in Nat /\ nf \in Nat
            /\ all \in Seq(EntriesOf(m)) /\ Len(all) \in nd .. nd + nf
            /\ \A k \in 1 .. nd :
                 /\ Way(m.dirs, d.dir)[k - 1] \in ListFrom(m.dirs, d.dir)
                 /\ Way(m.dirs, d.dir)[k - 1] \in DOMAIN m.dirs
                 /\ all[k] = DirEntry(m, Way(m.dirs, d.dir)[k - 1])
            /\ Len(all) > nd => Siblings(m.dirs, d.dir, "directory").outcome = "ends"
            /\ \A k \in nd + 1 .. Len(all) :
                 /\ Way(m.files, d.file)[k - nd - 1] \in ListFrom(m.files, d.file)
                 /\ Way(m.files, d.file)[k - nd - 1] \in DOMAIN m.files
                 /\ all[k] = FileEntry(m, Way(m.files, d.file)[k - nd - 1])
<1> DEFINE nd == Reach(m.dirs, d.dir)
           nf == Reach(m.files, d.file)
           wd == Way(m.dirs, d.dir)
           wf == Way(m.files, d.file)
           ds == Siblings(m.dirs, d.dir, "directory")
           fs == Siblings(m.files, d.file, "file")
           all == All(m, d)
<1>1. IsTable(m.dirs) /\ IsTable(m.files)
  BY ImageFacts
<1>2. nd # Loops /\ nf # Loops
  BY <1>1, OutcomeFacts DEF NeverEnds
<1>3. nd \in Nat /\ \A i \in 0 .. nd - 1 : wd[i] \in DOMAIN m.dirs
  BY <1>1, <1>2, ReachFacts
<1>4. nf \in Nat /\ \A i \in 0 .. nf - 1 : wf[i] \in DOMAIN m.files
  BY <1>1, <1>2, ReachFacts
<1>5. Len(ds.entries) = nd /\ \A i \in 1 .. nd : ds.entries[i] = DirEntry(m, wd[i - 1])
  <2>1. Len(ds.entries) = nd
    BY <1>1, <1>2, EntryFacts
  <2>2. \A i \in 1 .. nd : ds.entries[i] = [name |-> Listed(m.dirs[wd[i - 1]].name), type |-> "directory"]
    BY <1>1, <1>2, EntryFacts
  <2> HIDE DEF ds, nd, wd
  <2> QED
    BY <2>1, <2>2 DEF DirEntry
<1>6. Len(fs.entries) = nf /\ \A i \in 1 .. nf : fs.entries[i] = FileEntry(m, wf[i - 1])
  BY <1>1, <1>2, EntryFacts DEF FileEntry
<1>7. ds.entries \in Seq(EntriesOf(m)) /\ fs.entries \in Seq(EntriesOf(m))
  BY ListsAreEntries
<1>8. /\ ListFrom(m.dirs, d.dir) = {wd[i] : i \in 0 .. nd - 1}
      /\ ListFrom(m.files, d.file) = {wf[i] : i \in 0 .. nf - 1}
  BY <1>1, <1>2, ListFromFacts
<1>9. all = IF ds.outcome = "ends" THEN ds.entries \o fs.entries ELSE ds.entries
  BY DEF All, Ahead
<1> HIDE DEF nd, nf, wd, wf, ds, fs, all
<1>10. \A k \in 1 .. nd : k - 1 \in 0 .. nd - 1
  BY <1>3
<1>11. \A k \in nd + 1 .. nd + nf : k - nd \in 1 .. nf /\ k - nd - 1 \in 0 .. nf - 1 /\ ~ (k <= nd)
                                    /\ k \in 1 .. nd + nf
  BY <1>3, <1>4
<1>12. ds.entries \o fs.entries \in Seq(EntriesOf(m))
       /\ Len(ds.entries \o fs.entries) = nd + nf
       /\ \A k \in 1 .. nd + nf : (ds.entries \o fs.entries)[k]
            = IF k <= nd THEN ds.entries[k] ELSE fs.entries[k - nd]
  BY <1>5, <1>6, <1>7, ConcatProperties
<1>13. all \in Seq(EntriesOf(m)) /\ Len(all) \in {nd, nd + nf}
       /\ (Len(all) > nd => ds.outcome = "ends" /\ Len(all) = nd + nf)
  <2>1. CASE ds.outcome = "ends"
    BY <1>9, <1>12, <2>1
  <2>2. CASE ds.outcome # "ends"
    <3>1. all = ds.entries
      BY <1>9, <2>2
    <3>2. ~ (Len(all) > nd)
      BY <1>3, <1>5, <3>1
    <3> QED
      BY <1>5, <1>7, <3>1, <3>2
  <2> QED
    BY <2>1, <2>2
<1>14. ASSUME NEW k \in 1 .. nd
       PROVE  wd[k - 1] \in ListFrom(m.dirs, d.dir) /\ wd[k - 1] \in DOMAIN m.dirs
              /\ all[k] = DirEntry(m, wd[k - 1])
  <2>1. wd[k - 1] \in ListFrom(m.dirs, d.dir) /\ wd[k - 1] \in DOMAIN m.dirs
    BY <1>3, <1>8, <1>10
  <2>2. all[k] = ds.entries[k]
    <3>1. k \in 1 .. nd + nf /\ k <= nd
      BY <1>3, <1>4
    <3> QED
      BY <1>9, <1>12, <3>1
  <2> QED
    BY <1>5, <2>1, <2>2
<1>15. ASSUME NEW k \in nd + 1 .. Len(all)
       PROVE  wf[k - nd - 1] \in ListFrom(m.files, d.file) /\ wf[k - nd - 1] \in DOMAIN m.files
              /\ all[k] = FileEntry(m, wf[k - nd - 1])
  <2>1. Len(all) > nd
    BY <1>3, <1>4, <1>13
  <2>2. ds.outcome = "ends" /\ k \in nd + 1 .. nd + nf
    BY <1>13, <2>1
  <2>3. k - nd \in 1 .. nf /\ k - nd - 1 \in 0 .. nf - 1 /\ ~ (k <= nd) /\ k \in 1 .. nd + nf
    BY <1>11, <2>2
  <2>4. all[k] = fs.entries[k - nd]
    BY <1>9, <1>12, <2>2, <2>3
  <2> QED
    BY <1>4, <1>6, <1>8, <2>3, <2>4
<1>16. Len(all) \in nd .. nd + nf
  BY <1>3, <1>4, <1>13
<1> QED
  BY <1>2, <1>3, <1>4, <1>13, <1>14, <1>15, <1>16 DEF nd, nf, wd, wf, ds, all

\* A directory whose lists stay in it delivers no entry twice.
LEMMA AllApart ==
  ASSUME NEW m \in Images, NEW d, ~ NeverEnds(m, d), Stays(m, d),
         NEW i \in 1 .. Len(All(m, d)), NEW j \in 1 .. Len(All(m, d)),
         All(m, d)[i] = All(m, d)[j]
  PROVE  i = j
<1> DEFINE nd == Reach(m.dirs, d.dir)
           nf == Reach(m.files, d.file)
           wd == Way(m.dirs, d.dir)
           wf == Way(m.files, d.file)
           all == All(m, d)
           home == Home(m, d.path)
<1>1. /\ nd # Loops /\ nf # Loops /\ nd \in Nat /\ nf \in Nat
      /\ Len(all) \in nd .. nd + nf
      /\ \A k \in 1 .. nd :
           /\ wd[k - 1] \in ListFrom(m.dirs, d.dir) /\ wd[k - 1] \in DOMAIN m.dirs
           /\ all[k] = DirEntry(m, wd[k - 1])
      /\ \A k \in nd + 1 .. Len(all) :
           /\ wf[k - nd - 1] \in ListFrom(m.files, d.file) /\ wf[k - nd - 1] \in DOMAIN m.files
           /\ all[k] = FileEntry(m, wf[k - nd - 1])
  BY AllFacts
<1>2. /\ \A q \in ListFrom(m.dirs, d.dir) : m.dirs[q].parent = home
      /\ \A q \in ListFrom(m.files, d.file) : m.files[q].parent = home
  BY DEF Stays, StaysIn
<1>3. ASSUME NEW a \in 0 .. nd - 1, NEW b \in 0 .. nd - 1, wd[a] = wd[b] PROVE a = b
  BY <1>1, <1>3, ImageFacts, WayIsApart
<1>4. ASSUME NEW a \in 0 .. nf - 1, NEW b \in 0 .. nf - 1, wf[a] = wf[b] PROVE a = b
  BY <1>1, <1>4, ImageFacts, WayIsApart
<1>5. i \in 1 .. Len(all) /\ j \in 1 .. Len(all) /\ all[i] = all[j]
  OBVIOUS
<1> HIDE DEF nd, nf, wd, wf, all, home
<1>6. /\ \A q : DirEntry(m, q).type = "directory" /\ DirEntry(m, q).name = Listed(m.dirs[q].name)
      /\ \A q : FileEntry(m, q).type = "file" /\ FileEntry(m, q).name = Listed(m.files[q].name)
  BY DEF DirEntry, FileEntry
<1>7. i <= nd <=> j <= nd
  <2>1. \A k \in 1 .. Len(all) : k <= nd => all[k].type = "directory"
    <3>1. SUFFICES ASSUME NEW k \in 1 .. Len(all), k <= nd PROVE all[k].type = "directory"
      OBVIOUS
    <3>2. k \in 1 .. nd
      BY <1>1, <3>1
    <3> QED
      BY <1>1, <1>6, <3>2
  <2>2. \A k \in 1 .. Len(all) : ~ (k <= nd) => all[k].type = "file"
    <3>1. SUFFICES ASSUME NEW k \in 1 .. Len(all), ~ (k <= nd) PROVE all[k].type = "file"
      OBVIOUS
    <3>2. k \in nd + 1 .. Len(all)
      BY <1>1, <3>1
    <3> QED
      BY <1>1, <1>6, <3>2
  <2>3. "file" # "directory"
    OBVIOUS
  <2> QED
    BY <1>5, <2>1, <2>2, <2>3
<1>8. CASE i <= nd
  <2>1. i \in 1 .. nd /\ j \in 1 .. nd
    BY <1>1, <1>5, <1>7, <1>8
  <2>2. DirEntry(m, wd[i - 1]).name = DirEntry(m, wd[j - 1]).name
    BY <1>1, <1>5, <2>1
  <2>3. wd[i - 1] = wd[j - 1]
    <3> DEFINE p == wd[i - 1]
               q == wd[j - 1]
    <3>1. p \in DOMAIN m.dirs /\ q \in DOMAIN m.dirs /\ m.dirs[p].parent = m.dirs[q].parent
      BY <1>1, <1>2, <2>1
    <3> HIDE DEF p, q
    <3>2. Listed(m.dirs[p].name) = Listed(m.dirs[q].name)
      BY <1>6, <2>2 DEF p, q
    <3>3. p = q
      BY <3>1, <3>2, NamesApart
    <3> QED
      BY <3>3 DEF p, q
  <2>4. i - 1 \in 0 .. nd - 1 /\ j - 1 \in 0 .. nd - 1
    BY <1>1, <2>1
  <2>5. i - 1 = j - 1
    BY <1>3, <2>3, <2>4
  <2> QED
    BY <2>1, <2>5
<1>9. CASE ~ (i <= nd)
  <2>1. i \in nd + 1 .. Len(all) /\ j \in nd + 1 .. Len(all)
    BY <1>1, <1>5, <1>7, <1>9
  <2>2. FileEntry(m, wf[i - nd - 1]).name = FileEntry(m, wf[j - nd - 1]).name
    BY <1>1, <1>5, <2>1
  <2>3. wf[i - nd - 1] = wf[j - nd - 1]
    <3> DEFINE p == wf[i - nd - 1]
               q == wf[j - nd - 1]
    <3>1. p \in DOMAIN m.files /\ q \in DOMAIN m.files /\ m.files[p].parent = m.files[q].parent
      BY <1>1, <1>2, <2>1
    <3> HIDE DEF p, q
    <3>2. Listed(m.files[p].name) = Listed(m.files[q].name)
      BY <1>6, <2>2 DEF p, q
    <3>3. p = q
      BY <3>1, <3>2, NamesApart
    <3> QED
      BY <3>3 DEF p, q
  <2>4. i - nd - 1 \in 0 .. nf - 1 /\ j - nd - 1 \in 0 .. nf - 1
    BY <1>1, <2>1
  <2>5. i - nd - 1 = j - nd - 1
    BY <1>4, <2>3, <2>4
  <2> QED
    BY <1>1, <2>1, <2>5
<1> QED
  BY <1>8, <1>9

-----------------------------------------------------------------------------
\* A name that was cut is not cut again.
LEMMA ListedTwice ==
  ASSUME NEW name \in Seq(Nat)
  PROVE  Listed(Listed(name)) = Listed(name)
<1>1. MaxPath \in Nat \ {0} /\ Len(name) \in Nat
  BY RomFsAssumption, LenProperties
<1> DEFINE k == IF Len(name) < MaxPath THEN Len(name) ELSE MaxPath - 1
<1>2. k \in 0 .. Len(name) /\ k < MaxPath
  BY <1>1
<1>3. Listed(name) = SubSeq(name, 1, k)
  BY DEF Listed
<1> HIDE DEF k
<1>4. Listed(name) \in Seq(Nat) /\ Len(Listed(name)) = k
  BY <1>2, <1>3, FirstOfSeq
<1> QED
  BY <1>2, <1>4, ListedShort

\* A directory is followed by what comes behind it, if a lookup finds it; in an intact
\* image it does.
LEMMA ResumeBehindDirectory ==
  ASSUME NEW m \in Images, NEW d, NEW S, d.path \in Seq(S), Home(m, d.path) \in Nat,
         ~ NeverEnds(m, d), Stays(m, d), NEW k \in 1 .. Reach(m.dirs, d.dir)
  PROVE  LET all == All(m, d)
             next == All(m, Heads(m, d, all[k].name))
             q == Way(m.dirs, d.dir)[k - 1]
         IN \/ next = SubSeq(all, k + 1, Len(all))
            \/ next = <<>> /\ FindDirectory(m, Append(d.path, all[k].name)) # q
<1> DEFINE all == All(m, d)
           q == Way(m.dirs, d.dir)[k - 1]
           marker == all[k].name
           heads == Heads(m, d, marker)
           home == Home(m, d.path)
           fd == FindDirectory(m, Append(d.path, marker))
           ff == FindFile(m, Append(d.path, marker))
           ds == Siblings(m.dirs, d.dir, "directory")
           fs == Siblings(m.files, d.file, "file")
<1>1. IsTable(m.dirs) /\ IsTable(m.files)
  BY ImageFacts
<1>2. /\ Reach(m.dirs, d.dir) # Loops /\ Reach(m.dirs, d.dir) \in Nat
      /\ q \in ListFrom(m.dirs, d.dir) /\ q \in DOMAIN m.dirs /\ all[k] = DirEntry(m, q)
  BY AllFacts
<1>3. m.dirs[q].parent = home /\ marker = Listed(m.dirs[q].name) /\ marker # <<>>
  BY <1>2 DEF Stays, StaysIn, DirEntry
<1>4. d.dir # End
  <2>1. 0 \in 0 .. Reach(m.dirs, d.dir) - 1
    BY <1>2
  <2>2. Way(m.dirs, d.dir)[0] = d.dir
    BY <1>1, SiblingsRun DEF Way
  <2>3. d.dir \in DOMAIN m.dirs
    BY <1>1, <1>2, <2>1, <2>2, ReachFacts
  <2> QED
    BY <1>1, <2>3 DEF IsTable, End
<1>5. Listed(marker) = marker
  <2>1. m.dirs[q].name \in Seq(Nat)
    BY <1>1, <1>2 DEF IsTable
  <2> QED
    BY <1>3, <2>1, ListedTwice
<1>6. /\ fd \in DOMAIN m.dirs => m.dirs[fd].parent = home /\ m.dirs[fd].name = marker
      /\ ff \in DOMAIN m.files => m.files[ff].parent = home /\ m.files[ff].name = marker
  BY FoundBelow
<1>7. heads = [dir |-> IF marker = <<>> \/ d.dir = End THEN d.dir
                       ELSE IF d.dir # End /\ fd \in DOMAIN m.dirs THEN m.dirs[fd].sibling ELSE End,
               file |-> IF marker = <<>> \/ (d.dir # End /\ fd \in DOMAIN m.dirs) \/ d.file = End
                        THEN d.file
                        ELSE IF ff \in DOMAIN m.files THEN m.files[ff].sibling ELSE End]
  BY DEF Heads
<1> HIDE DEF q, marker, home, fd, ff, heads
<1>8. CASE fd \in DOMAIN m.dirs
  <2>1. fd = q
    BY <1>2, <1>3, <1>5, <1>6, <1>8, NamesApart
  <2>2. heads.dir = m.dirs[q].sibling /\ heads.file = d.file
    BY <1>3, <1>4, <1>7, <1>8, <2>1
  <2> DEFINE rest == Siblings(m.dirs, m.dirs[q].sibling, "directory")
  <2>3. rest.entries = SubSeq(ds.entries, k + 1, Len(ds.entries)) /\ rest.outcome = ds.outcome
    BY <1>1, <1>2, TailListed DEF q
  <2>4. All(m, heads) = Ahead(rest, fs)
    BY <2>2 DEF All
  <2>5. all = Ahead(ds, fs)
    BY DEF All
  <2>6. ds.entries \in Seq(EntriesOf(m)) /\ fs.entries \in Seq(EntriesOf(m))
    BY ListsAreEntries
  <2>7. k \in 0 .. Len(ds.entries)
    BY <1>1, <1>2, EntryFacts
  <2> HIDE DEF rest, ds, fs, all
  <2>8. All(m, heads) = SubSeq(all, k + 1, Len(all))
    <3>1. CASE ds.outcome = "ends"
      BY <2>3, <2>4, <2>5, <2>6, <2>7, <3>1, RestOfFirst DEF Ahead
    <3>2. CASE ds.outcome # "ends"
      BY <2>3, <2>4, <2>5, <3>2 DEF Ahead
    <3> QED
      BY <3>1, <3>2
  <2> QED
    BY <2>8 DEF all, marker, heads
<1>9. CASE fd \notin DOMAIN m.dirs
  <2>1. ff \notin DOMAIN m.files
    BY <1>2, <1>3, <1>5, <1>6, NamesApart
  <2>2. heads.dir = End /\ heads.file = End
    BY <1>3, <1>4, <1>7, <1>9, <2>1
  <2>3. All(m, heads) = <<>> \o <<>>
    BY <1>1, <2>2, NothingListed DEF All, Ahead
  <2>4. <<>> \o <<>> = <<>>
    OBVIOUS
  <2>5. fd # q
    BY <1>2, <1>9
  <2> QED
    BY <2>3, <2>4, <2>5 DEF marker, heads, fd, q
<1> QED
  BY <1>8, <1>9

\* The same behind a file.
LEMMA ResumeBehindFile ==
  ASSUME NEW m \in Images, NEW d, NEW S, d.path \in Seq(S), Home(m, d.path) \in Nat,
         ~ NeverEnds(m, d), Stays(m, d),
         NEW k \in Reach(m.dirs, d.dir) + 1 .. Len(All(m, d))
  PROVE  LET all == All(m, d)
             next == All(m, Heads(m, d, all[k].name))
             q == Way(m.files, d.file)[k - Reach(m.dirs, d.dir) - 1]
         IN \/ next = SubSeq(all, k + 1, Len(all))
            \/ next = <<>> /\ FindFile(m, Append(d.path, all[k].name)) # q
<1> DEFINE all == All(m, d)
           nd == Reach(m.dirs, d.dir)
           nf == Reach(m.files, d.file)
           j == k - nd
           q == Way(m.files, d.file)[k - nd - 1]
           marker == all[k].name
           heads == Heads(m, d, marker)
           home == Home(m, d.path)
           fd == FindDirectory(m, Append(d.path, marker))
           ff == FindFile(m, Append(d.path, marker))
           ds == Siblings(m.dirs, d.dir, "directory")
           fs == Siblings(m.files, d.file, "file")
<1>1. IsTable(m.dirs) /\ IsTable(m.files)
  BY ImageFacts
<1>2. /\ nd # Loops /\ nd \in Nat /\ nf # Loops /\ nf \in Nat
      /\ Len(all) \in nd .. nd + nf
  BY AllFacts
<1>3. /\ q \in ListFrom(m.files, d.file) /\ q \in DOMAIN m.files /\ all[k] = FileEntry(m, q)
  BY AllFacts
<1>4. ds.outcome = "ends"
  <2>1. Len(all) > nd
    BY <1>2
  <2> QED
    BY <2>1, AllFacts
<1>5. j \in 1 .. nf /\ j - 1 = k - nd - 1 /\ nd + j = k
  BY <1>2
<1>6. m.files[q].parent = home /\ marker = Listed(m.files[q].name) /\ marker # <<>>
  BY <1>3 DEF Stays, StaysIn, FileEntry
<1>7. d.file # End
  <2>1. 0 \in 0 .. nf - 1
    BY <1>2, <1>5
  <2>2. Way(m.files, d.file)[0] = d.file
    BY <1>1, SiblingsRun DEF Way
  <2>3. d.file \in DOMAIN m.files
    BY <1>1, <1>2, <2>1, <2>2, ReachFacts
  <2> QED
    BY <1>1, <2>3 DEF IsTable, End
<1>8. Listed(marker) = marker
  <2>1. m.files[q].name \in Seq(Nat)
    BY <1>1, <1>3 DEF IsTable
  <2> QED
    BY <1>6, <2>1, ListedTwice
<1>9. /\ fd \in DOMAIN m.dirs => m.dirs[fd].parent = home /\ m.dirs[fd].name = marker
      /\ ff \in DOMAIN m.files => m.files[ff].parent = home /\ m.files[ff].name = marker
  BY FoundBelow
<1>10. heads = [dir |-> IF marker = <<>> \/ d.dir = End THEN d.dir
                        ELSE IF d.dir # End /\ fd \in DOMAIN m.dirs THEN m.dirs[fd].sibling ELSE End,
                file |-> IF marker = <<>> \/ (d.dir # End /\ fd \in DOMAIN m.dirs) \/ d.file = End
                         THEN d.file
                         ELSE IF ff \in DOMAIN m.files THEN m.files[ff].sibling ELSE End]
  BY DEF Heads
<1>11. ds.entries \in Seq(EntriesOf(m)) /\ fs.entries \in Seq(EntriesOf(m))
  BY ListsAreEntries
<1>12. Len(ds.entries) = nd /\ Len(fs.entries) = nf
  BY <1>1, <1>2, EntryFacts
<1>13. all = ds.entries \o fs.entries
  BY <1>4 DEF All, Ahead
<1> DEFINE rest == Siblings(m.files, m.files[q].sibling, "file")
<1>14. rest.entries = SubSeq(fs.entries, j + 1, Len(fs.entries))
  <2>1. rest = Siblings(m.files, m.files[Way(m.files, d.file)[j - 1]].sibling, "file")
    BY <1>5
  <2>2. j \in 1 .. Reach(m.files, d.file) /\ Reach(m.files, d.file) # Loops
    BY <1>2, <1>5
  <2> HIDE DEF j, rest
  <2>3. Siblings(m.files, m.files[Way(m.files, d.file)[j - 1]].sibling, "file").entries
          = SubSeq(fs.entries, j + 1, Len(fs.entries))
    <3> DEFINE table == m.files
               first == d.file
    <3>1. IsTable(table) /\ j \in 1 .. Reach(table, first) /\ Reach(table, first) # Loops
      BY <1>1, <2>2
    <3> HIDE DEF table, first
    <3>2. Siblings(table, table[Way(table, first)[j - 1]].sibling, "file").entries
            = SubSeq(Siblings(table, first, "file").entries, j + 1,
                     Len(Siblings(table, first, "file").entries))
      BY <3>1, TailListed
    <3> QED
      BY <3>2 DEF table, first
  <2> QED
    BY <2>1, <2>3
<1> HIDE DEF q, marker, home, fd, ff, heads, ds, fs, all, nd, nf, j, rest
<1>15. fd \notin DOMAIN m.dirs
  BY <1>3, <1>6, <1>8, <1>9, NamesApart
<1>16. heads.dir = End
  BY <1>6, <1>10, <1>15
<1>17. CASE ff \in DOMAIN m.files
  <2>1. ff = q
    BY <1>3, <1>6, <1>8, <1>9, <1>17, NamesApart
  <2>2. heads.file = m.files[q].sibling
    BY <1>6, <1>7, <1>10, <1>15, <1>17, <2>1
  <2>3. All(m, heads) = <<>> \o rest.entries
    BY <1>1, <1>16, <2>2, NothingListed DEF All, Ahead, rest
  <2>4. j \in 0 .. Len(fs.entries) /\ k = Len(ds.entries) + j
    BY <1>2, <1>5, <1>12
  <2>5. rest.entries = SubSeq(all, k + 1, Len(all))
    BY <1>11, <1>13, <1>14, <2>4, RestOfSecond
  <2>6. rest.entries \in Seq(EntriesOf(m))
    BY <1>11, <1>14, <2>4, RestOfSeq
  <2>7. <<>> \o rest.entries = rest.entries
    BY <2>6, ConcatEmptySeq
  <2> QED
    BY <2>3, <2>5, <2>7 DEF all, marker, heads
<1>18. CASE ff \notin DOMAIN m.files
  <2>1. heads.file = End
    BY <1>6, <1>7, <1>10, <1>15, <1>18
  <2>2. All(m, heads) = <<>> \o <<>>
    BY <1>1, <1>16, <2>1, NothingListed DEF All, Ahead
  <2>3. <<>> \o <<>> = <<>>
    OBVIOUS
  <2>4. ff # q
    BY <1>3, <1>18
  <2> QED
    BY <2>2, <2>3, <2>4 DEF all, marker, heads, ff, q, nd
<1> QED
  BY <1>17, <1>18

\* A directory that is open: its lists end or break off.
Opened(m, d) ==
  /\ d.path \in KnownPaths(m) /\ d = DirectoryAt(m, d.path)
  /\ Opens(m, d.path, "directory") = "yes" /\ ~ NeverEnds(m, d)

LEMMA HomeIsNat ==
  ASSUME NEW m \in Images, NEW d, Opened(m, d)
  PROVE  d.path \in Seq(NamesOf(m)) /\ Home(m, d.path) \in Nat
<1>1. d.path \in Seq(NamesOf(m))
  BY KnownFacts DEF Opened
<1>2. Home(m, d.path) \in DOMAIN m.dirs \cup {0}
  BY DEF Opened, Opens, Outcome, Home
<1> QED
  BY <1>1, <1>2, ImageFacts

LEMMA IntactStays ==
  ASSUME NEW m \in Images, Intact(m), NEW d, Opened(m, d)
  PROVE  Stays(m, d)
<1> DEFINE home == Home(m, d.path)
<1>1. d = DirectoryAt(m, d.path) /\ Opens(m, d.path, "directory") = "yes"
  BY DEF Opened
<1>2. ListFrom(m.dirs, d.dir) = DirsIn(m, home) /\ ListFrom(m.files, d.file) = FilesIn(m, home)
  BY <1>1, OpenedFacts
<1> HIDE DEF home
<1>3. \A q \in DirsIn(m, home) : m.dirs[q].parent = home /\ Listed(m.dirs[q].name) # <<>>
  BY IntactFacts DEF DirsIn
<1>4. \A q \in FilesIn(m, home) : m.files[q].parent = home /\ Listed(m.files[q].name) # <<>>
  BY IntactFacts DEF FilesIn
<1> QED
  BY <1>2, <1>3, <1>4 DEF Stays, StaysIn, home

\* Behind the first k entries come the others, or nothing; in an intact image the others.
LEMMA ResumeFacts ==
  ASSUME NEW m \in Images, NEW d, Opened(m, d), Stays(m, d), NEW k \in 1 .. Len(All(m, d))
  PROVE  LET all == All(m, d)
             next == All(m, Heads(m, d, all[k].name))
         IN /\ next = SubSeq(all, k + 1, Len(all)) \/ next = <<>>
            /\ Intact(m) => next = SubSeq(all, k + 1, Len(all))
<1> DEFINE all == All(m, d)
           nd == Reach(m.dirs, d.dir)
           next == All(m, Heads(m, d, all[k].name))
           home == Home(m, d.path)
           wd == Way(m.dirs, d.dir)[k - 1]
           wf == Way(m.files, d.file)[k - nd - 1]
           c == Append(d.path, all[k].name)
<1>1. d.path \in Seq(NamesOf(m)) /\ home \in Nat
  BY HomeIsNat
<1>2. ~ NeverEnds(m, d)
  BY DEF Opened
<1>3. nd \in Nat /\ Len(all) \in Nat
  BY <1>2, AllFacts
<1>4. ASSUME Intact(m)
      PROVE  /\ home \in DOMAIN m.dirs
             /\ ListFrom(m.dirs, d.dir) = DirsIn(m, home)
             /\ ListFrom(m.files, d.file) = FilesIn(m, home)
  BY <1>4, OpenedFacts DEF Opened
<1>5. CASE k \in 1 .. nd
  <2>1. next = SubSeq(all, k + 1, Len(all)) \/ (next = <<>> /\ FindDirectory(m, c) # wd)
    BY <1>1, <1>2, <1>5, ResumeBehindDirectory
  <2>2. wd \in ListFrom(m.dirs, d.dir) /\ wd \in DOMAIN m.dirs /\ all[k] = DirEntry(m, wd)
    BY <1>2, <1>5, AllFacts
  <2>3. ASSUME Intact(m) PROVE FindDirectory(m, c) = wd
    <3>1. wd \in DirsIn(m, home)
      BY <1>4, <2>2, <2>3
    <3>2. all[k].name = m.dirs[wd].name
      BY <2>2, <2>3, IntactFacts DEF DirEntry
    <3> HIDE DEF wd
    <3> QED
      BY <1>1, <1>4, <2>3, <3>1, <3>2, ListedIsFound
  <2> QED
    BY <2>1, <2>3
<1>6. CASE k \in nd + 1 .. Len(all)
  <2>1. next = SubSeq(all, k + 1, Len(all)) \/ (next = <<>> /\ FindFile(m, c) # wf)
    BY <1>1, <1>2, <1>6, ResumeBehindFile
  <2>2. wf \in ListFrom(m.files, d.file) /\ wf \in DOMAIN m.files /\ all[k] = FileEntry(m, wf)
    BY <1>2, <1>6, AllFacts
  <2>3. ASSUME Intact(m) PROVE FindFile(m, c) = wf
    <3>1. wf \in FilesIn(m, home)
      BY <1>4, <2>2, <2>3
    <3>2. all[k].name = m.files[wf].name
      BY <2>2, <2>3, IntactFacts DEF FileEntry
    <3> HIDE DEF wf
    <3> QED
      BY <1>1, <1>4, <2>3, <3>1, <3>2, ListedIsFound
  <2> QED
    BY <2>1, <2>3
<1>7. k \in 1 .. nd \/ k \in nd + 1 .. Len(all)
  <2>1. k \in 1 .. Len(all)
    OBVIOUS
  <2> HIDE DEF nd, all
  <2> QED
    BY <1>3, <2>1
<1> QED
  BY <1>5, <1>6, <1>7

-----------------------------------------------------------------------------
\* What has been delivered are the first entries of the directory, none of them left
\* out; when an intact directory is finished, they are all of them; and a reader of an
\* intact image is not caught.
PagesInv ==
  /\ RomTypes
  /\ phase = "hung" => ~ Intact(image)
  /\ phase \in {"paging", "finished"} =>
       LET all == All(image, dir)
       IN /\ Opened(image, dir)
          /\ Stays(image, dir) => /\ Len(pages) \in 0 .. Len(all)
                                  /\ pages = SubSeq(all, 1, Len(pages))
          /\ Intact(image) /\ phase = "finished" => Len(pages) = Len(all)

LEMMA OpenKeepsPages ==
  ASSUME RomTypes, NEW p \in KnownPaths(image), OpenDirectory(p)
  PROVE  /\ phase' = "paging" => Opened(image, dir') /\ pages' = <<>>
         /\ phase' = "hung" => ~ Intact(image)
<1>1. CASE Opens(image, p, "directory") = "yes"
  <2>1. /\ dir' = DirectoryAt(image, p) /\ pages' = <<>>
        /\ phase' = IF NeverEnds(image, dir') THEN "hung" ELSE "paging"
    BY <1>1 DEF OpenDirectory
  <2>2. dir'.path = p
    BY <2>1 DEF DirectoryAt
  <2>3. ASSUME Intact(image) PROVE ~ NeverEnds(image, DirectoryAt(image, p))
    <3>1. Read(image, DirectoryAt(image, p), 0, 0).ok
      BY <1>1, <2>3, OpenedFacts DEF RomTypes
    <3> QED
      BY <3>1 DEF Read, Window, NeverEnds
  <2> QED
    BY <1>1, <2>1, <2>2, <2>3 DEF Opened
<1>2. CASE Opens(image, p, "directory") = "hangs"
  <2>1. phase' = "hung"
    BY <1>2 DEF OpenDirectory
  <2>2. p # Root /\ FindDirectory(image, p) = Loops
    BY <1>2 DEF Opens, Outcome
  <2>3. Home(image, p) = Loops
    BY <2>2 DEF Home
  <2>4. image \in Images /\ p \in Seq(NamesOf(image))
    BY KnownFacts DEF RomTypes
  <2> QED
    BY <2>1, <2>3, <2>4, IntactReturns
<1> QED
  BY <1>1, <1>2 DEF OpenDirectory

\* The lookups of a marker in an intact image return.
LEMMA IntactSeeks ==
  ASSUME RomTypes, Intact(image)
  PROVE  ~ SeekHangs(image, dir, Marker)
<1> SUFFICES ASSUME Marker # <<>> PROVE ~ SeekHangs(image, dir, Marker)
  BY DEF SeekHangs
<1>1. image \in Images /\ dir.path \in Seq(NamesOf(image))
  BY KnownFacts DEF RomTypes
<1>2. Marker \in NamesOf(image)
  <2>1. pages \in Seq(EntriesOf(image)) /\ pages # <<>> /\ Marker = pages[Len(pages)].name
    BY DEF RomTypes, Marker
  <2>2. pages[Len(pages)] \in EntriesOf(image)
    BY <2>1, EmptySeq, LenProperties, ElementOfSeq
  <2> QED
    BY <2>1, <2>2 DEF EntriesOf
<1>3. /\ FindDirectory(image, Append(dir.path, Marker)) # Loops
      /\ FindFile(image, Append(dir.path, Marker)) # Loops
  BY <1>1, <1>2, IntactReturns
<1> QED
  BY <1>3 DEF SeekHangs, Outcome

LEMMA ReadKeepsPages ==
  ASSUME PagesInv, NEW room \in Nat \ {0}, phase = "paging", Stays(image, dir)
  PROVE  LET all == All(image, dir)
             page == ForEachEntry(image, dir, Marker, room)
             done == pages \o page
         IN /\ Len(done) \in 0 .. Len(all) /\ done = SubSeq(all, 1, Len(done))
            /\ Intact(image) /\ page = <<>> => Len(done) = Len(all)
<1> DEFINE m == image
           d == dir
           all == All(m, d)
           old == pages
           k == Len(old)
           marker == IF old = <<>> THEN <<>> ELSE old[k].name
           next == All(m, Heads(m, d, marker))
           page == ForEachEntry(m, d, marker, room)
           done == old \o page
           rest == SubSeq(all, k + 1, Len(all))
           E == EntriesOf(m)
<1>1. /\ m \in Images /\ Opened(m, d) /\ Stays(m, d)
      /\ k \in 0 .. Len(all) /\ old = SubSeq(all, 1, k)
  BY DEF PagesInv, RomTypes
<1>2. old \in Seq(E)
  BY DEF PagesInv, RomTypes
<1>3. page = Page(next, room)
  BY DEF ForEachEntry, All
<1> HIDE DEF m, d, old, page, next
<1>4. all \in Seq(E) /\ Len(all) \in Nat /\ k \in Nat
  BY <1>1, AllFacts, LenProperties DEF Opened
<1>5. /\ next = rest \/ next = <<>>
      /\ Intact(m) => next = rest
  <2>1. CASE k = 0
    <3>1. old = <<>>
      BY <1>2, <2>1, EmptySeq
    <3>2. Heads(m, d, marker).dir = d.dir /\ Heads(m, d, marker).file = d.file
      BY <3>1 DEF Heads
    <3>3. next = all
      BY <3>2 DEF next, All
    <3>4. rest = all
      BY <1>4, <2>1, SubSeqFull
    <3> QED
      BY <3>3, <3>4
  <2>2. CASE k # 0
    <3>1. k \in 1 .. Len(all)
      BY <1>1, <1>4, <2>2
    <3>2. old # <<>>
      BY <2>2
    <3>3. old[k] = all[k]
      <4> HIDE DEF all, k
      <4>1. \A i \in 1 .. k : SubSeq(all, 1, k)[i] = all[i]
        BY <1>1, <1>4, FirstOfSeq
      <4> QED
        BY <1>1, <1>4, <3>1, <4>1
    <3>4. marker = all[k].name
      BY <3>2, <3>3
    <3> HIDE DEF k, all, marker
    <3>5. next = All(m, Heads(m, d, all[k].name))
      BY <3>4 DEF next
    <3> QED
      BY <1>1, <3>1, <3>5, ResumeFacts DEF all
  <2> QED
    BY <2>1, <2>2
<1> HIDE DEF all, k, marker
<1>6. CASE next = rest
  <2>1. /\ Len(done) \in k .. Len(all) /\ done = SubSeq(all, 1, Len(done))
        /\ page = <<>> => k = Len(all) /\ Len(done) = k
    BY <1>1, <1>3, <1>4, <1>6, PageOfRest
  <2>2. Len(done) \in 0 .. Len(all)
    BY <1>4, <2>1
  <2> QED
    BY <2>1, <2>2 DEF m, d, all, marker, Marker, page, old, k
<1>7. CASE next = <<>> /\ ~ Intact(m)
  <2>1. page = <<>>
    BY <1>3, <1>7 DEF Page
  <2>2. done = old
    BY <1>2, <2>1, ConcatEmptySeq
  <2> HIDE DEF done
  <2>3. Len(done) \in 0 .. Len(all) /\ done = SubSeq(all, 1, Len(done))
    BY <1>1, <2>2 DEF k
  <2> QED
    BY <1>7, <2>3 DEF m, d, all, marker, Marker, page, old, k, done
<1> QED
  BY <1>5, <1>6, <1>7

LEMMA InitPages == Init => PagesInv
<1>1. Init => phase = "closed"
  BY DEF Init
<1> QED
  BY <1>1, InitTypes DEF PagesInv

LEMMA NextPages == PagesInv /\ [Next]_vars => PagesInv'
<1> SUFFICES ASSUME PagesInv, [Next]_vars PROVE PagesInv'
  OBVIOUS
<1>1. RomTypes /\ RomTypes'
  BY NextTypes DEF PagesInv
<1> DEFINE Good(d, ps, ph) ==
             LET all == All(image, d)
             IN /\ Opened(image, d)
                /\ Stays(image, d) => /\ Len(ps) \in 0 .. Len(all)
                                      /\ ps = SubSeq(all, 1, Len(ps))
                /\ Intact(image) /\ ph = "finished" => Len(ps) = Len(all)
<1>2. phase \in {"paging", "finished"} => Good(dir, pages, phase)
  BY DEF PagesInv
<1>3. image' = image
  BY DEF Next, OpenDirectory, ReadPage, Close, vars
<1>4. ASSUME /\ phase' = "hung" => ~ Intact(image)
             /\ phase' \in {"paging", "finished"} => Good(dir', pages', phase')
      PROVE  PagesInv'
  BY <1>1, <1>3, <1>4 DEF PagesInv
<1>5. ASSUME NEW p \in KnownPaths(image), OpenDirectory(p) PROVE PagesInv'
  <2>1. phase' \in {"hung", "paging"}
    BY <1>5 DEF OpenDirectory
  <2>2. /\ phase' = "paging" => Opened(image, dir') /\ pages' = <<>>
        /\ phase' = "hung" => ~ Intact(image)
    BY <1>1, <1>5, OpenKeepsPages
  <2>3. ASSUME phase' = "paging" PROVE Good(dir', pages', phase')
    <3>1. PICK e : e = dir'
      OBVIOUS
    <3>2. Opened(image, e) /\ image \in Images
      BY <1>1, <2>2, <2>3, <3>1 DEF RomTypes
    <3>3. Len(All(image, e)) \in Nat
      BY <3>2, AllFacts, LenProperties DEF Opened
    <3>4. Len(<<>>) = 0 /\ SubSeq(All(image, e), 1, 0) = <<>>
      BY SubSeqEmpty
    <3>5. Good(e, <<>>, "paging")
      BY <3>2, <3>3, <3>4
    <3> HIDE DEF Good
    <3> QED
      BY <2>2, <2>3, <3>1, <3>5
  <2> QED
    BY <1>4, <2>1, <2>2, <2>3
<1>6. ASSUME NEW room \in 1 .. MaxRoom, ReadPage(room) PROVE PagesInv'
  <2> DEFINE page == ForEachEntry(image, dir, Marker, room)
             done == pages \o page
  <2>1. /\ phase = "paging" /\ dir' = dir
        /\ \/ pages' = done /\ phase' = IF page = <<>> THEN "finished" ELSE "paging"
           \/ phase' = "hung" /\ SeekHangs(image, dir, Marker)
    BY <1>6 DEF ReadPage
  <2>2. room \in Nat \ {0}
    BY RomFsAssumption
  <2>3. Stays(image, dir) =>
          /\ Len(done) \in 0 .. Len(All(image, dir)) /\ done = SubSeq(All(image, dir), 1, Len(done))
          /\ Intact(image) /\ page = <<>> => Len(done) = Len(All(image, dir))
    BY <2>1, <2>2, ReadKeepsPages
  <2> HIDE DEF page, done
  <2>4. Opened(image, dir)
    BY <1>2, <2>1
  <2>5. Intact(image) => Stays(image, dir)
    BY <1>1, <2>4, IntactStays DEF RomTypes
  <2>6. phase' = "finished" => page = <<>>
    BY <2>1
  <2>7. Good(dir, done, phase')
    BY <2>3, <2>4, <2>5, <2>6
  <2>8. phase' = "hung" => ~ Intact(image)
    BY <1>1, <2>1, IntactSeeks
  <2> HIDE DEF Good
  <2> QED
    BY <1>4, <2>1, <2>7, <2>8
<1>7. ASSUME Close PROVE PagesInv'
  <2>1. phase' = "closed"
    BY <1>7 DEF Close
  <2> QED
    BY <1>4, <2>1
<1>8. ASSUME UNCHANGED vars PROVE PagesInv'
  <2>1. dir' = dir /\ pages' = pages /\ phase' = phase
    BY <1>8 DEF vars
  <2>2. phase = "hung" => ~ Intact(image)
    BY DEF PagesInv
  <2> HIDE DEF Good
  <2> QED
    BY <1>2, <1>4, <2>1, <2>2
<1> QED
  BY <1>5, <1>6, <1>7, <1>8 DEF Next

\* No entry is delivered twice as long as the lists stay in their directory, damaged
\* or not, so that reading page by page ends unless a lookup of a marker hangs; in an
\* intact image nothing hangs, and the pages of a directory, each resumed by a lookup of
\* the last name of the one before, are what one reading of the directory gives,
\* whatever fits into a page.
THEOREM RomPagesCover == Spec => []PagesCover
<1>1. ASSUME PagesInv PROVE PagesCover
  <2>6. phase = "hung" => ~ Intact(image)
    BY <1>1 DEF PagesInv
  <2> SUFFICES ASSUME phase \in {"paging", "finished"}
               PROVE  /\ Stays(image, dir) => IsInjective(pages)
                      /\ Intact(image) =>
                           /\ Len(pages) <= Len(ReadDir(image, dir))
                           /\ pages = SubSeq(ReadDir(image, dir), 1, Len(pages))
                           /\ phase = "finished" => pages = ReadDir(image, dir)
    BY <2>6 DEF PagesCover, Stays
  <2> DEFINE all == All(image, dir)
  <2>1. /\ image \in Images /\ Opened(image, dir) /\ ~ NeverEnds(image, dir)
        /\ Stays(image, dir) => Len(pages) \in 0 .. Len(all) /\ pages = SubSeq(all, 1, Len(pages))
        /\ Intact(image) /\ phase = "finished" => Len(pages) = Len(all)
    BY <1>1 DEF PagesInv, RomTypes, Opened
  <2>2. all \in Seq(EntriesOf(image)) /\ Len(all) \in Nat
    BY <2>1, AllFacts, LenProperties
  <2>3. pages \in Seq(EntriesOf(image))
    BY <1>1 DEF PagesInv, RomTypes
  <2>4. ASSUME Stays(image, dir) PROVE IsInjective(pages)
    <3>1. DOMAIN pages = 1 .. Len(pages)
      BY <2>3, LenProperties
    <3>2. \A i \in 1 .. Len(pages) : i \in 1 .. Len(all) /\ pages[i] = all[i]
      <4> HIDE DEF all
      <4>1. \A i \in 1 .. Len(pages) : SubSeq(all, 1, Len(pages))[i] = all[i]
        BY <2>1, <2>2, <2>4, FirstOfSeq
      <4> QED
        BY <2>1, <2>2, <2>4, <4>1
    <3>3. \A i, j \in 1 .. Len(all) : all[i] = all[j] => i = j
      BY <2>1, <2>4, AllApart
    <3> HIDE DEF all
    <3> QED
      BY <3>1, <3>2, <3>3 DEF IsInjective
  <2>5. ASSUME Intact(image)
        PROVE  /\ Len(pages) <= Len(ReadDir(image, dir))
               /\ pages = SubSeq(ReadDir(image, dir), 1, Len(pages))
               /\ phase = "finished" => pages = ReadDir(image, dir)
    <3>1. Stays(image, dir)
      BY <2>1, <2>5, IntactStays
    <3>2. Read(image, dir, 0, 0).ok
      <4>1. dir = DirectoryAt(image, dir.path) /\ Opens(image, dir.path, "directory") = "yes"
        BY <2>1 DEF Opened
      <4>2. Read(image, DirectoryAt(image, dir.path), 0, 0).ok
        BY <2>1, <2>5, <4>1, OpenedFacts
      <4> QED
        BY <4>1, <4>2
    <3>3. ReadDir(image, dir) = all
      BY <2>1, <3>2, ReadDirFacts DEF All, Ahead
    <3> HIDE DEF all
    <3>4. Len(pages) \in 0 .. Len(all) /\ pages = SubSeq(all, 1, Len(pages))
      BY <2>1, <3>1
    <3>5. phase = "finished" => pages = all
      BY <2>1, <2>2, <2>5, <3>4, SubSeqFull
    <3> QED
      BY <2>2, <3>3, <3>4, <3>5
  <2> QED
    BY <2>4, <2>5
<1> QED
  BY InitPages, NextPages, <1>1, PTL DEF Spec

-----------------------------------------------------------------------------
\* The lookup cache.

CacheTruth ==
  \A p \in Keys : Contains(p) => Position[p] # NoPos /\ value[map[p]] = Position[p]

LookupInv ==
  /\ LookupTypeOK
  /\ MapNodesAgree
  /\ CacheTruth
  /\ \A t \in Threads : pc[t] \in {"add", "entry"} =>
       pos[t] = Position[path[t]] /\ pos[t] # NoPos
  /\ LookupReturnsTruth

LEMMA InitLookupInv == LookupInit => LookupInv
  BY CacheInitInv, TableAssumption, CacheAssumption
     DEF LookupInit, CacheInv, LookupInv, LookupTypeOK, Phases, CacheTruth, LookupReturnsTruth

LEMMA LookupStep ==
  ASSUME LookupInv, NEW t \in Threads, NEW p \in Keys, Lookup(t, p)
  PROVE  LookupInv'
  <1>1. CacheInv'
    BY GetInv DEF LookupInv, LookupTypeOK, CacheInv, Lookup
  <1>2. CacheTruth'
    BY DEF LookupInv, CacheTruth, Contains, Lookup, Get
  <1>3. Contains(p) => CachedValue(p) = Position[p] /\ Position[p] # NoPos
    BY DEF LookupInv, CacheTruth, CachedValue
  <1>4. Position[p] \in Positions \cup {NoPos}
    BY TableAssumption
  <1>5. LookupTypeOK'
    BY <1>1, <1>3, <1>4 DEF LookupInv, LookupTypeOK, CacheInv, Lookup, Goto, Phases
  <1>6. QED
    BY <1>1, <1>2, <1>3, <1>5
       DEF LookupInv, LookupTypeOK, CacheInv, Lookup, Goto, LookupReturnsTruth

\* The steps of a thread that leave the cache alone.
LEMMA CacheUntouched ==
  ASSUME LookupInv, UNCHANGED cacheVars
  PROVE  CacheInv' /\ CacheTruth'
  BY DEF LookupInv, LookupTypeOK, CacheInv, CacheTypeOK, MapNodesAgree, CacheTruth, Contains, cacheVars

LEMMA WalkStep ==
  ASSUME LookupInv, NEW t \in Threads, Walk(t)
  PROVE  LookupInv'
  <1>1. CacheInv' /\ CacheTruth'
    BY CacheUntouched DEF Walk
  <1>2. Position[path[t]] \in Positions \cup {NoPos}
    BY TableAssumption DEF LookupInv, LookupTypeOK
  <1>3. LookupTypeOK'
    BY <1>1, <1>2 DEF LookupInv, LookupTypeOK, CacheInv, Walk, Goto, Phases
  <1>4. QED
    BY <1>1, <1>3 DEF LookupInv, LookupTypeOK, CacheInv, Walk, Goto, LookupReturnsTruth, Truth

LEMMA AddStep ==
  ASSUME LookupInv, NEW t \in Threads, AddPosition(t)
  PROVE  LookupInv' /\ map'[path[t]] # NoNode
  <1>1. /\ CacheInv /\ path[t] \in Keys /\ pos[t] \in Values
        /\ pos[t] = Position[path[t]] /\ pos[t] # NoPos
    BY DEF LookupInv, LookupTypeOK, CacheInv, AddPosition, Positions
  <1>2. CacheInv'
    BY <1>1, AddInv DEF AddPosition
  <1>3. CacheTruth'
    <2>1. SUFFICES ASSUME NEW p \in Keys, map'[p] # NoNode
                   PROVE  Position[p] # NoPos /\ value'[map'[p]] = Position[p]
      BY DEF CacheTruth, Contains
    <2>2. Lru \in Nodes
      BY <1>1, AddMap DEF AddPosition
    <2>3. CASE p = path[t] /\ map'[p] = Lru
      BY <1>1, <2>2, <2>3 DEF AddPosition, Add, CacheInv, CacheTypeOK
    <2>4. CASE Contains(p) /\ map'[p] = map[p] /\ map[p] # Lru
      <3>1. map[p] \in Nodes
        BY <2>4 DEF LookupInv, LookupTypeOK, CacheTypeOK, Contains
      <3>2. QED
        BY <2>2, <2>4, <3>1 DEF AddPosition, Add, LookupInv, LookupTypeOK, CacheTypeOK, CacheTruth
    <2>5. \/ p = path[t] /\ map'[p] = Lru
          \/ Contains(p) /\ map'[p] = map[p] /\ map[p] # Lru
      <3>1. Add(path[t], pos[t])
        BY DEF AddPosition
      <3>2. QED
        BY <1>1, <2>1, <3>1, AddMap
    <2>6. QED
      BY <2>3, <2>4, <2>5
  <1>4. map'[path[t]] # NoNode
    BY <1>1, AddMap DEF AddPosition
  <1>5. LookupTypeOK'
    BY <1>2 DEF LookupInv, LookupTypeOK, CacheInv, AddPosition, Goto, Phases
  <1>6. QED
    BY <1>1, <1>2, <1>3, <1>4, <1>5
       DEF LookupInv, LookupTypeOK, CacheInv, AddPosition, Goto, LookupReturnsTruth

LEMMA ReadEntryStep ==
  ASSUME LookupInv, NEW t \in Threads, ReadEntry(t)
  PROVE  LookupInv'
  <1>1. CacheInv' /\ CacheTruth'
    BY CacheUntouched DEF ReadEntry
  <1>2. LookupTypeOK'
    <2>1. EntryAt[pos[t]] \in Entries
      BY DEF LookupInv, LookupTypeOK, ReadEntry, Entries
    <2>2. QED
      BY <1>1, <2>1 DEF LookupInv, LookupTypeOK, CacheInv, ReadEntry, Goto, Phases
  <1>3. QED
    BY <1>1, <1>2 DEF LookupInv, LookupTypeOK, CacheInv, ReadEntry, Goto, LookupReturnsTruth, Truth

LEMMA ReturnStep ==
  ASSUME LookupInv, NEW t \in Threads, Return(t)
  PROVE  LookupInv'
  <1>1. CacheInv' /\ CacheTruth'
    BY CacheUntouched DEF Return
  <1>2. LookupTypeOK'
    BY <1>1, CacheAssumption DEF LookupInv, LookupTypeOK, CacheInv, Return, Goto, Phases
  <1>3. QED
    BY <1>1, <1>2 DEF LookupInv, LookupTypeOK, CacheInv, Return, Goto, LookupReturnsTruth

LEMMA NextLookupInv == LookupInv /\ [LookupNext]_tableVars => LookupInv'
  <1> SUFFICES ASSUME LookupInv, [LookupNext]_tableVars PROVE LookupInv'
    OBVIOUS
  <1>1. CASE UNCHANGED tableVars
    <2>1. CacheInv' /\ CacheTruth'
      BY <1>1, CacheUntouched DEF tableVars, cacheVars
    <2>2. QED
      BY <1>1, <2>1 DEF tableVars, LookupInv, LookupTypeOK, CacheInv, LookupReturnsTruth
  <1>2. ASSUME NEW t \in Threads, Step(t) PROVE LookupInv'
    BY <1>2, LookupStep, WalkStep, AddStep, ReadEntryStep, ReturnStep DEF Step
  <1>3. QED
    BY <1>1, <1>2 DEF LookupNext

\* The inductive invariant holds throughout.
THEOREM LookupInvariant == LookupSpec => []LookupInv
  BY InitLookupInv, NextLookupInv, PTL DEF LookupSpec

\* Type correctness: the list of the cache remains a permutation of its
\* nodes, so no node is lost and setMru and getLru never run off the list.
THEOREM LookupTypeCorrect == LookupSpec => []LookupTypeOK
  <1>1. LookupInv => LookupTypeOK
    BY DEF LookupInv
  <1>2. QED
    BY <1>1, LookupInvariant, PTL

\* The map never leads a path to a node that was recycled for another path.
THEOREM MapNodesAlwaysAgree == LookupSpec => []MapNodesAgree
  <1>1. LookupInv => MapNodesAgree
    BY DEF LookupInv
  <1>2. QED
    BY <1>1, LookupInvariant, PTL

\* Every lookup returns the entry of its own path.
THEOREM LookupsReturnTruth == LookupSpec => []LookupReturnsTruth
  <1>1. LookupInv => LookupReturnsTruth
    BY DEF LookupInv
  <1>2. QED
    BY <1>1, LookupInvariant, PTL

\* An add makes its path cached, whatever it evicts.
THEOREM AddsAreCached == LookupSpec => AddedIsCached
  <1>1. LookupInv /\ [LookupNext]_tableVars =>
          [\A t \in Threads :
             pc[t] = "add" /\ pc'[t] = "entry" => map'[path[t]] # NoNode]_tableVars
    <2>1. SUFFICES ASSUME LookupInv, LookupNext, NEW t \in Threads, pc[t] = "add", pc'[t] = "entry"
                   PROVE  map'[path[t]] # NoNode
      OBVIOUS
    <2>2. PICK u \in Threads : Step(u)
      BY <2>1 DEF LookupNext
    <2>3. pc \in [Threads -> Phases]
      BY <2>1 DEF LookupInv, LookupTypeOK
    <2>4. u = t
      BY <2>1, <2>2, <2>3 DEF Step, Lookup, Walk, AddPosition, ReadEntry, Return, Goto
    <2>5. AddPosition(t)
      BY <2>1, <2>2, <2>4 DEF Step, Lookup, Walk, ReadEntry, Return
    <2>6. QED
      BY <2>1, <2>5, AddStep
  <1>2. QED
    BY <1>1, LookupInvariant, PTL DEF LookupSpec, AddedIsCached
=============================================================================
