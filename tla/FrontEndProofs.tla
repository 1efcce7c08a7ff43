--------------------------- MODULE FrontEndProofs ---------------------------
(***************************************************************************)
(* Proofs about FrontEnd, and with it about Namespace, for any images in   *)
(* which no directory has a name twice (SoundImages, which the             *)
(* constructors do not check), any names and any requests: whatever is     *)
(* mounted serves one tree, and so the front ends implement MountedTree.   *)
(*                                                                         *)
(* Namespace walks with loops, which the model writes as recursive         *)
(* functions; LoopRuns gives them their values.  The argument follows the  *)
(* nesting from inside out.  A file system Serves a tree if its four       *)
(* operations and its listings tell nothing but that tree: a section does, *)
(* and an NCA, a title, a package and a card do if what is in them does,   *)
(* because a request below a name is handed on to what stands there        *)
(* (Transfers), and the trees are put together under those names           *)
(* (Assembled).  That what is mounted serves its tree (MountedStands) is   *)
(* then all that the steps of the front ends need; the rest of the         *)
(* invariant follows the handle and what was delivered from it.            *)
(***************************************************************************)
EXTENDS FrontEnd, SequenceTheorems, WellFoundedInduction, TLAPS

-----------------------------------------------------------------------------
(* Loops.                                                                  *)

\* A set of numbers has a least one: what stands for induction below.
LEMMA LeastOfSet ==
  ASSUME NEW T \in SUBSET Nat, T # {}
  PROVE  \E x \in T : \A y \in T : x <= y
<1>1. PICK x \in T : \A y \in T : ~ (<<y, x>> \in OpToRel(<, Nat))
  BY NatLessThanWellFounded, WFMin
<1>2. ASSUME NEW y \in T PROVE ~ (y < x)
  BY <1>1 DEF OpToRel
<1>3. \A y \in T : x <= y
  BY <1>2
<1> QED
  BY <1>3

\* What holds before a loop and is kept by every round holds after each.
LEMMA LoopKeeps ==
  ASSUME NEW n \in Nat, NEW good,
         0 \in good, \A j \in 1 .. n : j - 1 \in good => j \in good
  PROVE  \A j \in 0 .. n : j \in good
<1> DEFINE Bad == {j \in 0 .. n : j \notin good}
<1>1. SUFFICES ASSUME Bad # {} PROVE FALSE
  OBVIOUS
<1>2. PICK j \in Bad : \A i \in Bad : j <= i
  <2>1. Bad \in SUBSET Nat
    OBVIOUS
  <2> HIDE DEF Bad
  <2> QED
    BY <1>1, <2>1, LeastOfSet
<1>3. j # 0 /\ j \in 1 .. n
  OBVIOUS
<1>4. j - 1 \in 0 .. n /\ ~ (j <= j - 1)
  BY <1>3
<1>5. j - 1 \in good
  BY <1>2, <1>4
<1> QED
  BY <1>3, <1>5

\* The course f[0], .., f[n] of a loop.
IsCourse(f, n, start, step) ==
  f = [j \in 0 .. n |-> IF j = 0 THEN start ELSE step[j][f[j - 1]]]

\* A loop whose rounds lead from one set of states to the next has a course:
\* the recursive functions of Namespace stand for what they seem to.
LEMMA LoopRuns ==
  ASSUME NEW n \in Nat, NEW D, NEW start \in D[0], NEW step,
         \A j \in 1 .. n : \A d \in D[j - 1] : step[j][d] \in D[j]
  PROVE  \E f : IsCourse(f, n, start, step) /\ \A j \in 0 .. n : f[j] \in D[j]
<1> DEFINE Course(m, f) ==
             /\ f = [j \in 0 .. m |-> f[j]]
             /\ \A j \in 0 .. m : f[j] \in D[j]
             /\ \A j \in 0 .. m : f[j] = IF j = 0 THEN start ELSE step[j][f[j - 1]]
           good == {m \in 0 .. n : \E f : Course(m, f)}
<1>1. 0 \in good
  <2> DEFINE f == [j \in 0 .. 0 |-> start]
  <2>1. Course(0, f)
    OBVIOUS
  <2>2. \E h : Course(0, h)
    <3> HIDE DEF Course, f
    <3> QED
      BY <2>1
  <2> QED
    BY <2>2
<1>2. ASSUME NEW m \in 1 .. n, m - 1 \in good PROVE m \in good
  <2>1. PICK f : Course(m - 1, f)
    BY <1>2
  <2> DEFINE g == [j \in 0 .. m |-> IF j = m THEN step[m][f[m - 1]] ELSE f[j]]
  <2>2. m - 1 \in 0 .. m - 1 /\ m \in 1 .. n
    OBVIOUS
  <2>3. f[m - 1] \in D[m - 1]
    BY <2>1, <2>2
  <2>4. step[m][f[m - 1]] \in D[m]
    BY <2>2, <2>3
  <2>5. \A j \in 0 .. m : g[j] \in D[j]
    <3>1. SUFFICES ASSUME NEW j \in 0 .. m, j # m PROVE f[j] \in D[j]
      BY <2>4
    <3> QED
      BY <2>1, <3>1
  <2>6. \A j \in 0 .. m : g[j] = IF j = 0 THEN start ELSE step[j][g[j - 1]]
    <3>1. SUFFICES ASSUME NEW j \in 0 .. m
                   PROVE  g[j] = IF j = 0 THEN start ELSE step[j][g[j - 1]]
      OBVIOUS
    <3>2. CASE j = m
      <4>1. g[m] = step[m][f[m - 1]]
        OBVIOUS
      <4>2. g[m - 1] = f[m - 1] /\ m # 0
        OBVIOUS
      <4> HIDE DEF g
      <4> QED
        BY <3>2, <4>1, <4>2
    <3>3. CASE j # m
      <4>1. j \in 0 .. m - 1
        BY <3>3
      <4>2. g[j] = f[j] /\ (j # 0 => g[j - 1] = f[j - 1])
        BY <3>3
      <4>3. f[j] = IF j = 0 THEN start ELSE step[j][f[j - 1]]
        BY <2>1, <4>1
      <4> HIDE DEF g
      <4> QED
        BY <4>2, <4>3
    <3> QED
      BY <3>2, <3>3
  <2>7. Course(m, g)
    <3>1. g = [j \in 0 .. m |-> g[j]]
      OBVIOUS
    <3> HIDE DEF g
    <3> QED
      BY <2>5, <2>6, <3>1
  <2>8. \E h : Course(m, h)
    <3> HIDE DEF Course, g
    <3> QED
      BY <2>7
  <2>9. m \in 0 .. n
    OBVIOUS
  <2> HIDE DEF Course
  <2> QED
    BY <2>8, <2>9
<1>3. \A m \in 0 .. n : m \in good
  <2> HIDE DEF good
  <2> QED
    BY <1>1, <1>2, LoopKeeps
<1>4. PICK f : Course(n, f)
  <2>1. n \in good
    BY <1>3
  <2> HIDE DEF Course
  <2> QED
    BY <2>1
<1>5. f = [j \in 0 .. n |-> IF j = 0 THEN start ELSE step[j][f[j - 1]]]
  BY <1>4
<1>6. IsCourse(f, n, start, step)
  BY <1>5, Zenon DEF IsCourse
<1> QED
  BY <1>4, <1>6


-----------------------------------------------------------------------------
\* The first of some positions is one of them, if there are any.
LEMMA FirstOfIs ==
  ASSUME NEW positions \in SUBSET (Nat \ {0})
  PROVE  /\ FirstOf(positions) = 0 <=> positions = {}
         /\ positions # {} => FirstOf(positions) \in positions
<1>1. CASE positions = {}
  BY <1>1 DEF FirstOf
<1>2. CASE positions # {}
  <2>1. \E i \in positions : \A j \in positions : i <= j
    BY <1>2, LeastOfSet
  <2>2. FirstOf(positions) \in positions
    BY <1>2, <2>1, Zenon DEF FirstOf
  <2> QED
    BY <1>2, <2>2
<1> QED
  BY <1>1, <1>2

\* getEntry finds an entry with the name if there is one.
LEMMA GetEntryIs ==
  ASSUME NEW entries, DOMAIN entries \in SUBSET (Nat \ {0}), NEW name
  PROVE  LET at == GetEntry(entries, name)
         IN /\ at = 0 <=> \A i \in DOMAIN entries : entries[i].name # name
            /\ at # 0 => at \in DOMAIN entries /\ entries[at].name = name
<1> DEFINE positions == {i \in DOMAIN entries : entries[i].name = name}
<1>1. positions \in SUBSET (Nat \ {0})
  OBVIOUS
<1>2. GetEntry(entries, name) = FirstOf(positions)
  BY DEF GetEntry
<1>3. /\ FirstOf(positions) = 0 <=> positions = {}
      /\ positions # {} => FirstOf(positions) \in positions
  <2> HIDE DEF positions
  <2> QED
    BY <1>1, FirstOfIs
<1>4. positions = {} <=> \A i \in DOMAIN entries : entries[i].name # name
  OBVIOUS
<1>5. \A i \in positions : i \in DOMAIN entries /\ entries[i].name = name
  OBVIOUS
<1> HIDE DEF positions
<1> QED
  BY <1>2, <1>3, <1>4, <1>5

\* A selection of positions, each once.
Picks(s, positions) ==
  /\ s \in Seq(positions)
  /\ {s[k] : k \in DOMAIN s} = positions
  /\ \A j, k \in DOMAIN s : s[j] = s[k] => j = k

LEMMA PicksMore ==
  ASSUME NEW s, NEW positions, Picks(s, positions), NEW i, i \notin positions
  PROVE  Picks(Append(s, i), positions \cup {i})
<1> DEFINE t == Append(s, i)
<1>1. s \in Seq(positions) /\ Len(s) \in Nat /\ DOMAIN s = 1 .. Len(s)
  BY DEF Picks
<1>2. t \in Seq(positions \cup {i}) /\ DOMAIN t = 1 .. Len(s) + 1
  BY <1>1
<1>3. t[Len(s) + 1] = i /\ \A k \in DOMAIN s : t[k] = s[k]
  BY <1>1
<1>4. DOMAIN t = DOMAIN s \cup {Len(s) + 1} /\ Len(s) + 1 \notin DOMAIN s
  BY <1>1, <1>2
<1> HIDE DEF t
<1>5. {t[k] : k \in DOMAIN t} = positions \cup {i}
  <2>1. {s[k] : k \in DOMAIN s} = positions
    BY DEF Picks
  <2> QED
    BY <2>1, <1>3, <1>4
<1>6. \A j, k \in DOMAIN t : t[j] = t[k] => j = k
  <2>1. \A k \in DOMAIN s : s[k] \in positions
    BY DEF Picks
  <2>2. \A j, k \in DOMAIN s : s[j] = s[k] => j = k
    BY DEF Picks
  <2> QED
    BY <2>1, <2>2, <1>3, <1>4
<1>7. Picks(t, positions \cup {i})
  BY <1>2, <1>5, <1>6 DEF Picks
<1> QED
  BY <1>7 DEF t

\* InOrder is such a selection.
LEMMA InOrderPicks ==
  ASSUME NEW n \in Nat, NEW positions \in SUBSET (1 .. n)
  PROVE  Picks(InOrder(n, positions), positions)
<1> DEFINE S == Seq(1 .. n)
           More(i, s) == IF i \in positions THEN Append(s, i) ELSE s
           step == [i \in 1 .. n |-> [s \in S |-> More(i, s)]]
           D == [i \in 0 .. n |-> S]
           Course(g) == g = [i \in 0 .. n |-> IF i = 0 THEN <<>> ELSE More(i, g[i - 1])]
<1>1. \A i \in 1 .. n, s \in S : More(i, s) \in S
  <2>1. SUFFICES ASSUME NEW i \in 1 .. n, NEW s \in S PROVE More(i, s) \in S
    OBVIOUS
  <2>2. Append(s, i) \in S
    OBVIOUS
  <2> HIDE DEF S
  <2> QED
    BY <2>2
<1>2. \A i \in 1 .. n, s \in S : step[i][s] = More(i, s)
  <2> HIDE DEF More, S
  <2> QED
    OBVIOUS
<1>3. \E f : Course(f)
  <2>1. <<>> \in D[0]
    OBVIOUS
  <2>2. \A i \in 0 .. n : D[i] = S
    <3> HIDE DEF S
    <3> QED
      OBVIOUS
  <2> HIDE DEF D, S, More, step
  <2>3. \A i \in 1 .. n : i - 1 \in 0 .. n /\ i \in 0 .. n
    OBVIOUS
  <2>4. \A i \in 1 .. n : \A s \in D[i - 1] : step[i][s] \in D[i]
    BY <1>1, <1>2, <2>2, <2>3
  <2>5. PICK f : IsCourse(f, n, <<>>, step) /\ \A j \in 0 .. n : f[j] \in D[j]
    BY <2>1, <2>4, LoopRuns
  <2>6. \A i \in 1 .. n : step[i][f[i - 1]] = More(i, f[i - 1])
    BY <2>5, <2>2, <2>3, <1>2
  <2>7. f = [i \in 0 .. n |-> IF i = 0 THEN <<>> ELSE step[i][f[i - 1]]]
    BY <2>5 DEF IsCourse
  <2>8. \A i \in 0 .. n : (IF i = 0 THEN <<>> ELSE step[i][f[i - 1]])
                            = (IF i = 0 THEN <<>> ELSE More(i, f[i - 1]))
    BY <2>6
  <2>9. Course(f)
    BY <2>7, <2>8, Zenon
  <2> HIDE DEF Course
  <2> QED
    BY <2>9
<1> DEFINE upTo == CHOOSE g : Course(g)
<1>4. Course(upTo)
  <2> HIDE DEF Course
  <2> QED
    BY <1>3
<1>5. InOrder(n, positions) = upTo[n]
  BY DEF InOrder
<1> HIDE DEF upTo
<1>6. upTo[0] = <<>> /\ \A i \in 1 .. n : upTo[i] = More(i, upTo[i - 1])
  <2> HIDE DEF More
  <2>1. 0 \in 0 .. n /\ \A i \in 1 .. n : i \in 0 .. n /\ i # 0
    OBVIOUS
  <2> QED
    BY <1>4, <2>1
<1> DEFINE good == {i \in 0 .. n : Picks(upTo[i], positions \cap (1 .. i))}
<1>7. 0 \in good
  <2>1. positions \cap (1 .. 0) = {} /\ 0 \in 0 .. n
    OBVIOUS
  <2>2. Picks(<<>>, {})
    BY DEF Picks
  <2> QED
    BY <1>6, <2>1, <2>2
<1>8. ASSUME NEW i \in 1 .. n, i - 1 \in good PROVE i \in good
  <2>1. Picks(upTo[i - 1], positions \cap (1 .. i - 1))
    BY <1>8
  <2>2. upTo[i] = More(i, upTo[i - 1]) /\ i \in 0 .. n
    BY <1>6
  <2>3. CASE i \in positions
    <3>1. positions \cap (1 .. i) = (positions \cap (1 .. i - 1)) \cup {i}
      BY <2>3
    <3>2. i \notin positions \cap (1 .. i - 1)
      OBVIOUS
    <3>3. Picks(Append(upTo[i - 1], i), positions \cap (1 .. i))
      BY <2>1, <3>1, <3>2, PicksMore
    <3> QED
      BY <2>2, <2>3, <3>3
  <2>4. CASE i \notin positions
    <3>1. positions \cap (1 .. i) = positions \cap (1 .. i - 1)
      BY <2>4
    <3> QED
      BY <2>1, <2>2, <2>4, <3>1
  <2> QED
    BY <2>3, <2>4
<1>9. n \in good
  <2> HIDE DEF good
  <2>1. \A i \in 0 .. n : i \in good
    BY <1>7, <1>8, LoopKeeps
  <2> QED
    BY <2>1
<1>10. Picks(upTo[n], positions \cap (1 .. n)) /\ positions \cap (1 .. n) = positions
  BY <1>9
<1> QED
  BY <1>5, <1>10

-----------------------------------------------------------------------------
\* An answer, or what the file system that it is handed on to answers.
Go(op, a, mode) ==
  IF a.res = "HANDED_ON" THEN Answered(op, a.fs, a.path, mode) ELSE a

Go2(op, a, mode) == Go(op, Go(op, a, mode), mode)
Go3(op, a, mode) == Go2(op, Go(op, a, mode), mode)
Go4(op, a, mode) == Go3(op, Go(op, a, mode), mode)
Go5(op, a, mode) == Go4(op, Go(op, a, mode), mode)

\* Ask stands for five such steps.
LEMMA AskGoes ==
  ASSUME NEW op, NEW fs, NEW p, NEW mode
  PROVE  Ask(op, fs, p, mode) = Go5(op, HandOn(fs, p), mode)
<1> DEFINE a0 == HandOn(fs, p)
           G(a) == Go(op, a, mode)
           f == [n \in 0 .. 5 |->
                   IF n = 0 THEN a0 ELSE IF n = 1 THEN G(a0) ELSE IF n = 2 THEN G(G(a0))
                   ELSE IF n = 3 THEN G(G(G(a0))) ELSE IF n = 4 THEN G(G(G(G(a0))))
                   ELSE G(G(G(G(G(a0)))))]
           Course(g) == g = [n \in 0 .. 5 |-> IF n = 0 THEN a0 ELSE G(g[n - 1])]
           answer == CHOOSE g : Course(g)
<1>1. Ask(op, fs, p, mode) = answer[5]
  BY Zenon DEF Ask, Nesting, Go
<1>2. Go5(op, HandOn(fs, p), mode) = G(G(G(G(G(a0)))))
  BY DEF Go5, Go4, Go3, Go2
<1> HIDE DEF a0, G
<1>3. Course(f)
  <2>1. f = [n \in 0 .. 5 |-> f[n]]
    OBVIOUS
  <2>2. /\ f[0] = a0 /\ f[1] = G(f[0]) /\ f[2] = G(f[1]) /\ f[3] = G(f[2])
        /\ f[4] = G(f[3]) /\ f[5] = G(f[4])
    OBVIOUS
  <2> HIDE DEF f
  <2>3. \A n \in 0 .. 5 : f[n] = IF n = 0 THEN a0 ELSE G(f[n - 1])
    <3>1. \A n \in 0 .. 5 : n = 0 \/ n = 1 \/ n = 2 \/ n = 3 \/ n = 4 \/ n = 5
      OBVIOUS
    <3> QED
      BY <2>2, <3>1
  <2> QED
    BY <2>1, <2>3, Zenon
<1>4. Course(answer)
  <2> HIDE DEF Course, f
  <2> QED
    BY <1>3
<1> HIDE DEF answer
<1>5. answer[5] = G(G(G(G(G(a0)))))
  <2>1. /\ answer[0] = a0 /\ answer[1] = G(answer[0]) /\ answer[2] = G(answer[1])
        /\ answer[3] = G(answer[2]) /\ answer[4] = G(answer[3]) /\ answer[5] = G(answer[4])
    BY <1>4
  <2> QED
    BY <2>1
<1> QED
  BY <1>1, <1>2, <1>5

\* Nothing follows an answer.
LEMMA GoEnds ==
  ASSUME NEW op, NEW a, NEW mode, a.res # "HANDED_ON"
  PROVE  /\ Go(op, a, mode) = a /\ Go2(op, a, mode) = a /\ Go3(op, a, mode) = a
         /\ Go4(op, a, mode) = a /\ Go5(op, a, mode) = a
<1>1. Go(op, a, mode) = a
  BY DEF Go
<1>2. Go2(op, a, mode) = a
  BY <1>1 DEF Go2
<1>3. Go3(op, a, mode) = a
  BY <1>1, <1>2 DEF Go3
<1>4. Go4(op, a, mode) = a
  BY <1>1, <1>3 DEF Go4
<1> QED
  BY <1>1, <1>2, <1>3, <1>4 DEF Go5

\* The first of the steps.
LEMMA GoHandOn ==
  ASSUME NEW op, NEW fs, NEW p, NEW mode
  PROVE  Go(op, HandOn(fs, p), mode) = Answered(op, fs, p, mode)
BY DEF Go, HandOn

\* How often a request to a file system can be handed on.
Operations == {"access", "getAttributes", "openFile", "openDirectory"}

Deep1(fs) ==
  \A op \in Operations : \A p, mode : Answered(op, fs, p, mode).res # "HANDED_ON"
Deep2(fs) ==
  \A op \in Operations : \A p, mode :
    LET a == Answered(op, fs, p, mode) IN a.res = "HANDED_ON" => Deep1(a.fs)
Deep3(fs) ==
  \A op \in Operations : \A p, mode :
    LET a == Answered(op, fs, p, mode) IN a.res = "HANDED_ON" => Deep2(a.fs)
Deep4(fs) ==
  \A op \in Operations : \A p, mode :
    LET a == Answered(op, fs, p, mode) IN a.res = "HANDED_ON" => Deep3(a.fs)

LEMMA Deeper ==
  ASSUME NEW fs
  PROVE  (Deep1(fs) => Deep2(fs)) /\ (Deep2(fs) => Deep3(fs)) /\ (Deep3(fs) => Deep4(fs))
<1>1. ASSUME NEW f PROVE Deep1(f) => Deep2(f)
  BY DEF Deep1, Deep2
<1>2. ASSUME NEW f PROVE Deep2(f) => Deep3(f)
  BY <1>1 DEF Deep2, Deep3
<1>3. Deep3(fs) => Deep4(fs)
  BY <1>2 DEF Deep3, Deep4
<1> QED
  BY <1>1, <1>2, <1>3

\* Once a request is handed on no more, further steps change nothing.
LEMMA GoSettles ==
  ASSUME NEW op \in Operations, NEW mode, NEW a, a.res = "HANDED_ON" => Deep4(a.fs)
  PROVE  Go5(op, a, mode) = Go4(op, a, mode)
<1> DEFINE Next1(b) == Answered(op, b.fs, b.path, mode)
<1>1. ASSUME NEW b, b.res = "HANDED_ON" => Deep1(b.fs)
      PROVE  Go2(op, b, mode) = Go(op, b, mode)
  <2>1. CASE b.res = "HANDED_ON"
    <3>1. Go(op, b, mode) = Next1(b)
      BY <2>1 DEF Go
    <3>2. Next1(b).res # "HANDED_ON"
      BY <1>1, <2>1 DEF Deep1
    <3>3. Go(op, Next1(b), mode) = Next1(b)
      BY <3>2, GoEnds
    <3> QED
      BY <3>1, <3>3 DEF Go2
  <2> QED
    BY <2>1, GoEnds
<1>2. ASSUME NEW b, b.res = "HANDED_ON" => Deep2(b.fs)
      PROVE  Go3(op, b, mode) = Go2(op, b, mode)
  <2>1. CASE b.res = "HANDED_ON"
    <3>1. Go(op, b, mode) = Next1(b)
      BY <2>1 DEF Go
    <3>2. Next1(b).res = "HANDED_ON" => Deep1(Next1(b).fs)
      BY <1>2, <2>1 DEF Deep2
    <3>3. Go2(op, Next1(b), mode) = Go(op, Next1(b), mode)
      BY <3>2, <1>1
    <3> QED
      BY <3>1, <3>3 DEF Go3, Go2
  <2> QED
    BY <2>1, GoEnds
<1>3. ASSUME NEW b, b.res = "HANDED_ON" => Deep3(b.fs)
      PROVE  Go4(op, b, mode) = Go3(op, b, mode)
  <2>1. CASE b.res = "HANDED_ON"
    <3>1. Go(op, b, mode) = Next1(b)
      BY <2>1 DEF Go
    <3>2. Next1(b).res = "HANDED_ON" => Deep2(Next1(b).fs)
      BY <1>3, <2>1 DEF Deep3
    <3>3. Go3(op, Next1(b), mode) = Go2(op, Next1(b), mode)
      BY <3>2, <1>2
    <3> QED
      BY <3>1, <3>3 DEF Go4, Go3
  <2> QED
    BY <2>1, GoEnds
<1>4. CASE a.res = "HANDED_ON"
  <2>1. Go(op, a, mode) = Next1(a)
    BY <1>4 DEF Go
  <2>2. Next1(a).res = "HANDED_ON" => Deep3(Next1(a).fs)
    BY <1>4 DEF Deep4
  <2>3. Go4(op, Next1(a), mode) = Go3(op, Next1(a), mode)
    BY <2>2, <1>3
  <2> QED
    BY <2>1, <2>3 DEF Go5, Go4
<1> QED
  BY <1>4, GoEnds

\* What a file system answers by itself is the answer; what it hands on is answered
\* by the other.
LEMMA AskAnswered ==
  ASSUME NEW op, NEW fs, NEW p, NEW mode, Answered(op, fs, p, mode).res # "HANDED_ON"
  PROVE  Ask(op, fs, p, mode) = Answered(op, fs, p, mode)
<1>1. Go5(op, HandOn(fs, p), mode) = Go4(op, Answered(op, fs, p, mode), mode)
  BY GoHandOn DEF Go5
<1> QED
  BY <1>1, AskGoes, GoEnds

LEMMA AskHandedOn ==
  ASSUME NEW op \in Operations, NEW fs, NEW p, NEW mode, NEW child, NEW q,
         Answered(op, fs, p, mode) = HandOn(child, q), Deep4(child)
  PROVE  Ask(op, fs, p, mode) = Ask(op, child, q, mode)
<1>1. Go5(op, HandOn(fs, p), mode) = Go4(op, HandOn(child, q), mode)
  BY GoHandOn DEF Go5
<1>2. HandOn(child, q).fs = child
  BY DEF HandOn
<1>3. Go5(op, HandOn(child, q), mode) = Go4(op, HandOn(child, q), mode)
  BY <1>2, GoSettles
<1> QED
  BY <1>1, <1>3, AskGoes

-----------------------------------------------------------------------------
\* The class of a file system answers for it.
LEMMA AnsweredBy ==
  ASSUME NEW op, NEW fs, NEW p, NEW mode
  PROVE  /\ fs.kind = "card" =>
              Answered(op, fs, p, mode) = PartitionAnswer(op, fs.root, p, mode)
         /\ fs.kind = "partition" =>
              Answered(op, fs, p, mode) = PartitionAnswer(op, fs, p, mode)
         /\ fs.kind = "wrapper" => Answered(op, fs, p, mode) = WrapperAnswer(op, fs, p, mode)
         /\ fs.kind = "nca" => Answered(op, fs, p, mode) = NcaAnswer(op, fs, p, mode)
         /\ fs.kind = "romfs" => Answered(op, fs, p, mode) = RomAnswer(op, fs, p, mode)
BY DEF Answered

LEMMA AnswersByOperation ==
  ASSUME NEW fs, NEW p, NEW mode
  PROVE  /\ PartitionAnswer("access", fs, p, mode) = PartitionAccess(fs, p, mode)
         /\ PartitionAnswer("getAttributes", fs, p, mode) = PartitionAttributes(fs, p)
         /\ PartitionAnswer("openFile", fs, p, mode) = PartitionOpenFile(fs, p, mode)
         /\ PartitionAnswer("openDirectory", fs, p, mode) = PartitionOpenDirectory(fs, p)
         /\ WrapperAnswer("access", fs, p, mode) = WrapperAccess(fs, p, mode)
         /\ WrapperAnswer("getAttributes", fs, p, mode) = WrapperAttributes(fs, p)
         /\ WrapperAnswer("openFile", fs, p, mode) = WrapperOpenFile(fs, p)
         /\ WrapperAnswer("openDirectory", fs, p, mode) = WrapperOpenDirectory(fs, p)
         /\ NcaAnswer("access", fs, p, mode) = NcaAccess(fs, p, mode)
         /\ NcaAnswer("getAttributes", fs, p, mode) = NcaAttributes(fs, p)
         /\ NcaAnswer("openFile", fs, p, mode) = NcaOpenFile(fs, p, mode)
         /\ NcaAnswer("openDirectory", fs, p, mode) = NcaOpenDirectory(fs, p)
         /\ RomAnswer("access", fs, p, mode) = RomAccess(fs, p, mode)
         /\ RomAnswer("getAttributes", fs, p, mode) = RomAttributes(fs, p)
         /\ RomAnswer("openFile", fs, p, mode) = RomOpenFile(fs, p, mode)
         /\ RomAnswer("openDirectory", fs, p, mode) = RomOpenDirectory(fs, p)
BY DEF PartitionAnswer, WrapperAnswer, NcaAnswer, RomAnswer

-----------------------------------------------------------------------------
(* What a request is handed on to.                                         *)

\* Sequences are entered by numbers.
LEMMA SeqDomain ==
  ASSUME NEW S, NEW s \in Seq(S)
  PROVE  /\ Len(s) \in Nat /\ DOMAIN s = 1 .. Len(s) /\ DOMAIN s \in SUBSET (Nat \ {0})
         /\ \A i \in DOMAIN s : s[i] \in S
OBVIOUS

\* What a class hands a request on to is one of its own entries.
LEMMA PartitionHandsOn ==
  ASSUME NEW fs, DOMAIN fs.entries \in SUBSET (Nat \ {0}), NEW op \in Operations,
         NEW p, NEW mode, PartitionAnswer(op, fs, p, mode).res = "HANDED_ON"
  PROVE  \E i \in DOMAIN fs.entries :
           fs.entries[i].fs # NoFs /\ PartitionAnswer(op, fs, p, mode).fs = fs.entries[i].fs
<1> DEFINE at == GetEntry(fs.entries, First(p))
           a == PartitionAnswer(op, fs, p, mode)
<1>1. at # 0 => at \in DOMAIN fs.entries
  BY GetEntryIs
<1>2. at # 0 /\ fs.entries[at].fs # NoFs /\ a = HandOn(fs.entries[at].fs, Rest(p))
  <2>1. op \in {"access", "getAttributes", "openFile", "openDirectory"}
    BY DEF Operations
  <2>2. CASE op = "access"
    <3>1. a = PartitionAccess(fs, p, mode)
      BY <2>2, AnswersByOperation
    <3> QED
      BY <3>1 DEF PartitionAccess, Granted, Result
  <2>3. CASE op = "getAttributes"
    <3>1. a = PartitionAttributes(fs, p)
      BY <2>3, AnswersByOperation
    <3> QED
      BY <3>1 DEF PartitionAttributes, Directory, NoFile, Failure, File
  <2>4. CASE op = "openFile"
    <3>1. a = PartitionOpenFile(fs, p, mode)
      BY <2>4, AnswersByOperation
    <3> QED
      BY <3>1 DEF PartitionOpenFile, NoFile, Failure, File
  <2>5. CASE op = "openDirectory"
    <3>1. a = PartitionOpenDirectory(fs, p)
      BY <2>5, AnswersByOperation
    <3> QED
      BY <3>1 DEF PartitionOpenDirectory, NoDirectory, GetRoot, DirectoryOf
  <2> QED
    BY <2>1, <2>2, <2>3, <2>4, <2>5
<1>3. a.fs = fs.entries[at].fs
  BY <1>2 DEF HandOn
<1> QED
  BY <1>1, <1>2, <1>3

LEMMA WrapperHandsOn ==
  ASSUME NEW fs, DOMAIN fs.entries \in SUBSET (Nat \ {0}), NEW op \in Operations,
         NEW p, NEW mode, WrapperAnswer(op, fs, p, mode).res = "HANDED_ON"
  PROVE  \E i \in DOMAIN fs.entries : WrapperAnswer(op, fs, p, mode).fs = fs.entries[i].fs
<1> DEFINE at == GetEntry(fs.entries, First(p))
           a == WrapperAnswer(op, fs, p, mode)
<1>1. at # 0 => at \in DOMAIN fs.entries
  BY GetEntryIs
<1>2. at # 0 /\ a = HandOn(fs.entries[at].fs, Rest(p))
  <2>1. op \in {"access", "getAttributes", "openFile", "openDirectory"}
    BY DEF Operations
  <2>2. CASE op = "access"
    <3>1. a = WrapperAccess(fs, p, mode)
      BY <2>2, AnswersByOperation
    <3> QED
      BY <3>1 DEF WrapperAccess, Granted, Result
  <2>3. CASE op = "getAttributes"
    <3>1. a = WrapperAttributes(fs, p)
      BY <2>3, AnswersByOperation
    <3> QED
      BY <3>1 DEF WrapperAttributes, Directory, NoFile, Failure
  <2>4. CASE op = "openFile"
    <3>1. a = WrapperOpenFile(fs, p)
      BY <2>4, AnswersByOperation
    <3> QED
      BY <3>1 DEF WrapperOpenFile, NoFile, Failure
  <2>5. CASE op = "openDirectory"
    <3>1. a = WrapperOpenDirectory(fs, p)
      BY <2>5, AnswersByOperation
    <3> QED
      BY <3>1 DEF WrapperOpenDirectory, NoDirectory, GetRoot, DirectoryOf
  <2> QED
    BY <2>1, <2>2, <2>3, <2>4, <2>5
<1>3. a.fs = fs.entries[at].fs
  BY <1>2 DEF HandOn
<1> QED
  BY <1>1, <1>2, <1>3

LEMMA NcaHandsOn ==
  ASSUME NEW fs, DOMAIN Sections(fs) \in SUBSET (Nat \ {0}), NEW op \in Operations,
         NEW p, NEW mode, NcaAnswer(op, fs, p, mode).res = "HANDED_ON"
  PROVE  \E i \in DOMAIN Sections(fs) : NcaAnswer(op, fs, p, mode).fs = Sections(fs)[i].fs
<1> DEFINE at == GetEntry(Sections(fs), First(p))
           a == NcaAnswer(op, fs, p, mode)
<1>1. at # 0 => at \in DOMAIN Sections(fs)
  BY GetEntryIs
<1>2. at # 0 /\ a = HandOn(Sections(fs)[at].fs, Rest(p))
  <2>1. op \in {"access", "getAttributes", "openFile", "openDirectory"}
    BY DEF Operations
  <2>2. CASE op = "access"
    <3>1. a = NcaAccess(fs, p, mode)
      BY <2>2, AnswersByOperation
    <3> QED
      BY <3>1 DEF NcaAccess, Granted, Result, ThroughEntry
  <2>3. CASE op = "getAttributes"
    <3>1. a = NcaAttributes(fs, p)
      BY <2>3, AnswersByOperation
    <3> QED
      BY <3>1 DEF NcaAttributes, Directory, NoFile, Failure, File, ThroughEntry
  <2>4. CASE op = "openFile"
    <3>1. a = NcaOpenFile(fs, p, mode)
      BY <2>4, AnswersByOperation
    <3> QED
      BY <3>1 DEF NcaOpenFile, NoFile, Failure, File, ThroughEntry
  <2>5. CASE op = "openDirectory"
    <3>1. a = NcaOpenDirectory(fs, p)
      BY <2>5, AnswersByOperation
    <3> QED
      BY <3>1 DEF NcaOpenDirectory, NoDirectory, GetRoot, DirectoryOf, ThroughEntry
  <2> QED
    BY <2>1, <2>2, <2>3, <2>4, <2>5
<1>3. a.fs = Sections(fs)[at].fs
  BY <1>2 DEF HandOn
<1> QED
  BY <1>1, <1>2, <1>3

LEMMA RomHandsOn ==
  ASSUME NEW fs, NEW op \in Operations, NEW p, NEW mode
  PROVE  RomAnswer(op, fs, p, mode).res # "HANDED_ON"
<1> DEFINE a == RomAnswer(op, fs, p, mode)
<1>1. op \in {"access", "getAttributes", "openFile", "openDirectory"}
  BY DEF Operations
<1>2. CASE op = "access"
  <2>1. a = RomAccess(fs, p, mode)
    BY <1>2, AnswersByOperation
  <2> QED
    BY <2>1 DEF RomAccess, Granted, Result
<1>3. CASE op = "getAttributes"
  <2>1. a = RomAttributes(fs, p)
    BY <1>3, AnswersByOperation
  <2> QED
    BY <2>1 DEF RomAttributes, Directory, NoFile, Failure, File
<1>4. CASE op = "openFile"
  <2>1. a = RomOpenFile(fs, p, mode)
    BY <1>4, AnswersByOperation
  <2> QED
    BY <2>1 DEF RomOpenFile, NoFile, Failure, File
<1>5. CASE op = "openDirectory"
  <2>1. a = RomOpenDirectory(fs, p)
    BY <1>5, AnswersByOperation
  <2> QED
    BY <2>1 DEF RomOpenDirectory, NoDirectory, GetRoot, DirectoryOf
<1> QED
  BY <1>1, <1>2, <1>3, <1>4, <1>5

-----------------------------------------------------------------------------
LEMMA EntriesDomain ==
  ASSUME NEW entries, AreEntries(entries)
  PROVE  /\ Len(entries) \in Nat /\ DOMAIN entries = 1 .. Len(entries)
         /\ DOMAIN entries \in SUBSET (Nat \ {0}) /\ Distinct(entries)
<1>1. entries \in Seq({entries[i] : i \in DOMAIN entries}) /\ Distinct(entries)
  BY DEF AreEntries
<1> DEFINE S == {entries[i] : i \in DOMAIN entries}
<1> HIDE DEF S
<1> QED
  BY <1>1, SeqDomain DEF S

\* Sections that have the same name are the same.
LEMMA SectionNamesDiffer ==
  ASSUME NEW nca, IsNca(nca), NEW i \in DOMAIN nca.sections, Created(nca, i),
         NEW j \in DOMAIN nca.sections, Created(nca, j), SectionName(nca, i) = SectionName(nca, j)
  PROVE  i = j
<1>1. nca.sections[i].patched = nca.sections[j].patched
  BY DEF IsNca
<1>2. i \in Nat /\ j \in Nat /\ i >= 1 /\ j >= 1
  <2>1. nca.sections \in Seq({nca.sections[k] : k \in DOMAIN nca.sections})
    BY DEF IsNca
  <2> DEFINE S == {nca.sections[k] : k \in DOMAIN nca.sections}
  <2> HIDE DEF S
  <2>2. DOMAIN nca.sections \in SUBSET (Nat \ {0})
    BY <2>1, SeqDomain DEF S
  <2> QED
    BY <2>2
<1> DEFINE Plain(k) == SectionName(nca, k) = <<Label(nca, k)>>
           Numbered(k) == SectionName(nca, k) = <<Label(nca, k), k - 1>>
           Taken(k, l) == /\ Created(nca, l) /\ Label(nca, l) = Label(nca, k)
                          /\ nca.sections[l].patched = nca.sections[k].patched
<1>3. ASSUME NEW k \in {i, j}
      PROVE  \/ Numbered(k)
             \/ Plain(k) /\ \A l \in 1 .. k - 1 : ~ Taken(k, l)
  BY Zenon DEF SectionName, Suffixed
<1>4. CASE Plain(i) /\ Plain(j)
  <2>1. Label(nca, i) = Label(nca, j)
    <3>1. <<Label(nca, i)>> = <<Label(nca, j)>>
      BY <1>4
    <3>2. \A a, b : <<a>> = <<b>> => a = b
      OBVIOUS
    <3> QED
      BY <3>1, <3>2
  <2>2. Taken(i, j) /\ Taken(j, i)
    BY <1>1, <2>1
  <2>3. /\ Numbered(i) \/ j \notin 1 .. i - 1
        /\ Numbered(j) \/ i \notin 1 .. j - 1
    BY <1>3, <2>2
  <2>4. ~ Numbered(i) /\ ~ Numbered(j)
    <3>1. \A a, b, c : <<a>> # <<b, c>>
      OBVIOUS
    <3> QED
      BY <1>4, <3>1
  <2> HIDE DEF Numbered
  <2> QED
    BY <1>2, <2>3, <2>4
<1>5. CASE Numbered(i) /\ Numbered(j)
  <2>1. i - 1 = j - 1
    <3>1. <<Label(nca, i), i - 1>> = <<Label(nca, j), j - 1>>
      BY <1>5
    <3>2. \A a, b, c, d : <<a, c>> = <<b, d>> => c = d
      OBVIOUS
    <3> QED
      BY <3>1, <3>2
  <2> QED
    BY <1>2, <2>1
<1>6. ~ (Plain(i) /\ Numbered(j)) /\ ~ (Plain(j) /\ Numbered(i))
  <2>1. \A a, b, c : <<a>> # <<b, c>>
    OBVIOUS
  <2> QED
    BY <2>1
<1> QED
  BY <1>3, <1>4, <1>5, <1>6

\* The sections of an NCA, under names of their own.
LEMMA SectionsAre ==
  ASSUME NEW nca, IsNca(nca)
  PROVE  /\ Len(Sections(nca)) \in Nat /\ DOMAIN Sections(nca) = 1 .. Len(Sections(nca))
         /\ \A k \in DOMAIN Sections(nca) :
              /\ Sections(nca)[k] = [name |-> Sections(nca)[k].name, fs |-> Sections(nca)[k].fs]
              /\ Sections(nca)[k].name \in Names \ {nca.name} /\ IsSection(Sections(nca)[k].fs)
         /\ \A j, k \in DOMAIN Sections(nca) :
              Sections(nca)[j].name = Sections(nca)[k].name => j = k
<1> DEFINE positions == {i \in DOMAIN nca.sections : Created(nca, i)}
           used == InOrder(Len(nca.sections), positions)
<1>1. Len(nca.sections) \in Nat /\ DOMAIN nca.sections = 1 .. Len(nca.sections)
  <2>1. nca.sections \in Seq({nca.sections[k] : k \in DOMAIN nca.sections})
    BY DEF IsNca
  <2> DEFINE S == {nca.sections[k] : k \in DOMAIN nca.sections}
  <2> HIDE DEF S
  <2> QED
    BY <2>1, SeqDomain DEF S
<1>2. Picks(used, positions)
  <2>1. positions \in SUBSET (1 .. Len(nca.sections))
    BY <1>1
  <2> HIDE DEF positions
  <2> QED
    BY <1>1, <2>1, InOrderPicks
<1>3. Len(used) \in Nat /\ DOMAIN used = 1 .. Len(used)
      /\ \A k \in DOMAIN used : used[k] \in positions
  <2> HIDE DEF positions, used
  <2> QED
    BY <1>2, SeqDomain DEF Picks
<1>4. Sections(nca) =
        [k \in DOMAIN used |-> [name |-> SectionName(nca, used[k]), fs |-> nca.sections[used[k]].fs]]
  BY DEF Sections
<1>5. \A i \in positions : SectionName(nca, i) \in Names \ {nca.name}
  BY DEF IsNca
<1>6. \A i \in positions : IsSection(nca.sections[i].fs)
  BY DEF IsNca, Created
<1>7. \A j, k \in DOMAIN used : SectionName(nca, used[j]) = SectionName(nca, used[k]) => j = k
  <2>1. \A j, k \in DOMAIN used : used[j] = used[k] => j = k
    <3> HIDE DEF used, positions
    <3> QED
      BY <1>2 DEF Picks
  <2>2. \A i, j \in positions : SectionName(nca, i) = SectionName(nca, j) => i = j
    BY SectionNamesDiffer
  <2> HIDE DEF used, positions
  <2> QED
    BY <1>3, <2>1, <2>2
<1> HIDE DEF used, positions
<1>8. Len(Sections(nca)) = Len(used) /\ DOMAIN Sections(nca) = DOMAIN used
  BY <1>3, <1>4
<1>9. \A k \in DOMAIN used :
        Sections(nca)[k] = [name |-> SectionName(nca, used[k]), fs |-> nca.sections[used[k]].fs]
  BY <1>4
<1> QED
  BY <1>3, <1>5, <1>6, <1>7, <1>8, <1>9

\* How deep each class is.
LEMMA SectionIsDeep ==
  ASSUME NEW fs, IsSection(fs)
  PROVE  Deep1(fs)
<1> SUFFICES ASSUME NEW op \in Operations, NEW p, NEW mode
             PROVE  Answered(op, fs, p, mode).res # "HANDED_ON"
  BY DEF Deep1
<1>1. CASE IsRom(fs)
  <2>1. fs.kind = "romfs"
    BY <1>1 DEF IsRom
  <2> QED
    BY <2>1, AnsweredBy, RomHandsOn
<1>2. CASE ~ IsRom(fs)
  <2>1. fs.kind = "partition" /\ AreEntries(fs.entries)
        /\ \A i \in DOMAIN fs.entries : fs.entries[i] \in [name : Names, fs : {NoFs}, size : Nat]
    BY <1>2 DEF IsSection
  <2>2. \A i \in DOMAIN fs.entries : fs.entries[i].fs = NoFs
    BY <2>1
  <2>3. DOMAIN fs.entries \in SUBSET (Nat \ {0})
    BY <2>1, EntriesDomain
  <2>4. PartitionAnswer(op, fs, p, mode).res # "HANDED_ON"
    BY <2>2, <2>3, PartitionHandsOn
  <2> QED
    BY <2>1, <2>4, AnsweredBy
<1> QED
  BY <1>1, <1>2

LEMMA NcaIsDeep ==
  ASSUME NEW fs, IsNca(fs)
  PROVE  Deep2(fs)
<1> SUFFICES ASSUME NEW op \in Operations, NEW p, NEW mode,
                    Answered(op, fs, p, mode).res = "HANDED_ON"
             PROVE  Deep1(Answered(op, fs, p, mode).fs)
  BY DEF Deep2
<1>1. Answered(op, fs, p, mode) = NcaAnswer(op, fs, p, mode)
  BY AnsweredBy DEF IsNca
<1>2. DOMAIN Sections(fs) \in SUBSET (Nat \ {0})
  BY SectionsAre
<1>3. \E i \in DOMAIN Sections(fs) : NcaAnswer(op, fs, p, mode).fs = Sections(fs)[i].fs
  BY <1>1, <1>2, NcaHandsOn
<1> QED
  BY <1>1, <1>3, SectionsAre, SectionIsDeep

LEMMA WrapperIsDeep ==
  ASSUME NEW fs, IsWrapper(fs)
  PROVE  Deep3(fs)
<1> SUFFICES ASSUME NEW op \in Operations, NEW p, NEW mode,
                    Answered(op, fs, p, mode).res = "HANDED_ON"
             PROVE  Deep2(Answered(op, fs, p, mode).fs)
  BY DEF Deep3
<1>1. Answered(op, fs, p, mode) = WrapperAnswer(op, fs, p, mode)
  BY AnsweredBy DEF IsWrapper
<1>2. DOMAIN fs.entries \in SUBSET (Nat \ {0})
  BY EntriesDomain DEF IsWrapper
<1>3. \E i \in DOMAIN fs.entries : WrapperAnswer(op, fs, p, mode).fs = fs.entries[i].fs
  BY <1>1, <1>2, WrapperHandsOn
<1>4. \A i \in DOMAIN fs.entries : IsNca(fs.entries[i].fs)
  BY DEF IsWrapper
<1> QED
  BY <1>1, <1>3, <1>4, NcaIsDeep

LEMMA PackageIsDeep ==
  ASSUME NEW fs, IsPackage(fs)
  PROVE  Deep4(fs)
<1> SUFFICES ASSUME NEW op \in Operations, NEW p, NEW mode,
                    Answered(op, fs, p, mode).res = "HANDED_ON"
             PROVE  Deep3(Answered(op, fs, p, mode).fs)
  BY DEF Deep4
<1>1. Answered(op, fs, p, mode) = PartitionAnswer(op, fs, p, mode)
  BY AnsweredBy DEF IsPackage
<1>2. DOMAIN fs.entries \in SUBSET (Nat \ {0})
  BY EntriesDomain DEF IsPackage
<1>3. \E i \in DOMAIN fs.entries :
        fs.entries[i].fs # NoFs /\ PartitionAnswer(op, fs, p, mode).fs = fs.entries[i].fs
  BY <1>1, <1>2, PartitionHandsOn
<1>4. \A i \in DOMAIN fs.entries :
        fs.entries[i].fs = NoFs \/ IsNca(fs.entries[i].fs) \/ IsWrapper(fs.entries[i].fs)
  BY DEF IsPackage
<1> QED
  BY <1>1, <1>3, <1>4, NcaIsDeep, WrapperIsDeep, Deeper

-----------------------------------------------------------------------------
(* Paths.                                                                  *)

\* What is below a name.
Below(name, p) == <<name>> \o p

LEMMA BelowIs ==
  ASSUME NEW name \in Names, NEW p \in Paths
  PROVE  /\ Below(name, p) \in Paths /\ Below(name, p) # Root
         /\ Len(Below(name, p)) = Len(p) + 1 /\ Len(p) \in Nat
         /\ Below(name, p)[1] = name
         /\ \A i \in 1 .. Len(p) : Below(name, p)[i + 1] = p[i]
BY DEF Below, Paths, Root

LEMMA FirstRest ==
  ASSUME NEW name \in Names, NEW p \in Paths
  PROVE  /\ First(Below(name, p)) = name /\ Rest(Below(name, p)) = p
         /\ First(Below(name, p)) # NoName
<1>1. First(Below(name, p)) = name
  BY BelowIs DEF First
<1>2. Rest(Below(name, p)) = p
  <2>1. Tail(<<name>> \o p) = p
    BY DEF Paths
  <2> QED
    BY <2>1, BelowIs DEF Rest, Below
<1> QED
  BY <1>1, <1>2, FrontEndAssumption DEF FrontEndAssumption

LEMMA BelowFirst ==
  ASSUME NEW p \in Paths, p # Root
  PROVE  First(p) \in Names /\ Rest(p) \in Paths /\ p = Below(First(p), Rest(p))
<1>1. p \in Seq(Names) /\ p # <<>>
  BY DEF Paths, Root
<1>2. First(p) = p[1] /\ Rest(p) = Tail(p)
  BY DEF First, Rest
<1>3. p[1] \in Names /\ Tail(p) \in Seq(Names) /\ p = <<p[1]>> \o Tail(p)
  BY <1>1
<1> QED
  BY <1>2, <1>3 DEF Paths, Below

LEMMA BelowDiffers ==
  ASSUME NEW m \in Names, NEW n \in Names, NEW p \in Paths, NEW q \in Paths,
         Below(m, p) = Below(n, q)
  PROVE  m = n /\ p = q
BY FirstRest

LEMMA ParentLast ==
  ASSUME NEW p \in Paths, p # Root
  PROVE  Parent(p) \in Paths /\ LastName(p) \in Names /\ p = Append(Parent(p), LastName(p))
<1>1. p \in Seq(Names) /\ p # <<>> /\ Len(p) \in Nat /\ Len(p) >= 1
  BY DEF Paths, Root
<1>2. LastName(p) = p[Len(p)] /\ LastName(p) \in Names
  BY <1>1 DEF LastName
<1>3. Parent(p) = SubSeq(p, 1, Len(p) - 1)
  BY DEF Parent
<1>4. Parent(p) \in Seq(Names) /\ Len(Parent(p)) = Len(p) - 1
      /\ \A i \in 1 .. Len(p) - 1 : Parent(p)[i] = p[i]
  <2> DEFINE n == Len(p) - 1
  <2>1. n \in Int /\ n >= 0 /\ \A i \in 1 .. n : p[i] \in Names
    BY <1>1
  <2> HIDE DEF n
  <2>2. /\ SubSeq(p, 1, n) \in Seq(Names) /\ Len(SubSeq(p, 1, n)) = IF 1 <= n THEN n - 1 + 1 ELSE 0
        /\ \A i \in 1 .. n - 1 + 1 : SubSeq(p, 1, n)[i] = p[1 + i - 1]
    BY <2>1, SubSeqProperties
  <2>3. Len(SubSeq(p, 1, n)) = n /\ \A i \in 1 .. n : SubSeq(p, 1, n)[i] = p[i]
    BY <2>1, <2>2
  <2> QED
    BY <1>3, <2>2, <2>3 DEF n
<1>5. p = Append(Parent(p), LastName(p))
  <2> DEFINE q == Parent(p)
             t == Append(q, LastName(p))
  <2>1. t \in Seq(Names) /\ Len(t) = Len(p) /\ t[Len(p)] = LastName(p)
        /\ \A i \in 1 .. Len(p) - 1 : t[i] = q[i]
    <3> HIDE DEF q
    <3>1. q \in Seq(Names) /\ Len(q) = Len(p) - 1
      BY <1>4 DEF q
    <3> QED
      BY <1>1, <1>2, <3>1, AppendProperties
  <2>2. \A i \in 1 .. Len(p) : p[i] = t[i]
    <3> HIDE DEF t
    <3> QED
      BY <1>1, <1>2, <1>4, <2>1
  <2> HIDE DEF t
  <2>3. p = t
    BY <1>1, <2>1, <2>2, SeqEqual
  <2> QED
    BY <2>3 DEF t
<1> QED
  BY <1>2, <1>4, <1>5 DEF Paths

LEMMA ParentOfAppend ==
  ASSUME NEW p \in Paths, NEW name \in Names
  PROVE  /\ Append(p, name) \in Paths /\ Append(p, name) # Root
         /\ Parent(Append(p, name)) = p /\ LastName(Append(p, name)) = name
<1>1. Append(p, name) \in Paths /\ Append(p, name) # Root
  <2>1. p \in Seq(Names)
    BY DEF Paths
  <2> QED
    BY <2>1, AppendProperties DEF Paths, Root
<1>2. Parent(Append(p, name)) = p
  <2> DEFINE t == Append(p, name)
  <2>0. p \in Seq(Names)
    BY DEF Paths
  <2>1. /\ p \in Seq(Names) /\ t \in Seq(Names) /\ Len(p) \in Nat /\ Len(t) = Len(p) + 1
        /\ \A i \in 1 .. Len(p) : t[i] = p[i]
    BY <2>0, AppendProperties
  <2> HIDE DEF t
  <2>2. Parent(t) = SubSeq(t, 1, Len(p))
    BY <2>1 DEF Parent
  <2>3. \A i \in 1 .. Len(p) : t[i] \in Names
    BY <2>1
  <2>4. /\ SubSeq(t, 1, Len(p)) \in Seq(Names) /\ Len(SubSeq(t, 1, Len(p))) = Len(p)
        /\ \A i \in 1 .. Len(p) : SubSeq(t, 1, Len(p))[i] = t[i]
    BY <2>1, <2>3
  <2>5. SubSeq(t, 1, Len(p)) = p
    BY <2>1, <2>4, SeqEqual
  <2> QED
    BY <2>2, <2>5 DEF t
<1>3. LastName(Append(p, name)) = name
  BY DEF Paths, LastName
<1> QED
  BY <1>1, <1>2, <1>3

LEMMA ParentBelow ==
  ASSUME NEW name \in Names, NEW p \in Paths
  PROVE  /\ p = Root => Parent(Below(name, p)) = Root /\ LastName(Below(name, p)) = name
         /\ p # Root => /\ Parent(Below(name, p)) = Below(name, Parent(p))
                        /\ LastName(Below(name, p)) = LastName(p)
<1>1. CASE p = Root
  <2>1. Below(name, p) = <<name>>
    BY <1>1 DEF Below, Root
  <2> QED
    BY <1>1, <2>1 DEF Parent, LastName, Root
<1>2. CASE p # Root
  <2>1. Parent(p) \in Paths /\ LastName(p) \in Names /\ p = Append(Parent(p), LastName(p))
    BY <1>2, ParentLast
  <2>2. Below(name, p) = Append(Below(name, Parent(p)), LastName(p))
    <3>1. \A q \in Seq(Names), l \in Names : <<name>> \o Append(q, l) = Append(<<name>> \o q, l)
      OBVIOUS
    <3> QED
      BY <2>1, <3>1 DEF Below, Paths
  <2>3. Below(name, Parent(p)) \in Paths
    BY <2>1, BelowIs
  <2> QED
    BY <1>2, <2>1, <2>2, <2>3, ParentOfAppend
<1> QED
  BY <1>1, <1>2

-----------------------------------------------------------------------------
(* Trees.                                                                  *)

IsNode(n) ==
  /\ n = Node(n.path, n.type, n.size)
  /\ n.path \in Paths /\ n.type \in {"directory", "file"} /\ n.size \in Nat
  /\ n.type = "directory" => n.size = 0

\* A file, or a directory with all that is below it.
IsBranch(T) ==
  /\ \A n \in T : IsNode(n)
  /\ \E n \in T : n.path = Root
  /\ \A m, n \in T : m.path = n.path => m = n
  /\ \A n \in T : n.path # Root => \E d \in T : d.path = Parent(n.path) /\ d.type = "directory"

ChildrenIn(T, p) ==
  {Entry(LastName(n.path), n.type, n.size) : n \in {c \in T : c.path # Root /\ Parent(c.path) = p}}

\* A directory of branches, each under a name.
Assembled(K, name, part) == {RootNode} \cup UNION {Under(name[k], part[k]) : k \in K}
Moved(name, n) == Node(Below(name, n.path), n.type, n.size)

Parts(K, name, part) ==
  /\ \A k \in K : name[k] \in Names /\ IsBranch(part[k])
  /\ \A j, k \in K : name[j] = name[k] => j = k

LEMMA NodeFields ==
  ASSUME NEW p, NEW t, NEW s
  PROVE  Node(p, t, s).path = p /\ Node(p, t, s).type = t /\ Node(p, t, s).size = s
BY DEF Node

LEMMA AssembledHas ==
  ASSUME NEW K, NEW name, NEW part, NEW n
  PROVE  n \in Assembled(K, name, part) <=>
           n = RootNode \/ \E k \in K : \E m \in part[k] : n = Moved(name[k], m)
BY DEF Assembled, Under, Moved, Below

LEMMA RootNodeIs ==
  IsNode(RootNode) /\ RootNode.path = Root /\ RootNode.type = "directory" /\ RootNode.size = 0
BY DEF IsNode, RootNode, Node, Root, Paths

LEMMA MovedIs ==
  ASSUME NEW name \in Names, NEW m, IsNode(m)
  PROVE  /\ IsNode(Moved(name, m)) /\ Moved(name, m).path = Below(name, m.path)
         /\ Moved(name, m).type = m.type /\ Moved(name, m).size = m.size
         /\ m.path \in Paths /\ Moved(name, m).path # Root
<1>1. Below(name, m.path) \in Paths /\ Below(name, m.path) # Root
  BY BelowIs DEF IsNode
<1>2. /\ Moved(name, m).path = Below(name, m.path)
      /\ Moved(name, m).type = m.type /\ Moved(name, m).size = m.size
  BY DEF Moved, Node
<1>3. Moved(name, m) = Node(Moved(name, m).path, Moved(name, m).type, Moved(name, m).size)
  BY <1>2 DEF Moved
<1> QED
  BY <1>1, <1>2, <1>3 DEF IsNode

\* What is put together of branches is a branch.
LEMMA AssembledIsBranch ==
  ASSUME NEW K, NEW name, NEW part, Parts(K, name, part)
  PROVE  IsBranch(Assembled(K, name, part)) /\ RootNode \in Assembled(K, name, part)
<1> DEFINE T == Assembled(K, name, part)
<1>0. RootNode \in T
  BY AssembledHas
<1>1. ASSUME NEW n \in T PROVE n = RootNode \/ \E k \in K : \E m \in part[k] : n = Moved(name[k], m)
  BY AssembledHas
<1>2. ASSUME NEW k \in K, NEW m \in part[k]
      PROVE  Moved(name[k], m) \in T /\ name[k] \in Names /\ IsNode(m) /\ IsBranch(part[k])
  BY AssembledHas DEF Parts, IsBranch
<1> HIDE DEF T
<1>3. \A n \in T : IsNode(n)
  BY <1>1, <1>2, MovedIs, RootNodeIs
<1>4. \E n \in T : n.path = Root
  BY <1>0, RootNodeIs
<1>5. ASSUME NEW m \in T, NEW n \in T, m.path = n.path PROVE m = n
  <2>1. CASE m = RootNode
    BY <2>1, <1>1, <1>2, <1>5, MovedIs, RootNodeIs
  <2>2. CASE m # RootNode
    <3>1. PICK j \in K : \E i \in part[j] : m = Moved(name[j], i)
      BY <1>1, <2>2
    <3>2. PICK i \in part[j] : m = Moved(name[j], i)
      BY <3>1
    <3>3. n # RootNode
      BY <3>2, <1>2, <1>5, MovedIs, RootNodeIs
    <3>4. PICK l \in K : \E h \in part[l] : n = Moved(name[l], h)
      BY <1>1, <3>3
    <3>5. PICK h \in part[l] : n = Moved(name[l], h)
      BY <3>4
    <3>6. Below(name[j], i.path) = Below(name[l], h.path)
      BY <1>2, <1>5, <3>2, <3>5, MovedIs
    <3>7. name[j] = name[l] /\ i.path = h.path
      BY <1>2, <3>6, MovedIs, BelowDiffers
    <3>8. j = l
      BY <3>7 DEF Parts
    <3>9. i = h
      BY <1>2, <3>7, <3>8 DEF IsBranch
    <3> QED
      BY <3>2, <3>5, <3>8, <3>9
  <2> QED
    BY <2>1, <2>2
<1>6. ASSUME NEW n \in T, n.path # Root
      PROVE  \E d \in T : d.path = Parent(n.path) /\ d.type = "directory"
  <2>1. PICK k \in K : \E m \in part[k] : n = Moved(name[k], m)
    BY <1>1, <1>6, RootNodeIs
  <2>2. PICK m \in part[k] : n = Moved(name[k], m)
    BY <2>1
  <2>3. n.path = Below(name[k], m.path) /\ m.path \in Paths /\ name[k] \in Names
    BY <1>2, <2>2, MovedIs
  <2>4. CASE m.path = Root
    <3>1. Parent(n.path) = Root
      BY <2>3, <2>4, ParentBelow
    <3> QED
      BY <3>1, <1>0, RootNodeIs
  <2>5. CASE m.path # Root
    <3>1. PICK d \in part[k] : d.path = Parent(m.path) /\ d.type = "directory"
      BY <1>2, <2>5 DEF IsBranch
    <3>2. Parent(n.path) = Below(name[k], d.path)
      BY <2>3, <2>5, <3>1, ParentBelow
    <3>3. /\ Moved(name[k], d) \in T /\ Moved(name[k], d).path = Below(name[k], d.path)
          /\ Moved(name[k], d).type = "directory"
      BY <1>2, <3>1, MovedIs
    <3> QED
      BY <3>2, <3>3
  <2> QED
    BY <2>4, <2>5
<1>7. IsBranch(T)
  BY <1>3, <1>4, <1>5, <1>6 DEF IsBranch
<1> QED
  BY <1>0, <1>7 DEF T

\* The children of what moved are those that it had.
LEMMA ChildrenMoved ==
  ASSUME NEW K, NEW name, NEW part, Parts(K, name, part), NEW k \in K, NEW p \in Paths
  PROVE  ChildrenIn(Assembled(K, name, part), Below(name[k], p)) = ChildrenIn(part[k], p)
<1> DEFINE T == Assembled(K, name, part)
           Of(S, q) == {c \in S : c.path # Root /\ Parent(c.path) = q}
<1>1. ASSUME NEW c \in part[k], c.path # Root, Parent(c.path) = p
      PROVE  /\ Moved(name[k], c) \in Of(T, Below(name[k], p))
             /\ LastName(Moved(name[k], c).path) = LastName(c.path)
             /\ Moved(name[k], c).type = c.type /\ Moved(name[k], c).size = c.size
  <2>1. Moved(name[k], c) \in T /\ name[k] \in Names /\ IsNode(c)
    BY AssembledHas DEF Parts, IsBranch
  <2>2. /\ Moved(name[k], c).path = Below(name[k], c.path) /\ c.path \in Paths
        /\ Moved(name[k], c).path # Root
        /\ Moved(name[k], c).type = c.type /\ Moved(name[k], c).size = c.size
    BY <2>1, MovedIs
  <2>3. /\ Parent(Below(name[k], c.path)) = Below(name[k], Parent(c.path))
        /\ LastName(Below(name[k], c.path)) = LastName(c.path)
    BY <1>1, <2>1, <2>2, ParentBelow
  <2> HIDE DEF T
  <2> QED
    BY <1>1, <2>1, <2>2, <2>3
<1>2. ASSUME NEW n \in Of(T, Below(name[k], p))
      PROVE  \E c \in Of(part[k], p) :
               LastName(n.path) = LastName(c.path) /\ n.type = c.type /\ n.size = c.size
  <2>1. n \in T /\ n.path # Root /\ Parent(n.path) = Below(name[k], p)
    OBVIOUS
  <2>2. PICK j \in K : \E m \in part[j] : n = Moved(name[j], m)
    BY <2>1, AssembledHas, RootNodeIs
  <2>3. PICK m \in part[j] : n = Moved(name[j], m)
    BY <2>2
  <2>4. name[j] \in Names /\ name[k] \in Names /\ IsNode(m)
    BY DEF Parts, IsBranch
  <2>5. n.path = Below(name[j], m.path) /\ m.path \in Paths /\ n.type = m.type /\ n.size = m.size
    BY <2>3, <2>4, MovedIs
  <2>6. m.path # Root
    <3>1. m.path = Root => Parent(n.path) = Root
      BY <2>4, <2>5, ParentBelow
    <3> QED
      BY <2>1, <2>4, <3>1, BelowIs
  <2>7. Below(name[j], Parent(m.path)) = Below(name[k], p) /\ LastName(n.path) = LastName(m.path)
    BY <2>1, <2>4, <2>5, <2>6, ParentBelow
  <2>8. Parent(m.path) \in Paths
    BY <2>5, <2>6, ParentLast
  <2>9. name[j] = name[k] /\ Parent(m.path) = p
    BY <2>4, <2>7, <2>8, BelowDiffers
  <2>10. j = k
    BY <2>9 DEF Parts
  <2> QED
    BY <2>5, <2>6, <2>7, <2>9, <2>10
<1>3. ASSUME NEW e PROVE e \in ChildrenIn(T, Below(name[k], p)) <=> e \in ChildrenIn(part[k], p)
  <2>1. e \in ChildrenIn(T, Below(name[k], p)) <=>
          \E n \in Of(T, Below(name[k], p)) : e = Entry(LastName(n.path), n.type, n.size)
    BY DEF ChildrenIn
  <2>2. e \in ChildrenIn(part[k], p) <=>
          \E c \in Of(part[k], p) : e = Entry(LastName(c.path), c.type, c.size)
    BY DEF ChildrenIn
  <2>3. \A c \in Of(part[k], p) :
          /\ Moved(name[k], c) \in Of(T, Below(name[k], p))
          /\ LastName(Moved(name[k], c).path) = LastName(c.path)
          /\ Moved(name[k], c).type = c.type /\ Moved(name[k], c).size = c.size
    BY <1>1
  <2> HIDE DEF Of, T
  <2> QED
    BY <1>2, <2>1, <2>2, <2>3
<1> QED
  BY <1>3

\* The children of the root are the branches.
LEMMA ChildrenOfRoot ==
  ASSUME NEW K, NEW name, NEW part, Parts(K, name, part), NEW e
  PROVE  e \in ChildrenIn(Assembled(K, name, part), Root) <=>
           \E k \in K : \E n \in part[k] : n.path = Root /\ e = Entry(name[k], n.type, n.size)
<1> DEFINE T == Assembled(K, name, part)
<1>1. ASSUME NEW k \in K, NEW m \in part[k]
      PROVE  /\ Moved(name[k], m) \in T /\ name[k] \in Names /\ m.path \in Paths
             /\ Moved(name[k], m).path = Below(name[k], m.path)
             /\ Moved(name[k], m).path # Root
             /\ Moved(name[k], m).type = m.type /\ Moved(name[k], m).size = m.size
  <2>1. Moved(name[k], m) \in T /\ name[k] \in Names /\ IsNode(m)
    BY AssembledHas DEF Parts, IsBranch
  <2> HIDE DEF T
  <2> QED
    BY <2>1, MovedIs
<1>2. e \in ChildrenIn(T, Root) <=>
        \E n \in T : n.path # Root /\ Parent(n.path) = Root /\ e = Entry(LastName(n.path), n.type, n.size)
  BY DEF ChildrenIn
<1>3. ASSUME NEW k \in K, NEW m \in part[k], m.path = Root, e = Entry(name[k], m.type, m.size)
      PROVE  e \in ChildrenIn(T, Root)
  <2>1. Parent(Moved(name[k], m).path) = Root /\ LastName(Moved(name[k], m).path) = name[k]
    BY <1>1, <1>3, ParentBelow
  <2> HIDE DEF T
  <2> QED
    BY <1>1, <1>2, <1>3, <2>1
<1>4. ASSUME NEW n \in T, n.path # Root, Parent(n.path) = Root, e = Entry(LastName(n.path), n.type, n.size)
      PROVE  \E k \in K : \E m \in part[k] : m.path = Root /\ e = Entry(name[k], m.type, m.size)
  <2>1. PICK k \in K : \E m \in part[k] : n = Moved(name[k], m)
    BY <1>4, AssembledHas, RootNodeIs
  <2>2. PICK m \in part[k] : n = Moved(name[k], m)
    BY <2>1
  <2>3. m.path = Root
    <3>1. SUFFICES ASSUME m.path # Root PROVE FALSE
      OBVIOUS
    <3>2. Parent(n.path) = Below(name[k], Parent(m.path)) /\ Parent(m.path) \in Paths
      BY <1>1, <2>2, <3>1, ParentBelow, ParentLast
    <3> QED
      BY <1>1, <1>4, <3>2, BelowIs
  <2>4. LastName(n.path) = name[k] /\ n.type = m.type /\ n.size = m.size
    BY <1>1, <2>2, <2>3, ParentBelow
  <2> QED
    BY <1>4, <2>3, <2>4
<1> HIDE DEF T
<1>5. e \in ChildrenIn(T, Root) <=>
        \E k \in K : \E n \in part[k] : n.path = Root /\ e = Entry(name[k], n.type, n.size)
  BY <1>2, <1>3, <1>4
<1> QED
  BY <1>5 DEF T

-----------------------------------------------------------------------------
(* Windows of a listing.                                                   *)

\* What read() delivers: everything, the one entry at an offset, nothing at the end.
LEMMA WindowIs ==
  ASSUME NEW S, NEW s \in Seq(S)
  PROVE  /\ \A max \in Nat : max >= Len(s) => Window(s, max, 0) = s
         /\ \A k \in 0 .. Len(s) - 1 : Window(s, 1, k) = <<s[k + 1]>>
         /\ Window(s, 1, Len(s)) = <<>>
<1>0. Len(s) \in Nat /\ \A i \in 1 .. Len(s) : s[i] \in S
  OBVIOUS
<1>1. ASSUME NEW max \in Nat, max >= Len(s) PROVE Window(s, max, 0) = s
  <2>1. Window(s, max, 0) = SubSeq(s, 1, Len(s))
    BY <1>0, <1>1 DEF Window
  <2> QED
    BY <2>1, SubSeqFull
<1>2. ASSUME NEW k \in 0 .. Len(s) - 1 PROVE Window(s, 1, k) = <<s[k + 1]>>
  <2>1. Window(s, 1, k) = SubSeq(s, k + 1, k + 1)
    BY <1>0 DEF Window
  <2>2. k + 1 \in 1 .. Len(s)
    BY <1>0
  <2> DEFINE m == k + 1
  <2> HIDE DEF m
  <2>3. m \in Int /\ \A i \in m .. m : s[i] \in S
    BY <1>0, <2>2 DEF m
  <2>4. /\ SubSeq(s, m, m) \in Seq(S) /\ Len(SubSeq(s, m, m)) = 1
        /\ \A i \in 1 .. 1 : SubSeq(s, m, m)[i] = s[m + i - 1]
    BY <2>3, SubSeqProperties
  <2>5. s[m] \in S /\ <<s[m]>> \in Seq(S) /\ Len(<<s[m]>>) = 1 /\ <<s[m]>>[1] = s[m]
    BY <1>0, <2>2 DEF m
  <2>6. SubSeq(s, m, m)[1] = s[m]
    BY <2>3, <2>4
  <2>7. SubSeq(s, m, m) = <<s[m]>>
    <3> DEFINE t == SubSeq(s, m, m)
               u == <<s[m]>>
    <3>1. t \in Seq(S) /\ u \in Seq(S) /\ Len(t) = 1 /\ Len(u) = 1 /\ t[1] = u[1]
      BY <2>4, <2>5, <2>6
    <3> HIDE DEF t, u
    <3>2. Len(t) = Len(u) /\ \A i \in 1 .. Len(t) : t[i] = u[i]
      BY <3>1
    <3>3. t = u
      BY <3>1, <3>2, SeqEqual
    <3> QED
      BY <3>3 DEF t, u
  <2> QED
    BY <2>1, <2>7 DEF m
<1>3. Window(s, 1, Len(s)) = <<>>
  <2>1. Window(s, 1, Len(s)) = SubSeq(s, Len(s) + 1, Len(s))
    BY <1>0 DEF Window
  <2> QED
    BY <1>0, <2>1, SubSeqEmpty
<1> QED
  BY <1>1, <1>2, <1>3

\* The iterator delivers what the reads of one entry deliver.
ReadsOneByOne(dir, L) ==
  /\ GetCount(dir) = Len(L)
  /\ \A k \in 0 .. Len(L) - 1 : ReadEntries(dir, 1, k) = <<L[k + 1]>>
  /\ ReadEntries(dir, 1, Len(L)) = <<>>

LEMMA IteratedIs ==
  ASSUME NEW dir, NEW S, NEW L \in Seq(S), ReadsOneByOne(dir, L)
  PROVE  Iterated(dir) = L
<1> DEFINE n == Len(L)
           Yields(k) == Len(ReadEntries(dir, 1, k)) = 1
           IsEnd(m) == ~ Yields(m) /\ \A k \in 0 .. m - 1 : Yields(k)
           end == CHOOSE m \in 0 .. GetCount(dir) : IsEnd(m)
<1>1. n \in Nat /\ GetCount(dir) = n /\ L = [k \in 1 .. n |-> L[k]]
  BY DEF ReadsOneByOne
<1>2. ASSUME NEW k \in 0 .. n - 1 PROVE Yields(k)
  <2>1. ReadEntries(dir, 1, k) = <<L[k + 1]>>
    BY DEF ReadsOneByOne
  <2>2. \A e : Len(<<e>>) = 1
    OBVIOUS
  <2> QED
    BY <2>1, <2>2
<1>3. ~ Yields(n)
  <2>1. ReadEntries(dir, 1, n) = <<>>
    BY DEF ReadsOneByOne
  <2>2. Len(<<>>) = 0
    BY EmptySeq, Zenon
  <2>3. Len(ReadEntries(dir, 1, n)) = 0
    BY <2>1, <2>2, Zenon
  <2> QED
    BY <2>3
<1>4. Iterated(dir) = [k \in 1 .. end |-> ReadEntries(dir, 1, k - 1)[1]]
  BY DEF Iterated
<1>5. end = n
  <2> HIDE DEF n, Yields
  <2>1. n \in 0 .. GetCount(dir) /\ IsEnd(n)
    BY <1>1, <1>2, <1>3
  <2>2. \A m \in 0 .. GetCount(dir) : IsEnd(m) => m = n
    <3>1. SUFFICES ASSUME NEW m \in 0 .. GetCount(dir), IsEnd(m), m # n PROVE FALSE
      OBVIOUS
    <3>2. m \in 0 .. n - 1
      BY <1>1, <3>1
    <3> QED
      BY <1>2, <3>1, <3>2
  <2> HIDE DEF IsEnd
  <2>3. end \in 0 .. GetCount(dir) /\ IsEnd(end)
    BY <2>1
  <2> QED
    BY <2>2, <2>3
<1>6. \A k \in 1 .. n : ReadEntries(dir, 1, k - 1)[1] = L[k]
  <2>1. SUFFICES ASSUME NEW k \in 1 .. n PROVE ReadEntries(dir, 1, k - 1)[1] = L[k]
    OBVIOUS
  <2>2. k - 1 \in 0 .. n - 1 /\ k - 1 + 1 = k
    BY <1>1
  <2>3. ReadEntries(dir, 1, k - 1) = <<L[k]>>
    BY <2>2 DEF ReadsOneByOne
  <2> QED
    BY <2>3
<1> HIDE DEF end, n
<1> QED
  BY <1>1, <1>4, <1>5, <1>6

-----------------------------------------------------------------------------
(* Listings.                                                               *)

Listed == [name : Names, type : {"directory", "file"}, size : Nat]

\* A directory that lists C, however it is read.
Lists(dir, C) ==
  LET L == ReadEntries(dir, GetCount(dir), 0)
  IN /\ L \in Seq(Listed)
     /\ \A j, k \in DOMAIN L : L[j].name = L[k].name => j = k
     /\ {Shown(L)[k] : k \in DOMAIN L} = C
     /\ (IF dir.fs.kind = "romfs" THEN RomChildren(dir.fs, dir.path) ELSE Iterated(dir)) = L

\* What a front end shows of an entry.
ShownEntry(e) == IF e.type = "directory" THEN Entry(e.name, "directory", 0) ELSE e

LEMMA ShownIs ==
  ASSUME NEW L \in Seq(Listed)
  PROVE  /\ Shown(L) \in Seq(Listed) /\ DOMAIN Shown(L) = DOMAIN L /\ Len(Shown(L)) = Len(L)
         /\ \A k \in DOMAIN L : /\ Shown(L)[k] = ShownEntry(L[k])
                                /\ Shown(L)[k].name = L[k].name
<1>1. Len(L) \in Nat /\ DOMAIN L = 1 .. Len(L) /\ \A k \in DOMAIN L : L[k] \in Listed
  OBVIOUS
<1>2. DOMAIN Shown(L) = DOMAIN L
  BY DEF Shown
<1>3. ASSUME NEW k \in DOMAIN L
      PROVE  Shown(L)[k] = ShownEntry(L[k]) /\ Shown(L)[k].name = L[k].name
             /\ Shown(L)[k] \in Listed
  <2>1. L[k] \in Listed
    BY <1>1
  <2>2. Shown(L)[k] = IF L[k].type = "directory" THEN [L[k] EXCEPT !.size = 0] ELSE L[k]
    BY DEF Shown
  <2>3. [L[k] EXCEPT !.size = 0] = [name |-> L[k].name, type |-> L[k].type, size |-> 0]
    BY <2>1 DEF Listed
  <2>4. CASE L[k].type = "directory"
    BY <2>1, <2>2, <2>3, <2>4 DEF ShownEntry, Entry, Listed
  <2>5. CASE L[k].type # "directory"
    BY <2>1, <2>2, <2>5 DEF ShownEntry
  <2> QED
    BY <2>4, <2>5
<1>4. Shown(L) = [k \in 1 .. Len(L) |-> Shown(L)[k]]
  BY <1>1 DEF Shown
<1>5. Shown(L) \in Seq(Listed)
  <2> DEFINE t == Shown(L)
  <2>1. \A k \in 1 .. Len(L) : t[k] \in Listed
    BY <1>1, <1>3
  <2> HIDE DEF t
  <2>2. t \in Seq(Listed)
    BY <1>1, <1>4, <2>1 DEF t
  <2> QED
    BY <2>2 DEF t
<1>6. Len(Shown(L)) = Len(L)
  BY <1>1, <1>2, <1>5
<1> QED
  BY <1>2, <1>3, <1>5, <1>6

\* A listing that is made from the entries of a sequence, one for each.
LEMMA MadeIs ==
  ASSUME NEW S, NEW s \in Seq(S), NEW E, NEW L,
         L = [k \in DOMAIN s |-> E[k]], \A k \in DOMAIN s : E[k] \in Listed
  PROVE  L \in Seq(Listed) /\ Len(L) = Len(s) /\ DOMAIN L = DOMAIN s
<1>1. Len(s) \in Nat /\ DOMAIN s = 1 .. Len(s)
  OBVIOUS
<1>2. L = [k \in 1 .. Len(s) |-> E[k]] /\ \A k \in 1 .. Len(s) : E[k] \in Listed
  BY <1>1
<1>3. L \in Seq(Listed)
  BY <1>1, <1>2
<1>4. DOMAIN L = 1 .. Len(s)
  BY <1>2
<1> QED
  BY <1>1, <1>3, <1>4

LEMMA OneMade ==
  ASSUME NEW c, NEW f, f = [i \in DOMAIN <<c>> |-> f[i]]
  PROVE  f = <<f[1]>>
<1>1. DOMAIN <<c>> = {1}
  OBVIOUS
<1>2. f = [i \in {1} |-> f[1]]
  BY <1>1
<1> QED
  BY <1>2

\* What makes a listing.
LEMMA ListsIf ==
  ASSUME NEW dir, NEW C, NEW L \in Seq(Listed), ReadEntries(dir, GetCount(dir), 0) = L,
         \A j, k \in DOMAIN L : L[j].name = L[k].name => j = k,
         {ShownEntry(L[k]) : k \in DOMAIN L} = C,
         \/ dir.fs.kind = "romfs" /\ RomChildren(dir.fs, dir.path) = L
         \/ dir.fs.kind # "romfs" /\ ReadsOneByOne(dir, L)
  PROVE  Lists(dir, C)
<1>1. {Shown(L)[k] : k \in DOMAIN L} = C
  BY ShownIs
<1>2. (IF dir.fs.kind = "romfs" THEN RomChildren(dir.fs, dir.path) ELSE Iterated(dir)) = L
  BY IteratedIs
<1> QED
  BY <1>1, <1>2 DEF Lists

LEMMA DirectoryFields ==
  ASSUME NEW fs, NEW p
  PROVE  DirectoryOf(fs, p).fs = fs /\ DirectoryOf(fs, p).path = p /\ DirectoryOf(fs, p).res = "SUCCESS"
BY DEF DirectoryOf

-----------------------------------------------------------------------------
PartitionEntry(e) == Entry(e.name, IF e.fs # NoFs THEN "directory" ELSE "file", e.size)

LEMMA NamedIs ==
  ASSUME NEW fs, AreEntries(fs.entries)
  PROVE  /\ Named(fs) \in Seq({fs.entries[i] : i \in HasName(fs.entries)})
         /\ {Named(fs)[k] : k \in DOMAIN Named(fs)} = {fs.entries[i] : i \in HasName(fs.entries)}
         /\ \A j, k \in DOMAIN Named(fs) : Named(fs)[j].name = Named(fs)[k].name => j = k
<1> DEFINE n == Len(fs.entries)
           P == HasName(fs.entries)
           at == InOrder(n, P)
           S == {fs.entries[i] : i \in P}
<1>1. n \in Nat /\ DOMAIN fs.entries = 1 .. n /\ Distinct(fs.entries)
  BY EntriesDomain
<1>2. P \in SUBSET (1 .. n)
  BY <1>1 DEF HasName
<1>3. Picks(at, P)
  <2> HIDE DEF P, n
  <2> QED
    BY <1>1, <1>2, InOrderPicks
<1>4. Named(fs) = [k \in DOMAIN at |-> fs.entries[at[k]]]
  BY DEF Named, HasName
<1>5. /\ at \in Seq(P) /\ Len(at) \in Nat /\ DOMAIN at = 1 .. Len(at)
      /\ \A k \in DOMAIN at : at[k] \in P
  <2> HIDE DEF P, at
  <2> QED
    BY <1>3, SeqDomain DEF Picks
<1>6. \A i, j \in P : fs.entries[i].name = fs.entries[j].name => i = j
  BY <1>1 DEF Distinct, HasName
<1> HIDE DEF n, P, at
<1>7. Named(fs) = [k \in 1 .. Len(at) |-> Named(fs)[k]] /\ DOMAIN Named(fs) = DOMAIN at
      /\ \A k \in DOMAIN at : Named(fs)[k] = fs.entries[at[k]]
  BY <1>4, <1>5
<1>8. \A k \in 1 .. Len(at) : Named(fs)[k] \in S
  BY <1>5, <1>7
<1>9. Named(fs) \in Seq(S)
  <2> HIDE DEF S
  <2> QED
    BY <1>5, <1>7, <1>8
<1>10. {Named(fs)[k] : k \in DOMAIN Named(fs)} = S
  <2>1. {at[k] : k \in DOMAIN at} = P
    BY <1>3 DEF Picks
  <2>2. \A i \in P : \E k \in DOMAIN at : at[k] = i
    BY <2>1
  <2> QED
    BY <1>5, <1>7, <2>2
<1>11. \A j, k \in DOMAIN Named(fs) : Named(fs)[j].name = Named(fs)[k].name => j = k
  <2>1. \A j, k \in DOMAIN at : at[j] = at[k] => j = k
    BY <1>3 DEF Picks
  <2> QED
    BY <1>5, <1>6, <1>7, <2>1
<1> QED
  BY <1>9, <1>10, <1>11 DEF S, P

PartitionEntries(some) == [i \in DOMAIN some |-> PartitionEntry(some[i])]

LEMMA PartitionReads ==
  ASSUME NEW fs, fs.kind = "partition"
  PROVE  /\ GetCount(DirectoryOf(fs, Root)) = Len(Named(fs))
         /\ \A max, offset : ReadEntries(DirectoryOf(fs, Root), max, offset) =
                              PartitionEntries(Window(Named(fs), max, offset))
<1>1. GetCount(DirectoryOf(fs, Root)) = Len(Named(fs))
  BY DirectoryFields DEF GetCount
<1>2. ASSUME NEW max, NEW offset
      PROVE  ReadEntries(DirectoryOf(fs, Root), max, offset) =
               PartitionEntries(Window(Named(fs), max, offset))
  <2>1. ReadEntries(DirectoryOf(fs, Root), max, offset) = PartitionRead(fs, max, offset)
    BY DirectoryFields DEF ReadEntries
  <2>2. PartitionRead(fs, max, offset) = PartitionEntries(Window(Named(fs), max, offset))
    BY Zenon DEF PartitionRead, PartitionEntries, PartitionEntry
  <2> QED
    BY <2>1, <2>2
<1> QED
  BY <1>1, <1>2

LEMMA PartitionLists ==
  ASSUME NEW fs, fs.kind = "partition", AreEntries(fs.entries),
         \A i \in DOMAIN fs.entries :
           fs.entries[i].name \in Names \cup {NoName} /\ fs.entries[i].size \in Nat
  PROVE  Lists(DirectoryOf(fs, Root),
               {ShownEntry(PartitionEntry(fs.entries[i])) : i \in HasName(fs.entries)})
<1> DEFINE S == {fs.entries[i] : i \in HasName(fs.entries)}
           s == Named(fs)
           L == [k \in DOMAIN s |-> PartitionEntry(s[k])]
           dir == DirectoryOf(fs, Root)
           C == {ShownEntry(PartitionEntry(fs.entries[i])) : i \in HasName(fs.entries)}
<1>1. /\ s \in Seq(S) /\ {s[k] : k \in DOMAIN s} = S
      /\ \A j, k \in DOMAIN s : s[j].name = s[k].name => j = k
  BY NamedIs
<1>2. \A e \in S : e.name \in Names /\ PartitionEntry(e) \in Listed /\ PartitionEntry(e).name = e.name
  BY DEF PartitionEntry, Listed, Entry, HasName
<1>3. Len(s) \in Nat /\ DOMAIN s = 1 .. Len(s) /\ \A k \in DOMAIN s : s[k] \in S
  <2> HIDE DEF S, s
  <2> QED
    BY <1>1
<1>4. L \in Seq(Listed) /\ Len(L) = Len(s) /\ DOMAIN L = DOMAIN s
  <2>1. \A k \in DOMAIN s : L[k] \in Listed
    <3> HIDE DEF S, s
    <3> QED
      BY <1>2, <1>3
  <2>2. L = [k \in DOMAIN s |-> L[k]]
    OBVIOUS
  <2> HIDE DEF S, s, L
  <2> QED
    BY <1>1, <2>1, <2>2, MadeIs
<1>5. /\ GetCount(dir) = Len(s)
      /\ \A max, offset : ReadEntries(dir, max, offset) = PartitionEntries(Window(s, max, offset))
  BY PartitionReads
<1>6. ReadEntries(dir, GetCount(dir), 0) = L
  <2>1. Window(s, Len(s), 0) = s
    <3> HIDE DEF S, s
    <3> QED
      BY <1>1, <1>3, WindowIs
  <2>2. ReadEntries(dir, GetCount(dir), 0) = PartitionEntries(s)
    <3> HIDE DEF S, s, dir
    <3> QED
      BY <1>5, <2>1
  <2> QED
    BY <2>2 DEF PartitionEntries
<1>7. ReadsOneByOne(dir, L)
  <2>1. ASSUME NEW k \in 0 .. Len(L) - 1 PROVE ReadEntries(dir, 1, k) = <<L[k + 1]>>
    <3>1. Window(s, 1, k) = <<s[k + 1]>>
      <4> HIDE DEF S, s
      <4> QED
        BY <1>1, <1>4, WindowIs
    <3> DEFINE f == [i \in DOMAIN <<s[k + 1]>> |-> PartitionEntry(<<s[k + 1]>>[i])]
    <3>2. ReadEntries(dir, 1, k) = f
      <4>1. ReadEntries(dir, 1, k) = PartitionEntries(<<s[k + 1]>>)
        <5> HIDE DEF s, dir, f
        <5> QED
          BY <1>5, <3>1
      <4> QED
        BY <4>1, Zenon DEF PartitionEntries
    <3>3. f = [i \in DOMAIN <<s[k + 1]>> |-> f[i]] /\ f[1] = PartitionEntry(s[k + 1])
      OBVIOUS
    <3>4. L[k + 1] = PartitionEntry(s[k + 1])
      <4>1. k + 1 \in DOMAIN s
        BY <1>3, <1>4
      <4> QED
        BY <4>1
    <3> HIDE DEF f, L, s
    <3>5. f = <<f[1]>>
      BY <3>3, OneMade
    <3> QED
      BY <3>2, <3>3, <3>4, <3>5, Zenon
  <2>2. ReadEntries(dir, 1, Len(L)) = <<>>
    <3>1. Window(s, 1, Len(s)) = <<>>
      <4> HIDE DEF S, s
      <4> QED
        BY <1>1, WindowIs
    <3>2. ReadEntries(dir, 1, Len(L)) = PartitionEntries(<<>>)
      <4> HIDE DEF s, dir, L
      <4> QED
        BY <1>4, <1>5, <3>1
    <3> QED
      BY <3>2 DEF PartitionEntries
  <2> HIDE DEF L, dir
  <2> QED
    BY <1>4, <1>5, <2>1, <2>2 DEF ReadsOneByOne
<1>8. \A j, k \in DOMAIN L : L[j].name = L[k].name => j = k
  <2> HIDE DEF S, s
  <2>1. \A k \in DOMAIN s : L[k].name = s[k].name
    BY <1>2, <1>3
  <2> HIDE DEF L
  <2> QED
    BY <1>1, <1>4, <2>1
<1>9. {ShownEntry(L[k]) : k \in DOMAIN L} = C
  <2>1. C = {ShownEntry(PartitionEntry(e)) : e \in S}
    OBVIOUS
  <2>2. {ShownEntry(L[k]) : k \in DOMAIN L} = {ShownEntry(PartitionEntry(s[k])) : k \in DOMAIN s}
    BY <1>4
  <2>3. (\A k \in DOMAIN s : s[k] \in S) /\ \A e \in S : \E k \in DOMAIN s : e = s[k]
    <3> HIDE DEF S, s
    <3> QED
      BY <1>1
  <2> HIDE DEF C, S, s, L
  <2> QED
    BY <2>1, <2>2, <2>3
<1>10. dir.fs.kind # "romfs"
  BY DirectoryFields
<1> HIDE DEF L, dir, C
<1>11. Lists(dir, C)
  BY <1>4, <1>6, <1>7, <1>8, <1>9, <1>10, ListsIf
<1> QED
  BY <1>11 DEF dir, C

-----------------------------------------------------------------------------
(* Listings of each class.                                                 *)

\* The contents of a title, and the sections of an NCA, are directories.
DirectoryEntries(some) == [i \in DOMAIN some |-> Entry(some[i].name, "directory", 0)]

\* What is made of one directory after the other.
LEMMA DirectoriesMade ==
  ASSUME NEW S, NEW s \in Seq(S), \A e \in S : e.name \in Names
  PROVE  LET L == DirectoryEntries(s)
         IN /\ L \in Seq(Listed) /\ Len(L) = Len(s) /\ DOMAIN L = DOMAIN s
            /\ \A k \in DOMAIN s : L[k] = Entry(s[k].name, "directory", 0) /\ L[k] \in Listed
            /\ \A max \in Nat : max >= Len(s) => DirectoryEntries(Window(s, max, 0)) = L
            /\ \A k \in 0 .. Len(s) - 1 : DirectoryEntries(Window(s, 1, k)) = <<L[k + 1]>>
            /\ DirectoryEntries(Window(s, 1, Len(s))) = <<>>
<1> DEFINE L == DirectoryEntries(s)
<1>1. Len(s) \in Nat /\ DOMAIN s = 1 .. Len(s) /\ \A k \in DOMAIN s : s[k] \in S
  OBVIOUS
<1>2. L = [k \in DOMAIN s |-> L[k]] /\ \A k \in DOMAIN s : L[k] = Entry(s[k].name, "directory", 0)
  BY DEF DirectoryEntries
<1>3. \A k \in DOMAIN s : L[k] \in Listed
  BY <1>1, <1>2 DEF Entry, Listed
<1> HIDE DEF L
<1>4. L \in Seq(Listed) /\ Len(L) = Len(s) /\ DOMAIN L = DOMAIN s
  BY <1>2, <1>3, MadeIs
<1>5. \A max \in Nat : max >= Len(s) => DirectoryEntries(Window(s, max, 0)) = L
  BY WindowIs DEF L
<1>6. ASSUME NEW k \in 0 .. Len(s) - 1 PROVE DirectoryEntries(Window(s, 1, k)) = <<L[k + 1]>>
  <2>1. Window(s, 1, k) = <<s[k + 1]>>
    BY WindowIs
  <2> DEFINE c == s[k + 1]
             f == [i \in DOMAIN <<c>> |-> Entry(<<c>>[i].name, "directory", 0)]
  <2>2. DirectoryEntries(Window(s, 1, k)) = f
    <3>1. DirectoryEntries(Window(s, 1, k)) = DirectoryEntries(<<c>>)
      BY <2>1
    <3> QED
      BY <3>1, Zenon DEF DirectoryEntries
  <2>3. f = [i \in DOMAIN <<c>> |-> f[i]] /\ f[1] = Entry(c.name, "directory", 0)
    OBVIOUS
  <2>4. L[k + 1] = Entry(c.name, "directory", 0)
    <3>1. k + 1 \in DOMAIN s
      BY <1>1
    <3> QED
      BY <1>2, <3>1
  <2> HIDE DEF f, c
  <2>5. f = <<f[1]>>
    BY <2>3, OneMade
  <2> QED
    BY <2>2, <2>3, <2>4, <2>5, Zenon
<1>7. DirectoryEntries(Window(s, 1, Len(s))) = <<>>
  <2>1. DirectoryEntries(Window(s, 1, Len(s))) = DirectoryEntries(<<>>)
    BY WindowIs
  <2> QED
    BY <2>1 DEF DirectoryEntries
<1> QED
  BY <1>2, <1>3, <1>4, <1>5, <1>6, <1>7 DEF L

LEMMA WrapperReads ==
  ASSUME NEW fs, fs.kind = "wrapper"
  PROVE  /\ GetCount(DirectoryOf(fs, Root)) = Len(fs.entries)
         /\ \A max, offset : ReadEntries(DirectoryOf(fs, Root), max, offset) =
                              DirectoryEntries(Window(fs.entries, max, offset))
<1>1. GetCount(DirectoryOf(fs, Root)) = Len(fs.entries)
  BY DirectoryFields DEF GetCount
<1>2. ASSUME NEW max, NEW offset
      PROVE  ReadEntries(DirectoryOf(fs, Root), max, offset) =
               DirectoryEntries(Window(fs.entries, max, offset))
  <2>1. ReadEntries(DirectoryOf(fs, Root), max, offset) = WrapperRead(fs, max, offset)
    BY DirectoryFields DEF ReadEntries
  <2>2. WrapperRead(fs, max, offset) = DirectoryEntries(Window(fs.entries, max, offset))
    BY Zenon DEF WrapperRead, DirectoryEntries
  <2> QED
    BY <2>1, <2>2
<1> QED
  BY <1>1, <1>2

LEMMA WrapperLists ==
  ASSUME NEW fs, IsWrapper(fs)
  PROVE  Lists(DirectoryOf(fs, Root),
               {Entry(fs.entries[i].name, "directory", 0) : i \in DOMAIN fs.entries})
<1> DEFINE s == fs.entries
           S == {s[i] : i \in DOMAIN s}
           L == DirectoryEntries(s)
           dir == DirectoryOf(fs, Root)
           C == {Entry(s[i].name, "directory", 0) : i \in DOMAIN s}
<1>0. fs.kind = "wrapper" /\ AreEntries(s) /\ \A i \in DOMAIN s : s[i].name \in Names
  BY DEF IsWrapper
<1>1. s \in Seq(S) /\ Len(s) \in Nat /\ Distinct(s)
  BY <1>0, EntriesDomain DEF AreEntries
<1>2. \A e \in S : e.name \in Names
  BY <1>0
<1>3. /\ GetCount(dir) = Len(s)
      /\ \A max, offset : ReadEntries(dir, max, offset) = DirectoryEntries(Window(s, max, offset))
  BY <1>0, WrapperReads
<1>4. /\ L \in Seq(Listed) /\ Len(L) = Len(s) /\ DOMAIN L = DOMAIN s
      /\ \A k \in DOMAIN s : L[k] = Entry(s[k].name, "directory", 0)
      /\ \A max \in Nat : max >= Len(s) => DirectoryEntries(Window(s, max, 0)) = L
      /\ \A k \in 0 .. Len(s) - 1 : DirectoryEntries(Window(s, 1, k)) = <<L[k + 1]>>
      /\ DirectoryEntries(Window(s, 1, Len(s))) = <<>>
  <2> HIDE DEF S, s
  <2> QED
    BY <1>1, <1>2, DirectoriesMade
<1>5. \A k \in DOMAIN s : L[k].name = s[k].name /\ ShownEntry(L[k]) = L[k]
  <2>1. \A k \in DOMAIN s : L[k] = Entry(s[k].name, "directory", 0)
    BY <1>4
  <2>2. \A name : ShownEntry(Entry(name, "directory", 0)) = Entry(name, "directory", 0)
                   /\ Entry(name, "directory", 0).name = name
    BY DEF Entry, ShownEntry
  <2> HIDE DEF L, s
  <2> QED
    BY <2>1, <2>2
<1>6. \A j, k \in DOMAIN s : s[j].name = s[k].name => j = k
  <2>1. NoName \notin Names
    BY FrontEndAssumption DEF FrontEndAssumption
  <2> HIDE DEF s
  <2> QED
    BY <1>0, <1>1, <2>1 DEF Distinct
<1>7. dir.fs.kind # "romfs"
  BY <1>0, DirectoryFields
<1>8. {ShownEntry(L[k]) : k \in DOMAIN L} = C
  <2> HIDE DEF s, L
  <2> QED
    BY <1>4, <1>5
<1> HIDE DEF s, S, L, dir, C
<1>9. ReadsOneByOne(dir, L)
  BY <1>3, <1>4 DEF ReadsOneByOne
<1>10. ReadEntries(dir, GetCount(dir), 0) = L
  BY <1>1, <1>3, <1>4
<1>11. Lists(dir, C)
  BY <1>4, <1>5, <1>6, <1>7, <1>8, <1>9, <1>10, ListsIf
<1> QED
  BY <1>11 DEF dir, C, s

\* The directory of an NCA: the file comes behind the sections.
RawEntry(nca) == Entry(nca.name, "file", nca.size)

LEMMA NcaReads ==
  ASSUME NEW fs, fs.kind = "nca"
  PROVE  /\ GetCount(DirectoryOf(fs, Root)) = Len(Sections(fs)) + 1
         /\ \A max, offset : ReadEntries(DirectoryOf(fs, Root), max, offset) =
              LET some == DirectoryEntries(Window(Sections(fs), max, offset))
              IN IF offset >= Len(Sections(fs)) + 1 THEN <<>>
                 ELSE IF Len(some) < max THEN Append(some, RawEntry(fs)) ELSE some
<1>1. GetCount(DirectoryOf(fs, Root)) = Len(Sections(fs)) + 1
  BY DirectoryFields DEF GetCount
<1>2. ASSUME NEW max, NEW offset
      PROVE  ReadEntries(DirectoryOf(fs, Root), max, offset) =
              LET some == DirectoryEntries(Window(Sections(fs), max, offset))
              IN IF offset >= Len(Sections(fs)) + 1 THEN <<>>
                 ELSE IF Len(some) < max THEN Append(some, RawEntry(fs)) ELSE some
  <2>1. ReadEntries(DirectoryOf(fs, Root), max, offset) = NcaRead(fs, max, offset)
    BY DirectoryFields DEF ReadEntries
  <2>2. NcaRead(fs, max, offset) =
              LET some == DirectoryEntries(Window(Sections(fs), max, offset))
              IN IF offset >= Len(Sections(fs)) + 1 THEN <<>>
                 ELSE IF Len(some) < max THEN Append(some, RawEntry(fs)) ELSE some
    BY Zenon DEF NcaRead, DirectoryEntries, RawEntry
  <2> QED
    BY <2>1, <2>2
<1> QED
  BY <1>1, <1>2

LEMMA NcaLists ==
  ASSUME NEW fs, IsNca(fs)
  PROVE  Lists(DirectoryOf(fs, Root),
               {Entry(Sections(fs)[i].name, "directory", 0) : i \in DOMAIN Sections(fs)}
               \cup {RawEntry(fs)})
<1> DEFINE s == Sections(fs)
           S == {s[i] : i \in DOMAIN s}
           M == DirectoryEntries(s)
           L == Append(M, RawEntry(fs))
           dir == DirectoryOf(fs, Root)
           C == {Entry(s[i].name, "directory", 0) : i \in DOMAIN s} \cup {RawEntry(fs)}
           n == Len(s)
<1>0. fs.kind = "nca" /\ fs.name \in Names /\ fs.size \in Nat
  BY DEF IsNca
<1>1. /\ n \in Nat /\ DOMAIN s = 1 .. n
      /\ \A k \in DOMAIN s : s[k].name \in Names /\ s[k].name # fs.name
      /\ \A j, k \in DOMAIN s : s[j].name = s[k].name => j = k
  BY SectionsAre
<1>2. s \in Seq(S) /\ \A e \in S : e.name \in Names
  <2>1. s = [k \in 1 .. n |-> s[k]]
    <3>1. s = [k \in DOMAIN s |-> s[k]]
      BY DEF Sections
    <3> HIDE DEF s, n
    <3> QED
      BY <1>1, <3>1
  <2> HIDE DEF s
  <2> QED
    BY <1>1, <2>1
<1>3. /\ GetCount(dir) = n + 1
      /\ \A max, offset : ReadEntries(dir, max, offset) =
           LET some == DirectoryEntries(Window(s, max, offset))
           IN IF offset >= n + 1 THEN <<>>
              ELSE IF Len(some) < max THEN Append(some, RawEntry(fs)) ELSE some
  BY <1>0, NcaReads, Zenon
<1>4. /\ M \in Seq(Listed) /\ Len(M) = n /\ DOMAIN M = DOMAIN s
      /\ \A k \in DOMAIN s : M[k] = Entry(s[k].name, "directory", 0)
      /\ \A max \in Nat : max >= n => DirectoryEntries(Window(s, max, 0)) = M
      /\ \A k \in 0 .. n - 1 : DirectoryEntries(Window(s, 1, k)) = <<M[k + 1]>>
      /\ DirectoryEntries(Window(s, 1, n)) = <<>>
  <2> HIDE DEF S, s
  <2> QED
    BY <1>2, DirectoriesMade
<1>5. RawEntry(fs) \in Listed /\ RawEntry(fs).name = fs.name /\ ShownEntry(RawEntry(fs)) = RawEntry(fs)
  BY <1>0 DEF RawEntry, Entry, Listed, ShownEntry
<1>6. /\ L \in Seq(Listed) /\ Len(L) = n + 1 /\ DOMAIN L = DOMAIN s \cup {n + 1} /\ n + 1 \notin DOMAIN s
      /\ L[n + 1] = RawEntry(fs) /\ \A k \in DOMAIN s : L[k] = M[k]
  <2> HIDE DEF M, s, n
  <2>1. /\ L \in Seq(Listed) /\ Len(L) = Len(M) + 1 /\ L[Len(M) + 1] = RawEntry(fs)
        /\ \A k \in 1 .. Len(M) : L[k] = M[k]
    BY <1>4, <1>5, AppendProperties
  <2>2. DOMAIN L = 1 .. n + 1
    <3> HIDE DEF L
    <3> QED
      BY <1>4, <2>1, SeqDomain
  <2> HIDE DEF L
  <2> QED
    BY <1>1, <1>4, <2>1, <2>2
<1>7. \A k \in DOMAIN s : L[k].name = s[k].name /\ ShownEntry(L[k]) = L[k]
                          /\ L[k] = Entry(s[k].name, "directory", 0)
  <2>1. \A k \in DOMAIN s : L[k] = Entry(s[k].name, "directory", 0)
    BY <1>4, <1>6
  <2> HIDE DEF L, s
  <2> QED
    BY <2>1 DEF Entry, ShownEntry
<1>8. {ShownEntry(L[k]) : k \in DOMAIN L} = C
  <2> HIDE DEF s, L, n
  <2> QED
    BY <1>5, <1>6, <1>7
<1>9. \A j, k \in DOMAIN L : L[j].name = L[k].name => j = k
  <2> HIDE DEF s, L, n
  <2> QED
    BY <1>1, <1>5, <1>6, <1>7
<1>10. dir.fs.kind # "romfs"
  BY <1>0, DirectoryFields
<1> HIDE DEF s, S, M, dir, C, n
<1>11. ReadEntries(dir, GetCount(dir), 0) = L
  <2>1. DirectoryEntries(Window(s, n + 1, 0)) = M
    BY <1>1, <1>4
  <2>2. ~ (0 >= n + 1) /\ Len(M) < n + 1
    BY <1>1, <1>4
  <2> QED
    BY <1>3, <2>1, <2>2
<1>12. ReadsOneByOne(dir, L)
  <2>1. ASSUME NEW k \in 0 .. Len(L) - 1 PROVE ReadEntries(dir, 1, k) = <<L[k + 1]>>
    <3>1. k \in Nat /\ k <= n /\ ~ (k >= n + 1)
      BY <1>1, <1>6
    <3>2. CASE k = n
      <4>1. DirectoryEntries(Window(s, 1, k)) = <<>>
        BY <1>4, <3>2
      <4>2. ReadEntries(dir, 1, k) = Append(<<>>, RawEntry(fs))
        <5>1. Len(<<>>) < 1
          BY EmptySeq
        <5> QED
          BY <1>3, <3>1, <4>1, <5>1, Zenon
      <4>3. Append(<<>>, RawEntry(fs)) = <<RawEntry(fs)>>
        OBVIOUS
      <4> QED
        BY <1>6, <3>2, <4>2, <4>3
    <3>3. CASE k # n
      <4>1. k \in 0 .. n - 1 /\ k + 1 \in DOMAIN s
        BY <1>1, <3>1, <3>3
      <4>2. DirectoryEntries(Window(s, 1, k)) = <<M[k + 1]>>
        BY <1>4, <4>1
      <4>3. ~ (Len(<<M[k + 1]>>) < 1)
        OBVIOUS
      <4>4. ReadEntries(dir, 1, k) = <<M[k + 1]>>
        BY <1>3, <3>1, <4>2, <4>3, Zenon
      <4> QED
        BY <1>6, <4>1, <4>4
    <3> QED
      BY <3>2, <3>3
  <2>2. ReadEntries(dir, 1, Len(L)) = <<>>
    <3>1. Len(L) >= n + 1
      BY <1>1, <1>6
    <3> QED
      BY <1>3, <3>1, Zenon
  <2>3. GetCount(dir) = Len(L)
    BY <1>3, <1>6
  <2> HIDE DEF L
  <2> QED
    BY <2>1, <2>2, <2>3 DEF ReadsOneByOne
<1>13. L \in Seq(Listed)
  BY <1>6
<1> HIDE DEF L
<1>14. Lists(dir, C)
  BY <1>8, <1>9, <1>10, <1>11, <1>12, <1>13, ListsIf
<1> QED
  BY <1>14 DEF dir, C, s

-----------------------------------------------------------------------------
(* What serves a tree.                                                     *)

\* What the four operations answer about a node at a path, and about a path where
\* there is none.
ServesNode(fs, p, type, size, C) ==
  /\ GetAttributes(fs, p) = [res |-> "SUCCESS", type |-> type, size |-> size]
  /\ type = "file" =>
       /\ OpenFile(fs, p, Read) = File(size)
       /\ \A mode : mode # Read => OpenFile(fs, p, mode).res # "SUCCESS"
  /\ type = "directory" =>
       /\ OpenDirectory(fs, p).res = "SUCCESS"
       /\ Lists(OpenDirectory(fs, p), C)
  /\ \A mode : Access(fs, p, mode) = "SUCCESS" <=>
                 mode = Read /\ OpenDirectory(fs, p).fs.kind # "wrapper"

\* A file system stands for a tree; it does so below one of its names.
Serves(fs, T) ==
  /\ \A n \in T : ServesNode(fs, n.path, n.type, n.size, ChildrenIn(T, n.path))
  /\ \A p \in Paths : (\A n \in T : n.path # p) => GetAttributes(fs, p) = NoFile

ServesBelow(fs, name, T) ==
  /\ \A n \in T : ServesNode(fs, Below(name, n.path), n.type, n.size, ChildrenIn(T, n.path))
  /\ \A p \in Paths : (\A n \in T : n.path # p) => GetAttributes(fs, Below(name, p)) = NoFile

SameAnswers(fs, p, child, q) ==
  \A op \in Operations : \A mode : Ask(op, fs, p, mode) = Ask(op, child, q, mode)

LEMMA SameServes ==
  ASSUME NEW fs, NEW p, NEW child, NEW q, SameAnswers(fs, p, child, q)
  PROVE  /\ GetAttributes(fs, p) = GetAttributes(child, q)
         /\ \A type, size, C : ServesNode(child, q, type, size, C) => ServesNode(fs, p, type, size, C)
<1>1. /\ \A mode : Ask("access", fs, p, mode) = Ask("access", child, q, mode)
      /\ \A mode : Ask("getAttributes", fs, p, mode) = Ask("getAttributes", child, q, mode)
      /\ \A mode : Ask("openFile", fs, p, mode) = Ask("openFile", child, q, mode)
      /\ \A mode : Ask("openDirectory", fs, p, mode) = Ask("openDirectory", child, q, mode)
  BY DEF SameAnswers, Operations
<1>2. /\ GetAttributes(fs, p) = GetAttributes(child, q)
      /\ OpenDirectory(fs, p) = OpenDirectory(child, q)
      /\ \A mode : OpenFile(fs, p, mode) = OpenFile(child, q, mode)
      /\ \A mode : Access(fs, p, mode) = Access(child, q, mode)
  BY <1>1 DEF GetAttributes, OpenDirectory, OpenFile, Access
<1>3. ASSUME NEW type, NEW size, NEW C, ServesNode(child, q, type, size, C)
      PROVE  ServesNode(fs, p, type, size, C)
  BY <1>2, <1>3 DEF ServesNode
<1> QED
  BY <1>2, <1>3

LEMMA SameServesBelow ==
  ASSUME NEW fs, NEW name, NEW child, NEW T, Serves(child, T), IsBranch(T),
         \A q \in Paths : SameAnswers(fs, Below(name, q), child, q)
  PROVE  ServesBelow(fs, name, T)
<1>1. ASSUME NEW n \in T
      PROVE  ServesNode(fs, Below(name, n.path), n.type, n.size, ChildrenIn(T, n.path))
  <2>1. n.path \in Paths
    BY DEF IsBranch, IsNode
  <2>2. ServesNode(child, n.path, n.type, n.size, ChildrenIn(T, n.path))
    BY DEF Serves
  <2> QED
    BY <2>1, <2>2, SameServes
<1>2. ASSUME NEW p \in Paths, \A n \in T : n.path # p
      PROVE  GetAttributes(fs, Below(name, p)) = NoFile
  <2>1. GetAttributes(child, p) = NoFile
    BY <1>2 DEF Serves
  <2> QED
    BY <2>1, SameServes
<1> QED
  BY <1>1, <1>2 DEF ServesBelow

\* What holds below every name, and of the root, holds of the whole.
LEMMA AssembledServes ==
  ASSUME NEW K, NEW name, NEW part, Parts(K, name, part), NEW fs,
         ServesNode(fs, Root, "directory", 0, ChildrenIn(Assembled(K, name, part), Root)),
         \A k \in K : ServesBelow(fs, name[k], part[k]),
         \A p \in Paths : p # Root /\ (\A k \in K : name[k] # First(p)) => GetAttributes(fs, p) = NoFile
  PROVE  Serves(fs, Assembled(K, name, part))
<1> DEFINE T == Assembled(K, name, part)
<1>1. ASSUME NEW n \in T
      PROVE  ServesNode(fs, n.path, n.type, n.size, ChildrenIn(T, n.path))
  <2>1. CASE n = RootNode
    BY <2>1, RootNodeIs
  <2>2. CASE n # RootNode
    <3>1. PICK k \in K : \E m \in part[k] : n = Moved(name[k], m)
      BY <2>2, AssembledHas
    <3>2. PICK m \in part[k] : n = Moved(name[k], m)
      BY <3>1
    <3>3. name[k] \in Names /\ IsNode(m)
      BY DEF Parts, IsBranch
    <3>4. n.path = Below(name[k], m.path) /\ n.type = m.type /\ n.size = m.size /\ m.path \in Paths
      BY <3>2, <3>3, MovedIs
    <3>5. ServesNode(fs, Below(name[k], m.path), m.type, m.size, ChildrenIn(part[k], m.path))
      BY DEF ServesBelow
    <3>6. ChildrenIn(T, Below(name[k], m.path)) = ChildrenIn(part[k], m.path)
      BY <3>4, ChildrenMoved
    <3> HIDE DEF T
    <3> QED
      BY <3>4, <3>5, <3>6
  <2> QED
    BY <2>1, <2>2
<1>2. ASSUME NEW p \in Paths, \A n \in T : n.path # p
      PROVE  GetAttributes(fs, p) = NoFile
  <2>1. p # Root
    BY <1>2, AssembledHas, RootNodeIs
  <2>2. CASE \A k \in K : name[k] # First(p)
    BY <2>1, <2>2
  <2>3. CASE \E k \in K : name[k] = First(p)
    <3>1. PICK k \in K : name[k] = First(p)
      BY <2>3
    <3>2. Rest(p) \in Paths /\ p = Below(name[k], Rest(p)) /\ name[k] \in Names
      BY <2>1, <3>1, BelowFirst
    <3>3. ASSUME NEW m \in part[k] PROVE m.path # Rest(p)
      <4>1. Moved(name[k], m) \in T /\ IsNode(m)
        BY AssembledHas DEF Parts, IsBranch
      <4>2. Moved(name[k], m).path = Below(name[k], m.path)
        BY <3>2, <4>1, MovedIs
      <4>3. Moved(name[k], m).path # p
        BY <1>2, <4>1
      <4> QED
        BY <3>2, <4>2, <4>3
    <3>4. GetAttributes(fs, Below(name[k], Rest(p))) = NoFile
      BY <3>2, <3>3 DEF ServesBelow
    <3> QED
      BY <3>2, <3>4
  <2> QED
    BY <2>2, <2>3
<1>3. Serves(fs, T)
  BY <1>1, <1>2 DEF Serves
<1> QED
  BY <1>3

\* A file alone.
LEMMA FileServes ==
  ASSUME NEW fs, NEW name \in Names, NEW size \in Nat,
         ServesNode(fs, Below(name, Root), "file", size, {}),
         \A p \in Paths : p # Root => GetAttributes(fs, Below(name, p)) = NoFile
  PROVE  ServesBelow(fs, name, {FileNode(size)}) /\ IsBranch({FileNode(size)})
<1>1. FileNode(size).path = Root /\ FileNode(size).type = "file" /\ FileNode(size).size = size
  BY DEF FileNode, Node
<1>2. FileNode(size) = Node(FileNode(size).path, FileNode(size).type, FileNode(size).size)
  BY <1>1 DEF FileNode
<1>3. Root \in Paths
  BY DEF Root, Paths
<1>4. IsBranch({FileNode(size)})
  BY <1>1, <1>2, <1>3 DEF IsBranch, IsNode
<1>5. ChildrenIn({FileNode(size)}, Root) = {}
  BY <1>1 DEF ChildrenIn
<1>6. ServesBelow(fs, name, {FileNode(size)})
  BY <1>1, <1>3, <1>5 DEF ServesBelow
<1> QED
  BY <1>4, <1>6

\* What the operations answer at once.
LEMMA AtOnce ==
  ASSUME NEW fs, NEW p
  PROVE  /\ Answered("getAttributes", fs, p, Read).res # "HANDED_ON" =>
              GetAttributes(fs, p) = Answered("getAttributes", fs, p, Read)
         /\ Answered("openDirectory", fs, p, Read).res # "HANDED_ON" =>
              OpenDirectory(fs, p) = Answered("openDirectory", fs, p, Read)
         /\ \A mode : Answered("openFile", fs, p, mode).res # "HANDED_ON" =>
              OpenFile(fs, p, mode) = Answered("openFile", fs, p, mode)
         /\ \A mode : Answered("access", fs, p, mode).res # "HANDED_ON" =>
              Access(fs, p, mode) = Answered("access", fs, p, mode).res
BY AskAnswered DEF GetAttributes, OpenDirectory, OpenFile, Access

LEMMA NoNameIs == NoName \notin Names /\ First(Root) = NoName /\ Rest(Root) = Root
BY FrontEndAssumption DEF FrontEndAssumption, First, Rest

\* The entry with a name is found by it.
LEMMA GetEntryFinds ==
  ASSUME NEW entries, AreEntries(entries), NEW i \in DOMAIN entries, entries[i].name \in Names
  PROVE  GetEntry(entries, entries[i].name) = i /\ i # 0
<1>1. DOMAIN entries \in SUBSET (Nat \ {0}) /\ Distinct(entries)
  BY EntriesDomain
<1> DEFINE at == GetEntry(entries, entries[i].name)
<1>2. at # 0 /\ at \in DOMAIN entries /\ entries[at].name = entries[i].name
  BY <1>1, GetEntryIs
<1> HIDE DEF at
<1>3. at = i
  BY <1>1, <1>2, NoNameIs DEF Distinct
<1> QED
  BY <1>1, <1>3 DEF at

-----------------------------------------------------------------------------
(* Partitions; a game card answers as the partition that is its root.      *)

RootOf(fs) == IF fs.kind = "card" THEN fs.root ELSE fs

IsRoot(fs) ==
  /\ fs.kind \in {"card", "partition"} /\ RootOf(fs).kind = "partition"
  /\ AreEntries(RootOf(fs).entries)
  /\ \A i \in DOMAIN RootOf(fs).entries :
       /\ RootOf(fs).entries[i].name \in Names \cup {NoName}
       /\ RootOf(fs).entries[i].size \in Nat

LEMMA RootAnswers ==
  ASSUME NEW fs, IsRoot(fs), NEW op, NEW p, NEW mode
  PROVE  Answered(op, fs, p, mode) = PartitionAnswer(op, RootOf(fs), p, mode)
<1>1. CASE fs.kind = "card"
  BY <1>1, AnsweredBy DEF RootOf
<1>2. CASE fs.kind = "partition"
  BY <1>2, AnsweredBy DEF RootOf
<1> QED
  BY <1>1, <1>2 DEF IsRoot

\* The branch of each entry.
IsPart(e, T) ==
  /\ IsBranch(T)
  /\ \/ e.fs = NoFs /\ T = {FileNode(e.size)}
     \/ e.fs # NoFs /\ Deep4(e.fs) /\ Serves(e.fs, T) /\ RootNode \in T

NamesOf(entries) == [i \in DOMAIN entries |-> entries[i].name]

LEMMA GrantedIs ==
  ASSUME NEW mode
  PROVE  Granted(mode).res # "HANDED_ON" /\ (Granted(mode).res = "SUCCESS" <=> mode = Read)
BY DEF Granted, Result

LEMMA PartitionServesRoot ==
  ASSUME NEW fs, IsRoot(fs), NEW C, Lists(DirectoryOf(RootOf(fs), Root), C)
  PROVE  ServesNode(fs, Root, "directory", 0, C)
<1> DEFINE r == RootOf(fs)
<1>0. r.kind = "partition"
  BY DEF IsRoot
<1>1. PartitionAttributes(r, Root) = Directory
  BY NoNameIs, Zenon DEF PartitionAttributes
<1>2. GetAttributes(fs, Root) = Directory
  <2>1. Answered("getAttributes", fs, Root, Read) = Directory
    BY <1>1, RootAnswers, AnswersByOperation
  <2>2. Directory.res # "HANDED_ON"
    BY DEF Directory
  <2> QED
    BY <2>1, <2>2, AtOnce
<1>3. OpenDirectory(fs, Root) = DirectoryOf(r, Root)
  <2>1. PartitionOpenDirectory(r, Root) = GetRoot(r)
    BY NoNameIs, Zenon DEF PartitionOpenDirectory
  <2>2. GetRoot(r) = DirectoryOf(r, Root)
    BY <1>0 DEF GetRoot
  <2>3. Answered("openDirectory", fs, Root, Read) = DirectoryOf(r, Root)
    BY <2>1, <2>2, RootAnswers, AnswersByOperation
  <2>4. DirectoryOf(r, Root).res # "HANDED_ON"
    BY DEF DirectoryOf
  <2> QED
    BY <2>3, <2>4, AtOnce
<1>4. ASSUME NEW mode PROVE Access(fs, Root, mode) = Granted(mode).res
  <2>1. PartitionAccess(r, Root, mode) = Granted(mode)
    BY NoNameIs, Zenon DEF PartitionAccess
  <2>2. Answered("access", fs, Root, mode) = Granted(mode)
    BY <2>1, RootAnswers, AnswersByOperation
  <2> QED
    BY <2>2, GrantedIs, AtOnce
<1>5. OpenDirectory(fs, Root).res = "SUCCESS" /\ OpenDirectory(fs, Root).fs.kind # "wrapper"
  BY <1>0, <1>3, DirectoryFields
<1>6. Directory = [res |-> "SUCCESS", type |-> "directory", size |-> 0]
  BY DEF Directory
<1> HIDE DEF r
<1>7. Lists(DirectoryOf(r, Root), C)
  BY DEF r
<1> QED
  BY <1>2, <1>3, <1>4, <1>5, <1>6, <1>7, GrantedIs DEF ServesNode

LEMMA PartitionServesFile ==
  ASSUME NEW fs, IsRoot(fs), NEW i \in DOMAIN RootOf(fs).entries,
         RootOf(fs).entries[i].name \in Names, RootOf(fs).entries[i].fs = NoFs
  PROVE  ServesBelow(fs, RootOf(fs).entries[i].name, {FileNode(RootOf(fs).entries[i].size)})
         /\ IsBranch({FileNode(RootOf(fs).entries[i].size)})
<1> DEFINE r == RootOf(fs)
           e == r.entries[i]
           p == Below(e.name, Root)
<1>1. AreEntries(r.entries) /\ e.size \in Nat
  BY DEF IsRoot
<1>2. GetEntry(r.entries, e.name) = i /\ i # 0
  BY <1>1, GetEntryFinds
<1>3. ASSUME NEW q \in Paths
      PROVE  First(Below(e.name, q)) = e.name /\ Rest(Below(e.name, q)) = q /\ e.name # NoName
  BY FirstRest
<1>4. Root \in Paths
  BY DEF Root, Paths
<1>5. e.fs = NoFs
  OBVIOUS
<1> HIDE DEF e, r
<1>6. GetAttributes(fs, p) = File(e.size)
  <2>1. PartitionAttributes(r, p) = File(e.size)
    BY <1>2, <1>3, <1>4, <1>5 DEF PartitionAttributes, e
  <2>2. Answered("getAttributes", fs, p, Read) = File(e.size)
    BY <2>1, RootAnswers, AnswersByOperation DEF r
  <2>3. File(e.size).res # "HANDED_ON"
    BY DEF File
  <2> QED
    BY <2>2, <2>3, AtOnce
<1>7. ASSUME NEW q \in Paths, q # Root PROVE GetAttributes(fs, Below(e.name, q)) = NoFile
  <2>1. PartitionAttributes(r, Below(e.name, q)) = NoFile
    BY <1>2, <1>3, <1>5, <1>7 DEF PartitionAttributes, e
  <2>2. Answered("getAttributes", fs, Below(e.name, q), Read) = NoFile
    BY <2>1, RootAnswers, AnswersByOperation DEF r
  <2>3. NoFile.res # "HANDED_ON"
    BY DEF NoFile, Failure
  <2> QED
    BY <2>2, <2>3, AtOnce
<1>8. ASSUME NEW mode
      PROVE  /\ mode = Read => OpenFile(fs, p, mode) = File(e.size)
             /\ mode # Read => OpenFile(fs, p, mode) = Failure("PERMISSION_ERROR")
  <2>1. /\ mode = Read => PartitionOpenFile(r, p, mode) = File(e.size)
        /\ mode # Read => PartitionOpenFile(r, p, mode) = Failure("PERMISSION_ERROR")
    BY <1>2, <1>3, <1>4, <1>5 DEF PartitionOpenFile, e
  <2>2. Answered("openFile", fs, p, mode) = PartitionOpenFile(r, p, mode)
    BY RootAnswers, AnswersByOperation DEF r
  <2>3. File(e.size).res # "HANDED_ON" /\ Failure("PERMISSION_ERROR").res # "HANDED_ON"
    BY DEF File, Failure
  <2> QED
    BY <2>1, <2>2, <2>3, AtOnce
<1>9. OpenDirectory(fs, p) = NoDirectory
  <2>1. PartitionOpenDirectory(r, p) = NoDirectory
    BY <1>2, <1>3, <1>4, <1>5 DEF PartitionOpenDirectory, e
  <2>2. Answered("openDirectory", fs, p, Read) = NoDirectory
    BY <2>1, RootAnswers, AnswersByOperation DEF r
  <2>3. NoDirectory.res # "HANDED_ON"
    BY DEF NoDirectory
  <2> QED
    BY <2>2, <2>3, AtOnce
<1>10. ASSUME NEW mode PROVE Access(fs, p, mode) = Granted(mode).res
  <2>1. PartitionAccess(r, p, mode) = Granted(mode)
    BY <1>2, <1>3, <1>4, <1>5 DEF PartitionAccess, e
  <2>2. Answered("access", fs, p, mode) = Granted(mode)
    BY <2>1, RootAnswers, AnswersByOperation DEF r
  <2> QED
    BY <2>2, GrantedIs, AtOnce
<1>11. ServesNode(fs, p, "file", e.size, {})
  <2>1. File(e.size) = [res |-> "SUCCESS", type |-> "file", size |-> e.size]
    BY DEF File
  <2>2. Failure("PERMISSION_ERROR").res # "SUCCESS"
    BY DEF Failure
  <2>3. NoDirectory.fs.kind # "wrapper"
    BY DEF NoDirectory, NoFs
  <2> HIDE DEF p
  <2> QED
    BY <1>6, <1>8, <1>9, <1>10, <2>1, <2>2, <2>3, GrantedIs DEF ServesNode
<1>12. ServesBelow(fs, e.name, {FileNode(e.size)}) /\ IsBranch({FileNode(e.size)})
  <2>1. e.name \in Names
    BY DEF e, r
  <2> QED
    BY <1>1, <1>7, <1>11, <2>1, FileServes
<1> QED
  BY <1>12 DEF e, r

LEMMA PartitionServesBelow ==
  ASSUME NEW fs, IsRoot(fs), NEW i \in DOMAIN RootOf(fs).entries,
         RootOf(fs).entries[i].name \in Names, RootOf(fs).entries[i].fs # NoFs,
         Deep4(RootOf(fs).entries[i].fs), NEW T, IsBranch(T), Serves(RootOf(fs).entries[i].fs, T)
  PROVE  ServesBelow(fs, RootOf(fs).entries[i].name, T)
<1> DEFINE r == RootOf(fs)
           e == r.entries[i]
<1>1. AreEntries(r.entries) /\ e.name \in Names /\ e.fs # NoFs /\ Deep4(e.fs) /\ Serves(e.fs, T)
  BY DEF IsRoot
<1>2. GetEntry(r.entries, e.name) = i /\ i # 0
  BY <1>1, GetEntryFinds
<1> HIDE DEF r
<1>3. e = r.entries[i]
  OBVIOUS
<1> HIDE DEF e
<1>4. ASSUME NEW q \in Paths, NEW op \in Operations, NEW mode
      PROVE  Answered(op, fs, Below(e.name, q), mode) = HandOn(e.fs, q)
  <2> DEFINE p == Below(e.name, q)
  <2>1. First(p) = e.name /\ Rest(p) = q /\ e.name # NoName
    BY <1>1, FirstRest
  <2>2. Answered(op, fs, p, mode) = PartitionAnswer(op, r, p, mode)
    BY RootAnswers DEF r
  <2> HIDE DEF p
  <2>3. PartitionAccess(r, p, mode) = HandOn(e.fs, q)
    BY <1>1, <1>2, <1>3, <2>1 DEF PartitionAccess
  <2>4. PartitionAttributes(r, p) = HandOn(e.fs, q)
    BY <1>1, <1>2, <1>3, <2>1 DEF PartitionAttributes
  <2>5. PartitionOpenFile(r, p, mode) = HandOn(e.fs, q)
    BY <1>1, <1>2, <1>3, <2>1 DEF PartitionOpenFile
  <2>6. PartitionOpenDirectory(r, p) = HandOn(e.fs, q)
    BY <1>1, <1>2, <1>3, <2>1 DEF PartitionOpenDirectory
  <2>7. Answered(op, fs, p, mode) = HandOn(e.fs, q)
    BY <2>2, <2>3, <2>4, <2>5, <2>6, AnswersByOperation DEF Operations
  <2> QED
    BY <2>7 DEF p
<1>5. \A q \in Paths : SameAnswers(fs, Below(e.name, q), e.fs, q)
  BY <1>1, <1>4, AskHandedOn DEF SameAnswers
<1>6. ServesBelow(fs, e.name, T)
  BY <1>1, <1>5, SameServesBelow
<1> QED
  BY <1>6 DEF e, r

LEMMA PartitionMisses ==
  ASSUME NEW fs, IsRoot(fs), NEW p \in Paths, p # Root,
         \A i \in DOMAIN RootOf(fs).entries : RootOf(fs).entries[i].name # First(p)
  PROVE  GetAttributes(fs, p) = NoFile
<1> DEFINE r == RootOf(fs)
<1>1. First(p) # NoName
  BY BelowFirst, NoNameIs
<1>2. DOMAIN r.entries \in SUBSET (Nat \ {0})
  BY EntriesDomain DEF IsRoot
<1>3. GetEntry(r.entries, First(p)) = 0
  BY <1>2, GetEntryIs
<1>4. PartitionAttributes(r, p) = NoFile
  BY <1>1, <1>3, Zenon DEF PartitionAttributes
<1>5. Answered("getAttributes", fs, p, Read) = NoFile
  BY <1>4, RootAnswers, AnswersByOperation
<1>6. NoFile.res # "HANDED_ON"
  BY DEF NoFile, Failure
<1> QED
  BY <1>5, <1>6, AtOnce

\* A partition serves what its entries stand for, if each of them is served.
LEMMA PartitionServes ==
  ASSUME NEW fs, IsRoot(fs), NEW part,
         \A i \in HasName(RootOf(fs).entries) : IsPart(RootOf(fs).entries[i], part[i])
  PROVE  LET T == Assembled(HasName(RootOf(fs).entries), NamesOf(RootOf(fs).entries), part)
         IN IsBranch(T) /\ RootNode \in T /\ Serves(fs, T)
<1> DEFINE r == RootOf(fs)
           K == HasName(r.entries)
           name == NamesOf(r.entries)
           T == Assembled(K, name, part)
<1>1. /\ r.kind = "partition" /\ AreEntries(r.entries) /\ Distinct(r.entries)
      /\ \A i \in DOMAIN r.entries : r.entries[i].name \in Names \cup {NoName} /\ r.entries[i].size \in Nat
  BY EntriesDomain DEF IsRoot
<1>2. \A k \in K : /\ k \in DOMAIN r.entries /\ name[k] = r.entries[k].name
                   /\ name[k] \in Names /\ name[k] # NoName
  <2> HIDE DEF r
  <2> QED
    BY <1>1 DEF HasName, NamesOf
<1>3. Parts(K, name, part)
  <2>1. \A k \in K : IsBranch(part[k])
    BY DEF IsPart
  <2>2. \A j, k \in K : name[j] = name[k] => j = k
    <3> HIDE DEF K, name, r
    <3> QED
      BY <1>1, <1>2 DEF Distinct
  <2> HIDE DEF K, name
  <2> QED
    BY <1>2, <2>1, <2>2 DEF Parts
<1>4. IsBranch(T) /\ RootNode \in T
  <2> HIDE DEF K, name
  <2> QED
    BY <1>3, AssembledIsBranch
<1>5. ServesNode(fs, Root, "directory", 0, ChildrenIn(T, Root))
  <2> DEFINE C == {ShownEntry(PartitionEntry(r.entries[i])) : i \in K}
  <2>1. Lists(DirectoryOf(r, Root), C)
    <3> HIDE DEF r
    <3> QED
      BY <1>1, PartitionLists
  <2>2. ASSUME NEW k \in K, NEW n \in part[k], n.path = Root
        PROVE  Entry(name[k], n.type, n.size) = ShownEntry(PartitionEntry(r.entries[k]))
    <3> DEFINE e == r.entries[k]
    <3>1. IsPart(e, part[k]) /\ name[k] = e.name
      BY <1>2
    <3> HIDE DEF e, r, K
    <3>2. CASE e.fs = NoFs
      <4>1. n = FileNode(e.size)
        BY <2>2, <3>1, <3>2 DEF IsPart
      <4>2. n.type = "file" /\ n.size = e.size
        BY <4>1 DEF FileNode, Node
      <4>3. PartitionEntry(e) = Entry(e.name, "file", e.size)
        BY <3>2 DEF PartitionEntry
      <4>4. ShownEntry(PartitionEntry(e)) = PartitionEntry(e)
        BY <4>3 DEF ShownEntry, Entry
      <4> QED
        BY <3>1, <4>2, <4>3, <4>4 DEF e
    <3>3. CASE e.fs # NoFs
      <4>1. n = RootNode
        BY <2>2, <3>1, <3>3, RootNodeIs DEF IsPart, IsBranch
      <4>2. n.type = "directory" /\ n.size = 0
        BY <4>1, RootNodeIs
      <4>3. PartitionEntry(e) = Entry(e.name, "directory", e.size)
        BY <3>3 DEF PartitionEntry
      <4>4. ShownEntry(PartitionEntry(e)) = Entry(e.name, "directory", 0)
        BY <4>3 DEF ShownEntry, Entry
      <4> QED
        BY <3>1, <4>2, <4>4 DEF e
    <3> QED
      BY <3>2, <3>3
  <2>3. \A k \in K : \E n \in part[k] : n.path = Root
    BY DEF IsPart, IsBranch
  <2>4. ChildrenIn(T, Root) = C
    <3>1. \A x : x \in ChildrenIn(T, Root) <=>
            \E k \in K : \E n \in part[k] : n.path = Root /\ x = Entry(name[k], n.type, n.size)
      <4> HIDE DEF K, name
      <4> QED
        BY <1>3, ChildrenOfRoot
    <3>2. \A x : x \in C <=> \E k \in K : x = ShownEntry(PartitionEntry(r.entries[k]))
      OBVIOUS
    <3> HIDE DEF K, name, T, C, r
    <3>3. \A x : x \in ChildrenIn(T, Root) <=> x \in C
      BY <2>2, <2>3, <3>1, <3>2
    <3> QED
      BY <3>3
  <2> HIDE DEF C, T
  <2> QED
    BY <2>1, <2>4, PartitionServesRoot
<1>6. \A k \in K : ServesBelow(fs, name[k], part[k])
  <2>1. SUFFICES ASSUME NEW k \in K PROVE ServesBelow(fs, name[k], part[k])
    OBVIOUS
  <2>2. k \in DOMAIN r.entries /\ name[k] = r.entries[k].name /\ name[k] \in Names
    BY <1>2
  <2>3. IsPart(r.entries[k], part[k])
    OBVIOUS
  <2> HIDE DEF K, name
  <2>4. CASE r.entries[k].fs = NoFs
    BY <2>2, <2>3, <2>4, PartitionServesFile DEF IsPart
  <2>5. CASE r.entries[k].fs # NoFs
    BY <2>2, <2>3, <2>5, PartitionServesBelow DEF IsPart
  <2> QED
    BY <2>4, <2>5
<1>7. ASSUME NEW p \in Paths, p # Root, \A k \in K : name[k] # First(p)
      PROVE  GetAttributes(fs, p) = NoFile
  <2>1. First(p) \in Names
    BY <1>7, BelowFirst
  <2>2. \A i \in DOMAIN r.entries : r.entries[i].name # First(p)
    <3>1. SUFFICES ASSUME NEW i \in DOMAIN r.entries, r.entries[i].name = First(p) PROVE FALSE
      OBVIOUS
    <3>2. i \in K
      BY <2>1, <3>1, NoNameIs DEF HasName
    <3> HIDE DEF K, name
    <3> QED
      BY <1>2, <1>7, <3>1, <3>2
  <2> QED
    BY <1>7, <2>2, PartitionMisses
<1>8. Serves(fs, T)
  <2> HIDE DEF K, name
  <2> QED
    BY <1>3, <1>5, <1>6, <1>7, AssembledServes
<1> QED
  BY <1>4, <1>8

\* What a child serves at a path is served at another one of its parent; the parent
\* may refuse to open a file that the child would open for more than reading.
Transfers(fs, p, child, q) ==
  /\ GetAttributes(fs, p) = GetAttributes(child, q)
  /\ OpenDirectory(fs, p) = OpenDirectory(child, q)
  /\ OpenFile(fs, p, Read) = OpenFile(child, q, Read)
  /\ \A mode : mode # Read => \/ OpenFile(fs, p, mode) = OpenFile(child, q, mode)
                              \/ OpenFile(fs, p, mode).res # "SUCCESS"
  /\ \A mode : Access(fs, p, mode) = Access(child, q, mode)

LEMMA TransfersNode ==
  ASSUME NEW fs, NEW p, NEW child, NEW q, Transfers(fs, p, child, q),
         NEW type, NEW size, NEW C, ServesNode(child, q, type, size, C)
  PROVE  ServesNode(fs, p, type, size, C)
<1>1. ASSUME NEW mode, mode # Read, type = "file" PROVE OpenFile(fs, p, mode).res # "SUCCESS"
  <2>1. OpenFile(child, q, mode).res # "SUCCESS"
    BY <1>1 DEF ServesNode
  <2> QED
    BY <1>1, <2>1 DEF Transfers
<1> QED
  BY <1>1 DEF Transfers, ServesNode

LEMMA TransfersBelow ==
  ASSUME NEW fs, NEW name, NEW child, NEW T, Serves(child, T), IsBranch(T),
         \A q \in Paths : Transfers(fs, Below(name, q), child, q)
  PROVE  ServesBelow(fs, name, T)
<1>1. ASSUME NEW n \in T
      PROVE  ServesNode(fs, Below(name, n.path), n.type, n.size, ChildrenIn(T, n.path))
  <2>1. n.path \in Paths
    BY DEF IsBranch, IsNode
  <2>2. ServesNode(child, n.path, n.type, n.size, ChildrenIn(T, n.path))
    BY DEF Serves
  <2> QED
    BY <2>1, <2>2, TransfersNode
<1>2. ASSUME NEW p \in Paths, \A n \in T : n.path # p
      PROVE  GetAttributes(fs, Below(name, p)) = NoFile
  <2>1. GetAttributes(child, p) = NoFile
    BY <1>2 DEF Serves
  <2>2. Transfers(fs, Below(name, p), child, p)
    OBVIOUS
  <2> QED
    BY <2>1, <2>2 DEF Transfers
<1> QED
  BY <1>1, <1>2 DEF ServesBelow

-----------------------------------------------------------------------------
(* NCAs.                                                                   *)

\* A section is found by its name, which is not that of the file.
LEMMA SectionFinds ==
  ASSUME NEW nca, IsNca(nca), NEW i \in DOMAIN Sections(nca)
  PROVE  /\ GetEntry(Sections(nca), Sections(nca)[i].name) = i /\ i # 0
         /\ Sections(nca)[i].name \in Names /\ Sections(nca)[i].name # nca.name
<1> DEFINE s == Sections(nca)
           at == GetEntry(s, s[i].name)
<1>1. /\ DOMAIN s \in SUBSET (Nat \ {0})
      /\ \A k \in DOMAIN s : s[k].name \in Names \ {nca.name}
      /\ \A j, k \in DOMAIN s : s[j].name = s[k].name => j = k
  BY SectionsAre
<1> HIDE DEF s
<1>2. at # 0 /\ at \in DOMAIN s /\ s[at].name = s[i].name
  BY <1>1, GetEntryIs DEF s
<1> HIDE DEF at
<1>3. at = i
  BY <1>1, <1>2 DEF s
<1> QED
  BY <1>1, <1>3 DEF at, s

LEMMA NcaAnswers ==
  ASSUME NEW fs, IsNca(fs), NEW p, NEW mode
  PROVE  /\ Answered("access", fs, p, mode) = NcaAccess(fs, p, mode)
         /\ Answered("getAttributes", fs, p, mode) = NcaAttributes(fs, p)
         /\ Answered("openFile", fs, p, mode) = NcaOpenFile(fs, p, mode)
         /\ Answered("openDirectory", fs, p, mode) = NcaOpenDirectory(fs, p)
BY AnsweredBy, AnswersByOperation DEF IsNca

LEMMA NcaServesRoot ==
  ASSUME NEW fs, IsNca(fs), NEW C, Lists(DirectoryOf(fs, Root), C)
  PROVE  /\ ServesNode(fs, Root, "directory", 0, C)
         /\ OpenDirectory(fs, Root) = DirectoryOf(fs, Root)
         /\ \A mode : Access(fs, Root, mode) = Granted(mode).res
<1>0. fs.kind = "nca"
  BY DEF IsNca
<1>1. GetAttributes(fs, Root) = Directory
  <2>1. NcaAttributes(fs, Root) = Directory
    BY NoNameIs, Zenon DEF NcaAttributes
  <2>2. Directory.res # "HANDED_ON"
    BY DEF Directory
  <2> QED
    BY <2>1, <2>2, NcaAnswers, AtOnce
<1>2. OpenDirectory(fs, Root) = DirectoryOf(fs, Root)
  <2>1. NcaOpenDirectory(fs, Root) = GetRoot(fs)
    BY NoNameIs, Zenon DEF NcaOpenDirectory
  <2>2. GetRoot(fs) = DirectoryOf(fs, Root)
    BY <1>0 DEF GetRoot
  <2>3. DirectoryOf(fs, Root).res # "HANDED_ON"
    BY DEF DirectoryOf
  <2> QED
    BY <2>1, <2>2, <2>3, NcaAnswers, AtOnce
<1>3. ASSUME NEW mode PROVE Access(fs, Root, mode) = Granted(mode).res
  <2>1. NcaAccess(fs, Root, mode) = Granted(mode)
    BY NoNameIs, Zenon DEF NcaAccess
  <2> QED
    BY <2>1, NcaAnswers, GrantedIs, AtOnce
<1>4. OpenDirectory(fs, Root).res = "SUCCESS" /\ OpenDirectory(fs, Root).fs.kind # "wrapper"
  BY <1>0, <1>2, DirectoryFields
<1>5. Directory = [res |-> "SUCCESS", type |-> "directory", size |-> 0]
  BY DEF Directory
<1>6. ServesNode(fs, Root, "directory", 0, C)
  BY <1>1, <1>2, <1>3, <1>4, <1>5, GrantedIs DEF ServesNode
<1> QED
  BY <1>2, <1>3, <1>6

\* A path below the name of the file is no path of the file, and there is no
\* section of that name.
LEMMA NcaServesFile ==
  ASSUME NEW fs, IsNca(fs)
  PROVE  ServesBelow(fs, fs.name, {FileNode(fs.size)}) /\ IsBranch({FileNode(fs.size)})
<1> DEFINE p == Below(fs.name, Root)
<1>0. fs.name \in Names /\ fs.size \in Nat
  BY DEF IsNca
<1>1. DOMAIN Sections(fs) \in SUBSET (Nat \ {0})
  BY SectionsAre
<1>2. GetEntry(Sections(fs), fs.name) = 0
  BY <1>1, GetEntryIs, SectionsAre
<1>3. Root \in Paths
  BY DEF Root, Paths
<1>4. ASSUME NEW q \in Paths
      PROVE  First(Below(fs.name, q)) = fs.name /\ fs.name # NoName
  BY <1>0, FirstRest
<1>5. IsRaw(fs, p)
  BY DEF IsRaw, Below, Root
<1>6. ASSUME NEW q \in Paths, q # Root PROVE ~ IsRaw(fs, Below(fs.name, q))
  <2>1. Len(q) # 0
    BY <1>6 DEF Paths, Root
  <2>2. Len(Below(fs.name, q)) # 1
    BY <1>0, <2>1, BelowIs
  <2>3. Len(<<fs.name>>) = 1
    OBVIOUS
  <2> QED
    BY <2>2, <2>3, Zenon DEF IsRaw
<1> HIDE DEF p
<1>7. First(p) = fs.name /\ fs.name # NoName
  BY <1>3, <1>4 DEF p
<1>8. File(fs.size).res # "HANDED_ON" /\ Failure("PERMISSION_ERROR").res # "HANDED_ON"
      /\ NoFile.res # "HANDED_ON" /\ NoDirectory.res # "HANDED_ON"
  BY DEF File, NoFile, Failure, NoDirectory
<1>9. GetAttributes(fs, p) = File(fs.size)
  <2>1. NcaAttributes(fs, p) = File(fs.size)
    BY <1>5, <1>7, Zenon DEF NcaAttributes
  <2> QED
    BY <1>8, <2>1, NcaAnswers, AtOnce
<1>10. ASSUME NEW q \in Paths, q # Root PROVE GetAttributes(fs, Below(fs.name, q)) = NoFile
  <2>1. NcaAttributes(fs, Below(fs.name, q)) = NoFile
    BY <1>2, <1>4, <1>6, <1>10, Zenon DEF NcaAttributes, ThroughEntry
  <2> QED
    BY <1>8, <2>1, NcaAnswers, AtOnce
<1>11. ASSUME NEW mode
       PROVE  /\ mode = Read => OpenFile(fs, p, mode) = File(fs.size)
              /\ mode # Read => OpenFile(fs, p, mode) = Failure("PERMISSION_ERROR")
  <2>1. /\ mode = Read => NcaOpenFile(fs, p, mode) = File(fs.size)
        /\ mode # Read => NcaOpenFile(fs, p, mode) = Failure("PERMISSION_ERROR")
    BY <1>5 DEF NcaOpenFile
  <2> QED
    BY <1>8, <2>1, NcaAnswers, AtOnce
<1>12. OpenDirectory(fs, p) = NoDirectory
  <2>1. NcaOpenDirectory(fs, p) = NoDirectory
    BY <1>2, <1>7, Zenon DEF NcaOpenDirectory, ThroughEntry
  <2> QED
    BY <1>8, <2>1, NcaAnswers, AtOnce
<1>13. ASSUME NEW mode PROVE Access(fs, p, mode) = Granted(mode).res
  <2>1. NcaAccess(fs, p, mode) = Granted(mode)
    BY <1>5, Zenon DEF NcaAccess
  <2> QED
    BY <2>1, NcaAnswers, GrantedIs, AtOnce
<1>14. ServesNode(fs, p, "file", fs.size, {})
  <2>1. File(fs.size) = [res |-> "SUCCESS", type |-> "file", size |-> fs.size]
    BY DEF File
  <2>2. Failure("PERMISSION_ERROR").res # "SUCCESS"
    BY DEF Failure
  <2>3. NoDirectory.fs.kind # "wrapper"
    BY DEF NoDirectory, NoFs
  <2> QED
    BY <1>9, <1>11, <1>12, <1>13, <2>1, <2>2, <2>3, GrantedIs DEF ServesNode
<1> QED
  BY <1>0, <1>10, <1>14, FileServes DEF p

LEMMA NcaServesBelow ==
  ASSUME NEW fs, IsNca(fs), NEW i \in DOMAIN Sections(fs),
         NEW T, IsBranch(T), Serves(Sections(fs)[i].fs, T)
  PROVE  ServesBelow(fs, Sections(fs)[i].name, T)
<1> DEFINE name == Sections(fs)[i].name
           child == Sections(fs)[i].fs
<1>1. GetEntry(Sections(fs), name) = i /\ i # 0 /\ name \in Names /\ name # fs.name
  BY SectionFinds
<1>2. Deep4(child)
  BY SectionsAre, SectionIsDeep, Deeper
<1>3. child = Sections(fs)[i].fs /\ Serves(child, T)
  OBVIOUS
<1> HIDE DEF name, child
<1>4. ASSUME NEW q \in Paths PROVE Transfers(fs, Below(name, q), child, q)
  <2> DEFINE p == Below(name, q)
  <2>1. First(p) = name /\ Rest(p) = q /\ name # NoName
    BY <1>1, FirstRest
  <2>2. ~ IsRaw(fs, p)
    <3>1. p[1] = name
      BY <1>1, BelowIs
    <3>2. <<fs.name>>[1] = fs.name
      OBVIOUS
    <3> HIDE DEF p
    <3> QED
      BY <1>1, <3>1, <3>2, Zenon DEF IsRaw
  <2> HIDE DEF p
  <2>3. /\ NcaAttributes(fs, p) = HandOn(child, q)
        /\ NcaOpenDirectory(fs, p) = HandOn(child, q)
        /\ NcaOpenFile(fs, p, Read) = HandOn(child, q)
        /\ \A mode : NcaAccess(fs, p, mode) = HandOn(child, q)
    BY <1>1, <1>3, <2>1, <2>2 DEF NcaAttributes, NcaOpenDirectory, NcaOpenFile, NcaAccess, ThroughEntry
  <2>4. GetAttributes(fs, p) = GetAttributes(child, q)
    BY <1>2, <2>3, NcaAnswers, AskHandedOn DEF GetAttributes, Operations
  <2>5. OpenDirectory(fs, p) = OpenDirectory(child, q)
    BY <1>2, <2>3, NcaAnswers, AskHandedOn DEF OpenDirectory, Operations
  <2>6. OpenFile(fs, p, Read) = OpenFile(child, q, Read)
    BY <1>2, <2>3, NcaAnswers, AskHandedOn DEF OpenFile, Operations
  <2>7. ASSUME NEW mode PROVE Access(fs, p, mode) = Access(child, q, mode)
    BY <1>2, <2>3, NcaAnswers, AskHandedOn DEF Access, Operations
  <2>8. ASSUME NEW mode, mode # Read PROVE OpenFile(fs, p, mode).res # "SUCCESS"
    <3>1. NcaOpenFile(fs, p, mode) = Failure("PERMISSION_ERROR")
      BY <2>8 DEF NcaOpenFile
    <3>2. Failure("PERMISSION_ERROR").res \notin {"HANDED_ON", "SUCCESS"}
      BY DEF Failure
    <3> QED
      BY <3>1, <3>2, NcaAnswers, AtOnce
  <2>9. Transfers(fs, p, child, q)
    BY <2>4, <2>5, <2>6, <2>7, <2>8 DEF Transfers
  <2> QED
    BY <2>9 DEF p
<1>5. ServesBelow(fs, name, T)
  BY <1>3, <1>4, TransfersBelow
<1> QED
  BY <1>5 DEF name

LEMMA NcaMisses ==
  ASSUME NEW fs, IsNca(fs), NEW p \in Paths, p # Root, First(p) # fs.name,
         \A i \in DOMAIN Sections(fs) : Sections(fs)[i].name # First(p)
  PROVE  GetAttributes(fs, p) = NoFile
<1>1. First(p) # NoName
  BY BelowFirst, NoNameIs
<1>2. DOMAIN Sections(fs) \in SUBSET (Nat \ {0})
  BY SectionsAre
<1>3. GetEntry(Sections(fs), First(p)) = 0
  BY <1>2, GetEntryIs
<1>4. ~ IsRaw(fs, p)
  <2>1. fs.name # NoName /\ First(<<fs.name>>) = fs.name
    BY NoNameIs DEF IsNca, First, Root
  <2> QED
    BY <2>1, Zenon DEF IsRaw
<1>5. NcaAttributes(fs, p) = NoFile
  BY <1>1, <1>3, <1>4, Zenon DEF NcaAttributes, ThroughEntry
<1>6. NoFile.res # "HANDED_ON"
  BY DEF NoFile, Failure
<1> QED
  BY <1>5, <1>6, NcaAnswers, AtOnce

\* The names in an NCA, that of the file at 0.
NcaKeys(nca) == DOMAIN Sections(nca) \cup {0}
NcaNames(nca) == [k \in NcaKeys(nca) |-> IF k = 0 THEN nca.name ELSE Sections(nca)[k].name]

\* An NCA serves its sections, each of which is served, and its file.
LEMMA NcaServes ==
  ASSUME NEW fs, IsNca(fs), NEW part, part[0] = {FileNode(fs.size)},
         \A i \in DOMAIN Sections(fs) :
           IsBranch(part[i]) /\ RootNode \in part[i] /\ Serves(Sections(fs)[i].fs, part[i])
  PROVE  LET T == Assembled(NcaKeys(fs), NcaNames(fs), part)
         IN IsBranch(T) /\ RootNode \in T /\ Serves(fs, T)
<1> DEFINE s == Sections(fs)
           K == NcaKeys(fs)
           name == NcaNames(fs)
           T == Assembled(K, name, part)
<1>1. /\ fs.name \in Names /\ fs.size \in Nat /\ DOMAIN s \in SUBSET (Nat \ {0})
      /\ \A k \in DOMAIN s : s[k].name \in Names \ {fs.name}
      /\ \A j, k \in DOMAIN s : s[j].name = s[k].name => j = k
  <2>1. fs.name \in Names /\ fs.size \in Nat
    BY DEF IsNca
  <2>2. /\ DOMAIN s \in SUBSET (Nat \ {0})
        /\ \A k \in DOMAIN s : s[k].name \in Names \ {fs.name}
        /\ \A j, k \in DOMAIN s : s[j].name = s[k].name => j = k
    BY SectionsAre
  <2> HIDE DEF s
  <2> QED
    BY <2>1, <2>2
<1>2. /\ \A k : k \in K <=> k = 0 \/ k \in DOMAIN s
      /\ name[0] = fs.name /\ \A k \in DOMAIN s : name[k] = s[k].name
  <2> HIDE DEF s
  <2> QED
    BY <1>1 DEF NcaKeys, NcaNames, s
<1>3. IsBranch(part[0]) /\ ServesBelow(fs, name[0], part[0])
  BY <1>2, NcaServesFile
<1> HIDE DEF K, name
<1>4. Parts(K, name, part)
  <2>1. \A k \in K : name[k] \in Names /\ IsBranch(part[k])
    BY <1>1, <1>2, <1>3
  <2>2. \A j, k \in K : name[j] = name[k] => j = k
    <3> HIDE DEF s
    <3> QED
      BY <1>1, <1>2
  <2> QED
    BY <2>1, <2>2 DEF Parts
<1>5. IsBranch(T) /\ RootNode \in T
  BY <1>4, AssembledIsBranch
<1>6. \A k \in K : ServesBelow(fs, name[k], part[k])
  <2>1. SUFFICES ASSUME NEW k \in K PROVE ServesBelow(fs, name[k], part[k])
    OBVIOUS
  <2>2. CASE k = 0
    BY <1>3, <2>2
  <2>3. CASE k \in DOMAIN s
    BY <1>2, <2>3, NcaServesBelow
  <2> QED
    BY <1>2, <2>2, <2>3
<1>7. ASSUME NEW p \in Paths, p # Root, \A k \in K : name[k] # First(p)
      PROVE  GetAttributes(fs, p) = NoFile
  <2>1. First(p) # fs.name
    BY <1>2, <1>7
  <2>2. \A i \in DOMAIN s : s[i].name # First(p)
    <3> HIDE DEF s
    <3> QED
      BY <1>2, <1>7
  <2> QED
    BY <1>7, <2>1, <2>2, NcaMisses
<1>8. ServesNode(fs, Root, "directory", 0, ChildrenIn(T, Root))
  <2> DEFINE C == {Entry(s[i].name, "directory", 0) : i \in DOMAIN s} \cup {RawEntry(fs)}
  <2>1. Lists(DirectoryOf(fs, Root), C)
    BY NcaLists
  <2>2. ASSUME NEW k \in DOMAIN s, NEW n \in part[k], n.path = Root
        PROVE  Entry(name[k], n.type, n.size) = Entry(s[k].name, "directory", 0)
    <3>1. IsBranch(part[k]) /\ RootNode \in part[k]
      OBVIOUS
    <3>2. n = RootNode
      BY <2>2, <3>1, RootNodeIs DEF IsBranch
    <3> HIDE DEF s
    <3> QED
      BY <1>2, <3>2, RootNodeIs
  <2>3. ASSUME NEW n \in part[0] PROVE Entry(name[0], n.type, n.size) = RawEntry(fs) /\ n.path = Root
    <3>1. n = FileNode(fs.size)
      OBVIOUS
    <3> QED
      BY <1>2, <3>1 DEF RawEntry, FileNode, Node
  <2>4. \A k \in DOMAIN s : RootNode \in part[k] /\ RootNode.path = Root
    BY RootNodeIs
  <2>5. \E n \in part[0] : TRUE
    OBVIOUS
  <2>6. ChildrenIn(T, Root) = C
    <3>1. \A x : x \in ChildrenIn(T, Root) <=>
            \E k \in K : \E n \in part[k] : n.path = Root /\ x = Entry(name[k], n.type, n.size)
      BY <1>4, ChildrenOfRoot
    <3>2. \A x : x \in C <=> x = RawEntry(fs) \/ \E k \in DOMAIN s : x = Entry(s[k].name, "directory", 0)
      OBVIOUS
    <3> HIDE DEF T, C, s
    <3>3. \A x : x \in ChildrenIn(T, Root) <=> x \in C
      BY <1>2, <2>2, <2>3, <2>4, <2>5, <3>1, <3>2
    <3> QED
      BY <3>3
  <2> HIDE DEF C, T
  <2> QED
    BY <2>1, <2>6, NcaServesRoot
<1>9. Serves(fs, T)
  BY <1>4, <1>6, <1>7, <1>8, AssembledServes
<1> QED
  BY <1>5, <1>9 DEF K, name

-----------------------------------------------------------------------------
(* The contents of a title.                                                *)

LEMMA WrapperAnswers ==
  ASSUME NEW fs, IsWrapper(fs), NEW p, NEW mode
  PROVE  /\ Answered("access", fs, p, mode) = WrapperAccess(fs, p, mode)
         /\ Answered("getAttributes", fs, p, mode) = WrapperAttributes(fs, p)
         /\ Answered("openFile", fs, p, mode) = WrapperOpenFile(fs, p)
         /\ Answered("openDirectory", fs, p, mode) = WrapperOpenDirectory(fs, p)
BY AnsweredBy, AnswersByOperation DEF IsWrapper

\* It denies access to itself.
LEMMA WrapperServesRoot ==
  ASSUME NEW fs, IsWrapper(fs), NEW C, Lists(DirectoryOf(fs, Root), C)
  PROVE  ServesNode(fs, Root, "directory", 0, C)
<1>0. fs.kind = "wrapper"
  BY DEF IsWrapper
<1>1. GetAttributes(fs, Root) = Directory
  <2>1. WrapperAttributes(fs, Root) = Directory
    BY NoNameIs, Zenon DEF WrapperAttributes
  <2>2. Directory.res # "HANDED_ON"
    BY DEF Directory
  <2> QED
    BY <2>1, <2>2, WrapperAnswers, AtOnce
<1>2. OpenDirectory(fs, Root) = DirectoryOf(fs, Root)
  <2>1. WrapperOpenDirectory(fs, Root) = GetRoot(fs)
    BY NoNameIs, Zenon DEF WrapperOpenDirectory
  <2>2. GetRoot(fs) = DirectoryOf(fs, Root)
    BY <1>0 DEF GetRoot
  <2>3. DirectoryOf(fs, Root).res # "HANDED_ON"
    BY DEF DirectoryOf
  <2> QED
    BY <2>1, <2>2, <2>3, WrapperAnswers, AtOnce
<1>3. ASSUME NEW mode PROVE Access(fs, Root, mode) = "NO_FILE"
  <2>1. WrapperAccess(fs, Root, mode) = Result("NO_FILE")
    BY NoNameIs, Zenon DEF WrapperAccess
  <2>2. Result("NO_FILE").res = "NO_FILE"
    BY DEF Result
  <2> QED
    BY <2>1, <2>2, WrapperAnswers, AtOnce
<1>4. OpenDirectory(fs, Root).res = "SUCCESS" /\ OpenDirectory(fs, Root).fs.kind = "wrapper"
  BY <1>0, <1>2, DirectoryFields
<1>5. Directory = [res |-> "SUCCESS", type |-> "directory", size |-> 0]
  BY DEF Directory
<1> QED
  BY <1>1, <1>2, <1>3, <1>4, <1>5 DEF ServesNode

\* What it answers itself about the root of an NCA is what that would answer.
LEMMA WrapperServesBelow ==
  ASSUME NEW fs, IsWrapper(fs), NEW i \in DOMAIN fs.entries,
         NEW T, IsBranch(T), Serves(fs.entries[i].fs, T)
  PROVE  ServesBelow(fs, fs.entries[i].name, T)
<1> DEFINE name == fs.entries[i].name
           child == fs.entries[i].fs
<1>0. AreEntries(fs.entries) /\ name \in Names /\ IsNca(child)
  BY DEF IsWrapper
<1>1. GetEntry(fs.entries, name) = i /\ i # 0
  BY <1>0, GetEntryFinds
<1>2. Deep4(child)
  BY <1>0, NcaIsDeep, Deeper
<1>3. child = fs.entries[i].fs /\ Serves(child, T)
  OBVIOUS
<1> HIDE DEF name, child
<1>4. ASSUME NEW q \in Paths PROVE Transfers(fs, Below(name, q), child, q)
  <2> DEFINE p == Below(name, q)
  <2>1. First(p) = name /\ Rest(p) = q /\ name # NoName
    BY <1>0, FirstRest
  <2> HIDE DEF p
  <2>3. /\ WrapperAttributes(fs, p) = HandOn(child, q)
        /\ WrapperOpenFile(fs, p) = HandOn(child, q)
        /\ q # Root => WrapperOpenDirectory(fs, p) = HandOn(child, q)
        /\ q = Root => WrapperOpenDirectory(fs, p) = GetRoot(child)
    BY <1>1, <1>3, <2>1 DEF WrapperAttributes, WrapperOpenDirectory, WrapperOpenFile
  <2>4. ASSUME NEW mode
        PROVE  /\ q # Root => WrapperAccess(fs, p, mode) = HandOn(child, q)
               /\ q = Root => WrapperAccess(fs, p, mode) = Granted(mode)
    BY <1>1, <1>3, <2>1 DEF WrapperAccess
  <2>5. GetAttributes(fs, p) = GetAttributes(child, q)
    BY <1>2, <2>3, WrapperAnswers, AskHandedOn DEF GetAttributes, Operations
  <2>6. ASSUME NEW mode PROVE OpenFile(fs, p, mode) = OpenFile(child, q, mode)
    BY <1>2, <2>3, WrapperAnswers, AskHandedOn DEF OpenFile, Operations
  <2>7. OpenDirectory(fs, p) = OpenDirectory(child, q)
    <3>1. CASE q # Root
      BY <1>2, <2>3, <3>1, WrapperAnswers, AskHandedOn DEF OpenDirectory, Operations
    <3>2. CASE q = Root
      <4>1. GetRoot(child) = DirectoryOf(child, Root)
        BY <1>0 DEF GetRoot, IsNca
      <4>2. DirectoryOf(child, Root).res # "HANDED_ON"
        BY DEF DirectoryOf
      <4>3. OpenDirectory(fs, p) = DirectoryOf(child, Root)
        BY <2>3, <3>2, <4>1, <4>2, WrapperAnswers, AtOnce
      <4>4. OpenDirectory(child, Root) = DirectoryOf(child, Root)
        BY <1>0, NcaLists, NcaServesRoot
      <4> QED
        BY <3>2, <4>3, <4>4
    <3> QED
      BY <3>1, <3>2
  <2>8. ASSUME NEW mode PROVE Access(fs, p, mode) = Access(child, q, mode)
    <3>1. CASE q # Root
      BY <1>2, <2>4, <3>1, WrapperAnswers, AskHandedOn DEF Access, Operations
    <3>2. CASE q = Root
      <4>1. Access(fs, p, mode) = Granted(mode).res
        BY <2>4, <3>2, GrantedIs, WrapperAnswers, AtOnce
      <4>2. Access(child, Root, mode) = Granted(mode).res
        BY <1>0, NcaLists, NcaServesRoot
      <4> QED
        BY <3>2, <4>1, <4>2
    <3> QED
      BY <3>1, <3>2
  <2>9. Transfers(fs, p, child, q)
    BY <2>5, <2>6, <2>7, <2>8 DEF Transfers
  <2> QED
    BY <2>9 DEF p
<1>5. ServesBelow(fs, name, T)
  BY <1>3, <1>4, TransfersBelow
<1> QED
  BY <1>5 DEF name

LEMMA WrapperMisses ==
  ASSUME NEW fs, IsWrapper(fs), NEW p \in Paths, p # Root,
         \A i \in DOMAIN fs.entries : fs.entries[i].name # First(p)
  PROVE  GetAttributes(fs, p) = NoFile
<1>1. First(p) # NoName
  BY BelowFirst, NoNameIs
<1>2. DOMAIN fs.entries \in SUBSET (Nat \ {0})
  BY EntriesDomain DEF IsWrapper
<1>3. GetEntry(fs.entries, First(p)) = 0
  BY <1>2, GetEntryIs
<1>4. WrapperAttributes(fs, p) = NoFile
  BY <1>1, <1>3, Zenon DEF WrapperAttributes
<1>5. NoFile.res # "HANDED_ON"
  BY DEF NoFile, Failure
<1> QED
  BY <1>4, <1>5, WrapperAnswers, AtOnce

\* A title serves its NCAs, if each of them is served.
LEMMA WrapperServes ==
  ASSUME NEW fs, IsWrapper(fs), NEW part,
         \A i \in DOMAIN fs.entries :
           IsBranch(part[i]) /\ RootNode \in part[i] /\ Serves(fs.entries[i].fs, part[i])
  PROVE  LET T == Assembled(DOMAIN fs.entries, NamesOf(fs.entries), part)
         IN IsBranch(T) /\ RootNode \in T /\ Serves(fs, T)
<1> DEFINE s == fs.entries
           K == DOMAIN s
           name == NamesOf(s)
           T == Assembled(K, name, part)
<1>1. /\ Distinct(s) /\ \A k \in K : name[k] = s[k].name /\ name[k] \in Names
  <2>1. Distinct(s)
    BY EntriesDomain DEF IsWrapper
  <2>2. \A k \in K : s[k].name \in Names
    BY DEF IsWrapper
  <2> HIDE DEF s
  <2> QED
    BY <2>1, <2>2 DEF NamesOf
<1> HIDE DEF name
<1>4. Parts(K, name, part)
  <2>1. \A k \in K : name[k] \in Names /\ IsBranch(part[k])
    BY <1>1
  <2>2. \A j, k \in K : name[j] = name[k] => j = k
    <3> HIDE DEF s
    <3> QED
      BY <1>1, NoNameIs DEF Distinct
  <2> QED
    BY <2>1, <2>2 DEF Parts
<1>5. IsBranch(T) /\ RootNode \in T
  BY <1>4, AssembledIsBranch
<1>6. \A k \in K : ServesBelow(fs, name[k], part[k])
  BY <1>1, WrapperServesBelow
<1>7. ASSUME NEW p \in Paths, p # Root, \A k \in K : name[k] # First(p)
      PROVE  GetAttributes(fs, p) = NoFile
  <2>1. \A i \in K : s[i].name # First(p)
    <3> HIDE DEF s
    <3> QED
      BY <1>1, <1>7
  <2> QED
    BY <1>7, <2>1, WrapperMisses
<1>8. ServesNode(fs, Root, "directory", 0, ChildrenIn(T, Root))
  <2> DEFINE C == {Entry(s[i].name, "directory", 0) : i \in DOMAIN s}
  <2>1. Lists(DirectoryOf(fs, Root), C)
    BY WrapperLists
  <2>2. ASSUME NEW k \in K, NEW n \in part[k], n.path = Root
        PROVE  Entry(name[k], n.type, n.size) = Entry(s[k].name, "directory", 0)
    <3>1. IsBranch(part[k]) /\ RootNode \in part[k]
      OBVIOUS
    <3>2. n = RootNode
      BY <2>2, <3>1, RootNodeIs DEF IsBranch
    <3> HIDE DEF s
    <3> QED
      BY <1>1, <3>2, RootNodeIs
  <2>4. \A k \in K : RootNode \in part[k] /\ RootNode.path = Root
    BY RootNodeIs
  <2>6. ChildrenIn(T, Root) = C
    <3>1. \A x : x \in ChildrenIn(T, Root) <=>
            \E k \in K : \E n \in part[k] : n.path = Root /\ x = Entry(name[k], n.type, n.size)
      <4> HIDE DEF K
      <4> QED
        BY <1>4, ChildrenOfRoot
    <3>2. \A x : x \in C <=> \E k \in K : x = Entry(s[k].name, "directory", 0)
      OBVIOUS
    <3> HIDE DEF T, C, K, s
    <3>3. \A x : x \in ChildrenIn(T, Root) <=> x \in C
      BY <2>2, <2>4, <3>1, <3>2
    <3> QED
      BY <3>3
  <2> HIDE DEF C, T
  <2> QED
    BY <2>1, <2>6, WrapperServesRoot
<1>9. Serves(fs, T)
  <2> HIDE DEF K
  <2> QED
    BY <1>4, <1>6, <1>7, <1>8, AssembledServes
<1> QED
  BY <1>5, <1>9 DEF K, name

-----------------------------------------------------------------------------
(* Entries, and what is made of some of them.                              *)

LEMMA EntryIs ==
  ASSUME NEW name, NEW type, NEW size
  PROVE  /\ Entry(name, type, size).name = name /\ Entry(name, type, size).type = type
         /\ Entry(name, type, size).size = size
         /\ name \in Names /\ type \in {"directory", "file"} /\ size \in Nat =>
              Entry(name, type, size) \in Listed
BY DEF Entry, Listed

\* Entries made of some positions, each once.
Chosen(e, s) == [k \in DOMAIN s |-> e[s[k]]]

LEMMA PicksMade ==
  ASSUME NEW P, NEW s, Picks(s, P), NEW e, \A i \in P : e[i] \in Listed,
         \A i, j \in P : e[i].name = e[j].name => i = j
  PROVE  /\ Chosen(e, s) \in Seq(Listed)
         /\ \A x : (\E k \in DOMAIN Chosen(e, s) : x = Chosen(e, s)[k]) <=> \E i \in P : x = e[i]
         /\ \A j, k \in DOMAIN Chosen(e, s) :
              Chosen(e, s)[j].name = Chosen(e, s)[k].name => j = k
<1> DEFINE E == [k \in DOMAIN s |-> e[s[k]]]
           L == Chosen(e, s)
<1>1. /\ s \in Seq(P) /\ \A k \in DOMAIN s : s[k] \in P
      /\ \A i \in P : \E k \in DOMAIN s : s[k] = i
      /\ \A j, k \in DOMAIN s : s[j] = s[k] => j = k
  BY SeqDomain DEF Picks
<1>2. L = [k \in DOMAIN s |-> E[k]]
  BY DEF Chosen
<1>3. L \in Seq(Listed) /\ DOMAIN L = DOMAIN s
  <2>1. \A k \in DOMAIN s : E[k] \in Listed
    BY <1>1
  <2> HIDE DEF E, L
  <2> QED
    BY <1>1, <1>2, <2>1, MadeIs
<1>4. \A k \in DOMAIN L : L[k] = e[s[k]]
  BY <1>2, <1>3
<1> HIDE DEF L, E
<1>5. \A x : (\E k \in DOMAIN L : x = L[k]) <=> \E i \in P : x = e[i]
  BY <1>1, <1>3, <1>4
<1>6. \A j, k \in DOMAIN L : L[j].name = L[k].name => j = k
  BY <1>1, <1>3, <1>4
<1> QED
  BY <1>3, <1>5, <1>6 DEF L

LEMMA Concatenated ==
  ASSUME NEW D \in Seq(Listed), NEW F \in Seq(Listed),
         \A j, k \in DOMAIN D : D[j].name = D[k].name => j = k,
         \A j, k \in DOMAIN F : F[j].name = F[k].name => j = k,
         \A j \in DOMAIN D, k \in DOMAIN F : D[j].name # F[k].name
  PROVE  /\ D \o F \in Seq(Listed)
         /\ \A x : (\E k \in DOMAIN (D \o F) : x = (D \o F)[k]) <=>
                     (\E k \in DOMAIN D : x = D[k]) \/ (\E k \in DOMAIN F : x = F[k])
         /\ \A j, k \in DOMAIN (D \o F) : (D \o F)[j].name = (D \o F)[k].name => j = k
<1> DEFINE L == D \o F
           n == Len(D)
<1>1. n \in Nat /\ Len(F) \in Nat /\ DOMAIN D = 1 .. n /\ DOMAIN F = 1 .. Len(F)
  OBVIOUS
<1>2. L \in Seq(Listed) /\ DOMAIN L = 1 .. n + Len(F)
  OBVIOUS
<1>3. \A k \in 1 .. n + Len(F) : L[k] = IF k <= n THEN D[k] ELSE F[k - n]
  OBVIOUS
<1> HIDE DEF L, n
<1>4. \A k \in 1 .. n : L[k] = D[k] /\ k \in DOMAIN L
  BY <1>1, <1>2, <1>3
<1>5. \A k \in 1 .. Len(F) : L[k + n] = F[k] /\ k + n \in DOMAIN L
  <2>1. SUFFICES ASSUME NEW k \in 1 .. Len(F) PROVE L[k + n] = F[k] /\ k + n \in DOMAIN L
    OBVIOUS
  <2>2. k + n \in 1 .. n + Len(F) /\ ~ (k + n <= n) /\ (k + n) - n = k
    BY <1>1
  <2> QED
    BY <1>2, <1>3, <2>2
<1>6. \A k \in DOMAIN L : k \in 1 .. n \/ \E i \in 1 .. Len(F) : k = i + n
  <2>1. SUFFICES ASSUME NEW k \in DOMAIN L, k \notin 1 .. n PROVE \E i \in 1 .. Len(F) : k = i + n
    OBVIOUS
  <2>2. k - n \in 1 .. Len(F) /\ k = (k - n) + n
    BY <1>1, <1>2, <2>1
  <2> QED
    BY <2>2
<1>7. \A x : (\E k \in DOMAIN L : x = L[k]) <=>
               (\E k \in DOMAIN D : x = D[k]) \/ (\E k \in DOMAIN F : x = F[k])
  BY <1>1, <1>4, <1>5, <1>6
<1>8. \A j, k \in DOMAIN L : L[j].name = L[k].name => j = k
  <2>1. SUFFICES ASSUME NEW j \in DOMAIN L, NEW k \in DOMAIN L, L[j].name = L[k].name PROVE j = k
    OBVIOUS
  <2>2. CASE j \in 1 .. n /\ k \in 1 .. n
    BY <1>1, <1>4, <2>1, <2>2
  <2>3. CASE j \in 1 .. n /\ k \notin 1 .. n
    BY <1>1, <1>4, <1>5, <1>6, <2>1, <2>3
  <2>4. CASE j \notin 1 .. n /\ k \in 1 .. n
    BY <1>1, <1>4, <1>5, <1>6, <2>1, <2>4
  <2>5. CASE j \notin 1 .. n /\ k \notin 1 .. n
    BY <1>1, <1>5, <1>6, <2>1, <2>5
  <2> QED
    BY <2>2, <2>3, <2>4, <2>5
<1> QED
  BY <1>2, <1>7, <1>8 DEF L

-----------------------------------------------------------------------------
(* A RomFS.                                                                *)

LEMMA RomNodes ==
  ASSUME NEW fs, NEW n
  PROVE  n \in RomContents(fs) <=>
           \/ n = RootNode
           \/ \E i \in DOMAIN fs.dirs : n = Node(fs.dirs[i], "directory", 0)
           \/ \E i \in DOMAIN fs.files : n = Node(fs.files[i].path, "file", fs.files[i].size)
BY DEF RomContents

LEMMA RomIs ==
  ASSUME NEW fs, IsRom(fs)
  PROVE  /\ fs.kind = "romfs"
         /\ Len(fs.dirs) \in Nat /\ DOMAIN fs.dirs = 1 .. Len(fs.dirs)
         /\ Len(fs.files) \in Nat /\ DOMAIN fs.files = 1 .. Len(fs.files)
         /\ \A i \in DOMAIN fs.dirs :
              /\ fs.dirs[i] \in Paths /\ fs.dirs[i] # Root
              /\ \/ Parent(fs.dirs[i]) = Root
                 \/ \E j \in DOMAIN fs.dirs : fs.dirs[j] = Parent(fs.dirs[i])
         /\ \A i \in DOMAIN fs.files :
              /\ fs.files[i].path \in Paths /\ fs.files[i].path # Root /\ fs.files[i].size \in Nat
              /\ \/ Parent(fs.files[i].path) = Root
                 \/ \E j \in DOMAIN fs.dirs : fs.dirs[j] = Parent(fs.files[i].path)
         /\ \A i, j \in DOMAIN fs.dirs : fs.dirs[i] = fs.dirs[j] => i = j
         /\ \A i, j \in DOMAIN fs.files : fs.files[i].path = fs.files[j].path => i = j
         /\ \A i \in DOMAIN fs.dirs, j \in DOMAIN fs.files : fs.dirs[i] # fs.files[j].path
<1> DEFINE d == fs.dirs
           f == fs.files
           All == {d[i] : i \in DOMAIN d} \cup {f[i].path : i \in DOMAIN f}
<1>1. /\ fs.kind = "romfs" /\ d \in Seq(Paths) /\ f \in Seq([path : Paths, size : Nat])
      /\ \A i, j \in DOMAIN d : d[i] = d[j] => i = j
      /\ \A i, j \in DOMAIN f : f[i].path = f[j].path => i = j
      /\ \A i \in DOMAIN d, j \in DOMAIN f : d[i] # f[j].path
      /\ \A p \in All : p # Root /\ (Parent(p) = Root \/ \E i \in DOMAIN d : d[i] = Parent(p))
  BY Zenon DEF IsRom
<1>2. \A i \in DOMAIN d : d[i] \in All
  OBVIOUS
<1>3. \A i \in DOMAIN f : f[i].path \in All
  OBVIOUS
<1> HIDE DEF All, d, f
<1>4. \A i \in DOMAIN d : d[i] \in Paths
  BY <1>1, SeqDomain
<1>5. \A i \in DOMAIN f : f[i] \in [path : Paths, size : Nat]
  BY <1>1, SeqDomain
<1>6. /\ Len(d) \in Nat /\ DOMAIN d = 1 .. Len(d) /\ Len(f) \in Nat /\ DOMAIN f = 1 .. Len(f)
  BY <1>1, SeqDomain
<1>7. \A i \in DOMAIN f : f[i].path \in Paths /\ f[i].size \in Nat
  BY <1>5
<1> QED
  BY <1>1, <1>2, <1>3, <1>4, <1>6, <1>7 DEF d, f

LEMMA RomIsBranch ==
  ASSUME NEW fs, IsRom(fs)
  PROVE  IsBranch(RomContents(fs)) /\ RootNode \in RomContents(fs)
<1> DEFINE T == RomContents(fs)
           D(n, i) == n = Node(fs.dirs[i], "directory", 0)
           F(n, i) == n = Node(fs.files[i].path, "file", fs.files[i].size)
<1>1. \A n : n \in T <=> n = RootNode \/ (\E i \in DOMAIN fs.dirs : D(n, i))
                                      \/ \E i \in DOMAIN fs.files : F(n, i)
  BY RomNodes
<1>2. \A n, i : D(n, i) => n.path = fs.dirs[i] /\ n.type = "directory" /\ n.size = 0
  BY NodeFields
<1>3. \A n, i : F(n, i) => n.path = fs.files[i].path /\ n.type = "file" /\ n.size = fs.files[i].size
  BY NodeFields
<1> HIDE DEF T
<1>4. \A n \in T : IsNode(n)
  <2>1. SUFFICES ASSUME NEW n \in T PROVE IsNode(n)
    OBVIOUS
  <2>2. CASE n = RootNode
    BY <2>2, RootNodeIs
  <2>3. ASSUME NEW i \in DOMAIN fs.dirs, D(n, i) PROVE IsNode(n)
    <3>1. n.path = fs.dirs[i] /\ n.type = "directory" /\ n.size = 0 /\ fs.dirs[i] \in Paths
      BY <1>2, <2>3, RomIs
    <3>2. n = Node(n.path, n.type, n.size)
      BY <2>3, <3>1
    <3> QED
      BY <3>1, <3>2 DEF IsNode
  <2>4. ASSUME NEW i \in DOMAIN fs.files, F(n, i) PROVE IsNode(n)
    <3>1. n.path = fs.files[i].path /\ n.type = "file" /\ n.size = fs.files[i].size
          /\ fs.files[i].path \in Paths /\ fs.files[i].size \in Nat
      BY <1>3, <2>4, RomIs
    <3>2. n = Node(n.path, n.type, n.size)
      BY <2>4, <3>1
    <3> QED
      BY <3>1, <3>2 DEF IsNode
  <2> QED
    BY <1>1, <2>2, <2>3, <2>4
<1>5. RootNode \in T
  BY <1>1
<1>6. \A m, n \in T : m.path = n.path => m = n
  <2>1. SUFFICES ASSUME NEW m \in T, NEW n \in T, m.path = n.path PROVE m = n
    OBVIOUS
  <2>2. CASE m = RootNode
    <3>1. n.path = Root
      BY <2>1, <2>2, RootNodeIs
    <3>2. \A i \in DOMAIN fs.dirs : ~ D(n, i)
      <4> HIDE DEF D, F
      <4> QED
        BY <1>2, <3>1, RomIs
    <3>3. \A i \in DOMAIN fs.files : ~ F(n, i)
      <4> HIDE DEF D, F
      <4> QED
        BY <1>3, <3>1, RomIs
    <3> HIDE DEF D, F
    <3> QED
      BY <1>1, <2>2, <3>2, <3>3
  <2>3. ASSUME NEW i \in DOMAIN fs.dirs, D(m, i) PROVE m = n
    <3>1. n.path = fs.dirs[i]
      BY <1>2, <2>1, <2>3
    <3>2. n # RootNode
      BY <3>1, RomIs, RootNodeIs
    <3>3. \A j \in DOMAIN fs.files : ~ F(n, j)
      <4> HIDE DEF D, F
      <4> QED
        BY <1>3, <3>1, RomIs
    <3>4. \A j \in DOMAIN fs.dirs : D(n, j) => j = i
      <4> HIDE DEF D, F
      <4> QED
        BY <1>2, <3>1, RomIs
    <3>5. D(n, i)
      <4> HIDE DEF D, F
      <4> QED
        BY <1>1, <3>2, <3>3, <3>4
    <3> QED
      BY <2>3, <3>5
  <2>4. ASSUME NEW i \in DOMAIN fs.files, F(m, i) PROVE m = n
    <3>1. n.path = fs.files[i].path
      BY <1>3, <2>1, <2>4
    <3>2. n # RootNode
      BY <3>1, RomIs, RootNodeIs
    <3>3. \A j \in DOMAIN fs.dirs : ~ D(n, j)
      <4> HIDE DEF D, F
      <4> QED
        BY <1>2, <3>1, RomIs
    <3>4. \A j \in DOMAIN fs.files : F(n, j) => j = i
      <4> HIDE DEF D, F
      <4> QED
        BY <1>3, <3>1, RomIs
    <3>5. F(n, i)
      <4> HIDE DEF D, F
      <4> QED
        BY <1>1, <3>2, <3>3, <3>4
    <3> QED
      BY <2>4, <3>5
  <2> HIDE DEF D, F
  <2> QED
    BY <1>1, <2>2, <2>3, <2>4
<1>7. \A j \in DOMAIN fs.dirs : \E d \in T : d.path = fs.dirs[j] /\ d.type = "directory"
  BY <1>1, <1>2
<1>8. \A n \in T : n.path # Root => \E d \in T : d.path = Parent(n.path) /\ d.type = "directory"
  <2>1. SUFFICES ASSUME NEW n \in T, n.path # Root
                 PROVE  \E d \in T : d.path = Parent(n.path) /\ d.type = "directory"
    OBVIOUS
  <2>2. Parent(n.path) = Root \/ \E j \in DOMAIN fs.dirs : fs.dirs[j] = Parent(n.path)
    <3> HIDE DEF D, F
    <3> QED
      BY <1>1, <1>2, <1>3, <2>1, RomIs, RootNodeIs
  <2> QED
    BY <1>5, <1>7, <2>2, RootNodeIs
<1>9. IsBranch(T)
  BY <1>4, <1>5, <1>6, <1>8, RootNodeIs DEF IsBranch
<1> QED
  BY <1>5, <1>9 DEF T

LEMMA RomFileIs ==
  ASSUME NEW fs, IsRom(fs), NEW p
  PROVE  /\ \A i \in DOMAIN fs.files : fs.files[i].path = p => RomFile(fs, p) = i /\ i # 0
         /\ (\A i \in DOMAIN fs.files : fs.files[i].path # p) => RomFile(fs, p) = 0
<1> DEFINE P == {i \in DOMAIN fs.files : fs.files[i].path = p}
<1>1. P \in SUBSET (Nat \ {0})
  BY RomIs
<1>2. RomFile(fs, p) = FirstOf(P)
  BY Zenon DEF RomFile
<1>3. (FirstOf(P) = 0 <=> P = {}) /\ (P # {} => FirstOf(P) \in P)
  <2> HIDE DEF P
  <2> QED
    BY <1>1, FirstOfIs
<1>4. \A i, j \in P : i = j
  BY RomIs
<1> QED
  BY <1>1, <1>2, <1>3, <1>4

\* The entries for the directories and files of a RomFS, and which of them are listed.
DirEntries(fs) == [i \in DOMAIN fs.dirs |-> Entry(LastName(fs.dirs[i]), "directory", 0)]
FileEntries(fs) ==
  [i \in DOMAIN fs.files |-> Entry(LastName(fs.files[i].path), "file", fs.files[i].size)]
DirsBelow(fs, p) == {i \in DOMAIN fs.dirs : fs.dirs[i] # Root /\ Parent(fs.dirs[i]) = p}
FilesBelow(fs, p) ==
  {i \in DOMAIN fs.files : fs.files[i].path # Root /\ Parent(fs.files[i].path) = p}

LEMMA RomChildrenAre ==
  ASSUME NEW fs, IsRom(fs), NEW p
  PROVE  /\ Picks(InOrder(Len(fs.dirs), DirsBelow(fs, p)), DirsBelow(fs, p))
         /\ Picks(InOrder(Len(fs.files), FilesBelow(fs, p)), FilesBelow(fs, p))
         /\ RomChildren(fs, p) =
              Chosen(DirEntries(fs), InOrder(Len(fs.dirs), DirsBelow(fs, p)))
              \o Chosen(FileEntries(fs), InOrder(Len(fs.files), FilesBelow(fs, p)))
<1> DEFINE d == InOrder(Len(fs.dirs), DirsBelow(fs, p))
           f == InOrder(Len(fs.files), FilesBelow(fs, p))
           D == [k \in DOMAIN d |-> Entry(LastName(fs.dirs[d[k]]), "directory", 0)]
           F == [k \in DOMAIN f |-> Entry(LastName(fs.files[f[k]].path), "file", fs.files[f[k]].size)]
<1>1. Picks(d, DirsBelow(fs, p))
  <2>1. DirsBelow(fs, p) \in SUBSET (1 .. Len(fs.dirs)) /\ Len(fs.dirs) \in Nat
    BY RomIs DEF DirsBelow
  <2> QED
    BY <2>1, InOrderPicks
<1>2. Picks(f, FilesBelow(fs, p))
  <2>1. FilesBelow(fs, p) \in SUBSET (1 .. Len(fs.files)) /\ Len(fs.files) \in Nat
    BY RomIs DEF FilesBelow
  <2> QED
    BY <2>1, InOrderPicks
<1>3. RomChildren(fs, p) = D \o F
  BY Zenon DEF RomChildren, DirsBelow, FilesBelow
<1> HIDE DEF d, f
<1>4. D = Chosen(DirEntries(fs), d)
  <2>1. \A k \in DOMAIN d : d[k] \in DOMAIN fs.dirs
    <3>1. \A k \in DOMAIN d : d[k] \in DirsBelow(fs, p)
      BY <1>1, SeqDomain DEF Picks
    <3> QED
      BY <3>1 DEF DirsBelow
  <2>2. \A k \in DOMAIN d : DirEntries(fs)[d[k]] = Entry(LastName(fs.dirs[d[k]]), "directory", 0)
    BY <2>1 DEF DirEntries
  <2> QED
    BY <2>2 DEF Chosen
<1>5. F = Chosen(FileEntries(fs), f)
  <2>1. \A k \in DOMAIN f : f[k] \in DOMAIN fs.files
    <3>1. \A k \in DOMAIN f : f[k] \in FilesBelow(fs, p)
      BY <1>2, SeqDomain DEF Picks
    <3> QED
      BY <3>1 DEF FilesBelow
  <2>2. \A k \in DOMAIN f : FileEntries(fs)[f[k]] =
          Entry(LastName(fs.files[f[k]].path), "file", fs.files[f[k]].size)
    BY <2>1 DEF FileEntries
  <2> QED
    BY <2>2 DEF Chosen
<1> HIDE DEF D, F
<1>6. RomChildren(fs, p) = Chosen(DirEntries(fs), d) \o Chosen(FileEntries(fs), f)
  BY <1>3, <1>4, <1>5
<1> QED
  BY <1>1, <1>2, <1>6 DEF d, f

\* What is listed of a directory are its children, each once.
LEMMA RomLists ==
  ASSUME NEW fs, IsRom(fs), NEW p
  PROVE  Lists(DirectoryOf(fs, p), ChildrenIn(RomContents(fs), p))
<1> DEFINE PD == DirsBelow(fs, p)
           PF == FilesBelow(fs, p)
           de == DirEntries(fs)
           fe == FileEntries(fs)
           D == Chosen(de, InOrder(Len(fs.dirs), PD))
           F == Chosen(fe, InOrder(Len(fs.files), PF))
           L == D \o F
           dir == DirectoryOf(fs, p)
           C == ChildrenIn(RomContents(fs), p)
<1>1. \A q \in Paths : q # Root =>
        LastName(q) \in Names /\ (Parent(q) = p => q = Append(p, LastName(q)))
  BY ParentLast
<1>2. ASSUME NEW i \in PD
      PROVE  /\ i \in DOMAIN fs.dirs /\ fs.dirs[i] # Root
             /\ fs.dirs[i] = Append(p, LastName(fs.dirs[i])) /\ LastName(fs.dirs[i]) \in Names
             /\ de[i] = Entry(LastName(fs.dirs[i]), "directory", 0)
  <2>1. i \in DOMAIN fs.dirs /\ fs.dirs[i] # Root /\ Parent(fs.dirs[i]) = p
    BY DEF DirsBelow
  <2>2. fs.dirs[i] \in Paths
    BY <2>1, RomIs
  <2>3. de[i] = Entry(LastName(fs.dirs[i]), "directory", 0)
    BY <2>1 DEF DirEntries
  <2> HIDE DEF PD, de
  <2> QED
    BY <1>1, <2>1, <2>2, <2>3
<1>3. ASSUME NEW i \in PF
      PROVE  /\ i \in DOMAIN fs.files /\ fs.files[i].path # Root /\ fs.files[i].size \in Nat
             /\ fs.files[i].path = Append(p, LastName(fs.files[i].path))
             /\ LastName(fs.files[i].path) \in Names
             /\ fe[i] = Entry(LastName(fs.files[i].path), "file", fs.files[i].size)
  <2>1. i \in DOMAIN fs.files /\ fs.files[i].path # Root /\ Parent(fs.files[i].path) = p
    BY DEF FilesBelow
  <2>2. fs.files[i].path \in Paths /\ fs.files[i].size \in Nat
    BY <2>1, RomIs
  <2>3. fe[i] = Entry(LastName(fs.files[i].path), "file", fs.files[i].size)
    BY <2>1 DEF FileEntries
  <2> HIDE DEF PF, fe
  <2> QED
    BY <1>1, <2>1, <2>2, <2>3
<1>4. Picks(InOrder(Len(fs.dirs), PD), PD) /\ Picks(InOrder(Len(fs.files), PF), PF)
      /\ RomChildren(fs, p) = L
  BY RomChildrenAre
<1>5. PD \subseteq DOMAIN fs.dirs /\ PF \subseteq DOMAIN fs.files
  BY DEF DirsBelow, FilesBelow
<1> HIDE DEF PD, PF, de, fe
<1>6. \A i \in PD : /\ de[i] \in Listed /\ de[i].name = LastName(fs.dirs[i])
                    /\ ShownEntry(de[i]) = de[i]
  <2>1. SUFFICES ASSUME NEW i \in PD
                 PROVE  /\ de[i] \in Listed /\ de[i].name = LastName(fs.dirs[i])
                        /\ ShownEntry(de[i]) = de[i]
    OBVIOUS
  <2>2. de[i] = Entry(LastName(fs.dirs[i]), "directory", 0) /\ LastName(fs.dirs[i]) \in Names
    BY <1>2
  <2> QED
    BY <2>2, EntryIs DEF ShownEntry
<1>7. \A i \in PF : /\ fe[i] \in Listed /\ fe[i].name = LastName(fs.files[i].path)
                    /\ ShownEntry(fe[i]) = fe[i]
  <2>1. SUFFICES ASSUME NEW i \in PF
                 PROVE  /\ fe[i] \in Listed /\ fe[i].name = LastName(fs.files[i].path)
                        /\ ShownEntry(fe[i]) = fe[i]
    OBVIOUS
  <2>2. /\ fe[i] = Entry(LastName(fs.files[i].path), "file", fs.files[i].size)
        /\ LastName(fs.files[i].path) \in Names /\ fs.files[i].size \in Nat
    BY <1>3
  <2> QED
    BY <2>2, EntryIs DEF ShownEntry
<1>8. \A i, j \in PD : de[i].name = de[j].name => i = j
  <2>1. \A i, j \in PD : de[i].name = de[j].name => fs.dirs[i] = fs.dirs[j]
    BY <1>2, <1>6
  <2> QED
    BY <1>5, <2>1, RomIs
<1>9. \A i, j \in PF : fe[i].name = fe[j].name => i = j
  <2>1. \A i, j \in PF : fe[i].name = fe[j].name => fs.files[i].path = fs.files[j].path
    BY <1>3, <1>7
  <2> QED
    BY <1>5, <2>1, RomIs
<1>10. \A i \in PD, j \in PF : de[i].name # fe[j].name
  <2>1. \A i \in PD, j \in PF : de[i].name = fe[j].name => fs.dirs[i] = fs.files[j].path
    BY <1>2, <1>3, <1>6, <1>7
  <2> QED
    BY <1>5, <2>1, RomIs
<1>11. /\ D \in Seq(Listed) /\ \A x : (\E k \in DOMAIN D : x = D[k]) <=> \E i \in PD : x = de[i]
       /\ \A j, k \in DOMAIN D : D[j].name = D[k].name => j = k
  <2> DEFINE s == InOrder(Len(fs.dirs), PD)
  <2>1. Picks(s, PD) /\ \A i \in PD : de[i] \in Listed
    BY <1>4, <1>6
  <2> HIDE DEF s
  <2>2. /\ Chosen(de, s) \in Seq(Listed)
        /\ \A x : (\E k \in DOMAIN Chosen(de, s) : x = Chosen(de, s)[k]) <=> \E i \in PD : x = de[i]
        /\ \A j, k \in DOMAIN Chosen(de, s) :
             Chosen(de, s)[j].name = Chosen(de, s)[k].name => j = k
    BY <1>8, <2>1, PicksMade
  <2> QED
    BY <2>2 DEF s
<1>12. /\ F \in Seq(Listed) /\ \A x : (\E k \in DOMAIN F : x = F[k]) <=> \E i \in PF : x = fe[i]
       /\ \A j, k \in DOMAIN F : F[j].name = F[k].name => j = k
  <2> DEFINE s == InOrder(Len(fs.files), PF)
  <2>1. Picks(s, PF) /\ \A i \in PF : fe[i] \in Listed
    BY <1>4, <1>7
  <2> HIDE DEF s
  <2>2. /\ Chosen(fe, s) \in Seq(Listed)
        /\ \A x : (\E k \in DOMAIN Chosen(fe, s) : x = Chosen(fe, s)[k]) <=> \E i \in PF : x = fe[i]
        /\ \A j, k \in DOMAIN Chosen(fe, s) :
             Chosen(fe, s)[j].name = Chosen(fe, s)[k].name => j = k
    BY <1>9, <2>1, PicksMade
  <2> QED
    BY <2>2 DEF s
<1> HIDE DEF D, F
<1>13. \A j \in DOMAIN D, k \in DOMAIN F : D[j].name # F[k].name
  <2>1. \A j \in DOMAIN D : \E i \in PD : D[j] = de[i]
    BY <1>11
  <2>2. \A k \in DOMAIN F : \E i \in PF : F[k] = fe[i]
    BY <1>12
  <2> QED
    BY <1>10, <2>1, <2>2
<1>14. /\ L \in Seq(Listed)
       /\ \A x : (\E k \in DOMAIN L : x = L[k]) <=>
                   (\E k \in DOMAIN D : x = D[k]) \/ (\E k \in DOMAIN F : x = F[k])
       /\ \A j, k \in DOMAIN L : L[j].name = L[k].name => j = k
  BY <1>11, <1>12, <1>13, Concatenated
<1> HIDE DEF L
<1>15. \A x : (\E k \in DOMAIN L : x = L[k]) <=> (\E i \in PD : x = de[i]) \/ (\E i \in PF : x = fe[i])
  <2>1. \A x : (\E k \in DOMAIN D : x = D[k]) <=> \E i \in PD : x = de[i]
    BY <1>11
  <2>2. \A x : (\E k \in DOMAIN F : x = F[k]) <=> \E i \in PF : x = fe[i]
    BY <1>12
  <2>3. \A x : (\E k \in DOMAIN L : x = L[k]) <=>
                   (\E k \in DOMAIN D : x = D[k]) \/ (\E k \in DOMAIN F : x = F[k])
    BY <1>14
  <2> QED
    BY <2>1, <2>2, <2>3, Zenon
<1>16. \A k \in DOMAIN L : ShownEntry(L[k]) = L[k]
  BY <1>6, <1>7, <1>15
<1>17. \A x : x \in C <=> (\E i \in PD : x = de[i]) \/ (\E i \in PF : x = fe[i])
  <2> DEFINE T == RomContents(fs)
  <2>1. \A x : x \in C <=> \E n \in T : n.path # Root /\ Parent(n.path) = p
                                        /\ x = Entry(LastName(n.path), n.type, n.size)
    BY DEF ChildrenIn
  <2>2. /\ \A i \in DOMAIN fs.dirs : Node(fs.dirs[i], "directory", 0) \in T
        /\ \A i \in DOMAIN fs.files : Node(fs.files[i].path, "file", fs.files[i].size) \in T
    BY RomNodes
  <2>3. \A i : i \in PD <=> i \in DOMAIN fs.dirs /\ fs.dirs[i] # Root /\ Parent(fs.dirs[i]) = p
    BY DEF PD, DirsBelow
  <2>4. \A i : i \in PF <=>
          i \in DOMAIN fs.files /\ fs.files[i].path # Root /\ Parent(fs.files[i].path) = p
    BY DEF PF, FilesBelow
  <2>5. ASSUME NEW i \in PD PROVE de[i] \in C
    <3> DEFINE n == Node(fs.dirs[i], "directory", 0)
    <3>1. n \in T /\ n.path = fs.dirs[i] /\ n.type = "directory" /\ n.size = 0
      BY <2>2, <2>3, NodeFields
    <3> HIDE DEF n, C, T
    <3> QED
      BY <1>2, <2>1, <2>3, <3>1
  <2>6. ASSUME NEW i \in PF PROVE fe[i] \in C
    <3> DEFINE n == Node(fs.files[i].path, "file", fs.files[i].size)
    <3>1. n \in T /\ n.path = fs.files[i].path /\ n.type = "file" /\ n.size = fs.files[i].size
      BY <2>2, <2>4, NodeFields
    <3> HIDE DEF n, C, T
    <3> QED
      BY <1>3, <2>1, <2>4, <3>1
  <2>7. ASSUME NEW x \in C PROVE (\E i \in PD : x = de[i]) \/ (\E i \in PF : x = fe[i])
    <3>1. PICK n \in T : n.path # Root /\ Parent(n.path) = p
                         /\ x = Entry(LastName(n.path), n.type, n.size)
      BY <2>1
    <3>2. n # RootNode
      BY <3>1, RootNodeIs
    <3>3. CASE \E i \in DOMAIN fs.dirs : n = Node(fs.dirs[i], "directory", 0)
      <4>1. PICK i \in DOMAIN fs.dirs : n = Node(fs.dirs[i], "directory", 0)
        BY <3>3
      <4>2. n.path = fs.dirs[i] /\ n.type = "directory" /\ n.size = 0
        BY <4>1, NodeFields
      <4>3. i \in PD
        BY <2>3, <3>1, <4>2
      <4> QED
        BY <1>2, <3>1, <4>2, <4>3
    <3>4. CASE \E i \in DOMAIN fs.files : n = Node(fs.files[i].path, "file", fs.files[i].size)
      <4>1. PICK i \in DOMAIN fs.files : n = Node(fs.files[i].path, "file", fs.files[i].size)
        BY <3>4
      <4>2. n.path = fs.files[i].path /\ n.type = "file" /\ n.size = fs.files[i].size
        BY <4>1, NodeFields
      <4>3. i \in PF
        BY <2>4, <3>1, <4>2
      <4> QED
        BY <1>3, <3>1, <4>2, <4>3
    <3> QED
      BY <3>2, <3>3, <3>4, RomNodes
  <2> HIDE DEF C
  <2> QED
    BY <2>5, <2>6, <2>7
<1> HIDE DEF C
<1>18. {ShownEntry(L[k]) : k \in DOMAIN L} = C
  BY <1>15, <1>16, <1>17
<1>19. dir.fs.kind = "romfs" /\ RomChildren(dir.fs, dir.path) = L
  BY <1>4, RomIs, DirectoryFields
<1>20. ReadEntries(dir, GetCount(dir), 0) = L
  <2>1. GetCount(dir) = Len(L)
    BY <1>19 DEF GetCount
  <2>2. ReadEntries(dir, Len(L), 0) = Window(L, Len(L), 0)
    BY <1>19 DEF ReadEntries
  <2>3. Len(L) \in Nat
    BY <1>14
  <2> QED
    BY <1>14, <2>1, <2>2, <2>3, WindowIs
<1>21. Lists(dir, C)
  <2> HIDE DEF dir
  <2> QED
    BY <1>14, <1>18, <1>19, <1>20, ListsIf
<1> QED
  BY <1>21 DEF C

LEMMA RomAnswers ==
  ASSUME NEW fs, IsRom(fs), NEW p
  PROVE  /\ GetAttributes(fs, p) = RomAttributes(fs, p)
         /\ OpenDirectory(fs, p) = RomOpenDirectory(fs, p)
         /\ \A mode : OpenFile(fs, p, mode) = RomOpenFile(fs, p, mode)
         /\ \A mode : Access(fs, p, mode) = RomAccess(fs, p, mode).res
<1>0. fs.kind = "romfs"
  BY RomIs
<1>1. /\ Answered("getAttributes", fs, p, Read) = RomAttributes(fs, p)
      /\ Answered("openDirectory", fs, p, Read) = RomOpenDirectory(fs, p)
      /\ \A mode : Answered("openFile", fs, p, mode) = RomOpenFile(fs, p, mode)
      /\ \A mode : Answered("access", fs, p, mode) = RomAccess(fs, p, mode)
  BY <1>0, AnsweredBy, AnswersByOperation
<1>2. \A op \in Operations : \A mode : Answered(op, fs, p, mode).res # "HANDED_ON"
  BY <1>0, AnsweredBy, RomHandsOn
<1> QED
  BY <1>1, <1>2, AtOnce DEF Operations

\* A RomFS serves the tree that its tables describe.
LEMMA RomServes ==
  ASSUME NEW fs, IsRom(fs)
  PROVE  Serves(fs, RomContents(fs))
<1> DEFINE T == RomContents(fs)
<1>0. fs.kind = "romfs"
  BY RomIs
<1>1. Directory = [res |-> "SUCCESS", type |-> "directory", size |-> 0]
      /\ NoDirectory.fs.kind # "wrapper"
      /\ \A s : File(s) = [res |-> "SUCCESS", type |-> "file", size |-> s]
      /\ Failure("PERMISSION_ERROR").res # "SUCCESS"
  BY DEF Directory, NoDirectory, NoFs, File, Failure
<1>2. ASSUME NEW p, p = Root \/ \E i \in DOMAIN fs.dirs : fs.dirs[i] = p
      PROVE  ServesNode(fs, p, "directory", 0, ChildrenIn(T, p))
  <2>1. OpenDirectory(fs, p) = DirectoryOf(fs, p)
    <3>1. GetRoot(fs) = DirectoryOf(fs, Root)
      BY <1>0 DEF GetRoot
    <3>2. RomOpenDirectory(fs, p) = DirectoryOf(fs, p)
      BY <1>2, <3>1 DEF RomOpenDirectory
    <3> QED
      BY <3>2, RomAnswers
  <2>2. \A i \in DOMAIN fs.files : fs.files[i].path # p
    BY <1>2, RomIs
  <2>3. RomFile(fs, p) = 0
    BY <2>2, RomFileIs
  <2>4. p = Root \/ InRom(fs, p)
    BY <1>2 DEF InRom
  <2>5. GetAttributes(fs, p) = Directory
    <3>1. RomAttributes(fs, p) = Directory
      BY <2>3, <2>4, Zenon DEF RomAttributes
    <3> QED
      BY <3>1, RomAnswers
  <2>6. ASSUME NEW mode PROVE Access(fs, p, mode) = Granted(mode).res
    <3>1. RomAccess(fs, p, mode) = Granted(mode)
      BY <2>4, Zenon DEF RomAccess
    <3> QED
      BY <3>1, RomAnswers
  <2>7. OpenDirectory(fs, p).res = "SUCCESS" /\ OpenDirectory(fs, p).fs.kind # "wrapper"
    BY <1>0, <2>1, DirectoryFields
  <2>8. Lists(DirectoryOf(fs, p), ChildrenIn(T, p))
    BY RomLists
  <2> HIDE DEF T
  <2> QED
    BY <1>1, <2>1, <2>5, <2>6, <2>7, <2>8, GrantedIs DEF ServesNode
<1>3. ASSUME NEW i \in DOMAIN fs.files, NEW C
      PROVE  ServesNode(fs, fs.files[i].path, "file", fs.files[i].size, C)
  <2> DEFINE p == fs.files[i].path
  <2>1. RomFile(fs, p) = i /\ i # 0
    BY RomFileIs
  <2>2. p # Root /\ \A j \in DOMAIN fs.dirs : fs.dirs[j] # p
    BY RomIs
  <2>3. InRom(fs, p)
    BY DEF InRom
  <2>4. p = fs.files[i].path
    OBVIOUS
  <2> HIDE DEF p
  <2>5. GetAttributes(fs, p) = File(fs.files[i].size)
    <3>1. RomAttributes(fs, p) = File(fs.files[i].size)
      BY <2>1, <2>2, Zenon DEF RomAttributes
    <3> QED
      BY <3>1, RomAnswers
  <2>6. ASSUME NEW mode
        PROVE  /\ mode = Read => OpenFile(fs, p, mode) = File(fs.files[i].size)
               /\ mode # Read => OpenFile(fs, p, mode) = Failure("PERMISSION_ERROR")
    <3>1. OpenFile(fs, p, mode) = RomOpenFile(fs, p, mode)
      BY RomAnswers
    <3> QED
      BY <2>1, <3>1 DEF RomOpenFile
  <2>7. OpenDirectory(fs, p) = NoDirectory
    <3>1. RomOpenDirectory(fs, p) = NoDirectory
      BY <2>2, Zenon DEF RomOpenDirectory
    <3> QED
      BY <3>1, RomAnswers
  <2>8. ASSUME NEW mode PROVE Access(fs, p, mode) = Granted(mode).res
    <3>1. RomAccess(fs, p, mode) = Granted(mode)
      BY <2>3, Zenon DEF RomAccess
    <3> QED
      BY <3>1, RomAnswers
  <2>9. ServesNode(fs, p, "file", fs.files[i].size, C)
    BY <1>1, <2>5, <2>6, <2>7, <2>8, GrantedIs DEF ServesNode
  <2> QED
    BY <2>9 DEF p
<1>4. ASSUME NEW n \in T
      PROVE  ServesNode(fs, n.path, n.type, n.size, ChildrenIn(T, n.path))
  <2>1. CASE n = RootNode
    BY <1>2, <2>1, RootNodeIs
  <2>2. ASSUME NEW i \in DOMAIN fs.dirs, n = Node(fs.dirs[i], "directory", 0)
        PROVE  ServesNode(fs, n.path, n.type, n.size, ChildrenIn(T, n.path))
    <3>1. n.path = fs.dirs[i] /\ n.type = "directory" /\ n.size = 0
      BY <2>2, NodeFields
    <3> QED
      BY <1>2, <3>1
  <2>3. ASSUME NEW i \in DOMAIN fs.files, n = Node(fs.files[i].path, "file", fs.files[i].size)
        PROVE  ServesNode(fs, n.path, n.type, n.size, ChildrenIn(T, n.path))
    <3>1. n.path = fs.files[i].path /\ n.type = "file" /\ n.size = fs.files[i].size
      BY <2>3, NodeFields
    <3> QED
      BY <1>3, <3>1
  <2> QED
    BY <2>1, <2>2, <2>3, RomNodes
<1>5. ASSUME NEW p \in Paths, \A n \in T : n.path # p
      PROVE  GetAttributes(fs, p) = NoFile
  <2>1. p # Root
    BY <1>5, RomNodes, RootNodeIs
  <2>2. \A i \in DOMAIN fs.dirs : fs.dirs[i] # p
    BY <1>5, RomNodes, NodeFields
  <2>3. \A i \in DOMAIN fs.files : fs.files[i].path # p
    BY <1>5, RomNodes, NodeFields
  <2>4. RomFile(fs, p) = 0
    BY <2>3, RomFileIs
  <2>5. ~ InRom(fs, p)
    BY <2>2, <2>3 DEF InRom
  <2>6. RomAttributes(fs, p) = NoFile
    BY <2>1, <2>4, <2>5, Zenon DEF RomAttributes
  <2> QED
    BY <2>6, RomAnswers
<1> QED
  BY <1>4, <1>5 DEF Serves

-----------------------------------------------------------------------------
(* From sections to what is mounted.                                       *)

\* A file system stands for a tree that has a root.
Stands(fs, T) == IsBranch(T) /\ RootNode \in T /\ Serves(fs, T)

\* Positions that are all counted are put together as they are.
LEMMA AssembledIs ==
  ASSUME NEW K, NEW name, NEW part, NEW x
  PROVE  x \in Assembled(K, name, part) <=> x = RootNode \/ \E k \in K : x \in Under(name[k], part[k])
BY DEF Assembled

LEMMA SectionStands ==
  ASSUME NEW fs, IsSection(fs)
  PROVE  Stands(fs, SectionContents(fs))
<1>1. CASE IsRom(fs)
  <2>1. fs.kind = "romfs"
    BY <1>1, RomIs
  <2>2. SectionContents(fs) = RomContents(fs)
    BY <2>1 DEF SectionContents
  <2> QED
    BY <1>1, <2>2, RomIsBranch, RomServes DEF Stands
<1>2. CASE ~ IsRom(fs)
  <2>0. /\ fs.kind = "partition" /\ AreEntries(fs.entries)
        /\ \A i \in DOMAIN fs.entries : fs.entries[i] \in [name : Names, fs : {NoFs}, size : Nat]
    BY <1>2 DEF IsSection
  <2> DEFINE s == fs.entries
             part == [i \in DOMAIN s |-> {FileNode(s[i].size)}]
             T == Assembled(DOMAIN s, NamesOf(s), part)
  <2>1. \A i \in DOMAIN s : s[i].name \in Names /\ s[i].fs = NoFs /\ s[i].size \in Nat
    <3> HIDE DEF s
    <3> QED
      BY <2>0 DEF s
  <2>2. RootOf(fs) = fs
    BY <2>0 DEF RootOf
  <2>3. IsRoot(fs)
    BY <2>0, <2>1, <2>2 DEF IsRoot
  <2>4. HasName(s) = DOMAIN s
    BY <2>1, NoNameIs DEF HasName
  <2>5. \A i \in DOMAIN s : part[i] = {FileNode(s[i].size)}
    OBVIOUS
  <2> HIDE DEF part
  <2>6. \A i \in DOMAIN s : IsPart(s[i], part[i])
    <3>1. \A i \in DOMAIN s : IsBranch({FileNode(s[i].size)})
      BY <2>1, <2>2, <2>3, PartitionServesFile
    <3> HIDE DEF s
    <3> QED
      BY <2>1, <2>5, <3>1 DEF IsPart
  <2>7. IsBranch(T) /\ RootNode \in T /\ Serves(fs, T)
    BY <2>2, <2>3, <2>4, <2>6, PartitionServes
  <2>8. T = SectionContents(fs)
    <3>1. \A x : x \in SectionContents(fs) <=>
            x = RootNode \/ \E i \in DOMAIN s : x \in Under(s[i].name, {FileNode(s[i].size)})
      BY <2>0 DEF SectionContents
    <3>2. \A i \in DOMAIN s : NamesOf(s)[i] = s[i].name
      BY DEF NamesOf
    <3> HIDE DEF s, T
    <3>3. \A x : x \in T <=> x = RootNode \/ \E i \in DOMAIN s : x \in Under(NamesOf(s)[i], part[i])
      BY AssembledIs DEF T
    <3>4. \A x : x \in T <=> x \in SectionContents(fs)
      BY <2>5, <3>1, <3>2, <3>3
    <3> QED
      BY <3>4
  <2> QED
    BY <2>7, <2>8 DEF Stands
<1> QED
  BY <1>1, <1>2

LEMMA NcaStands ==
  ASSUME NEW fs, IsNca(fs)
  PROVE  Stands(fs, NcaContents(fs))
<1> DEFINE s == Sections(fs)
           K == NcaKeys(fs)
           name == NcaNames(fs)
           part == [k \in K |-> IF k = 0 THEN {FileNode(fs.size)} ELSE SectionContents(s[k].fs)]
           T == Assembled(K, name, part)
<1>1. DOMAIN s \in SUBSET (Nat \ {0}) /\ \A k \in DOMAIN s : IsSection(s[k].fs)
  BY SectionsAre
<1>2. /\ \A k : k \in K <=> k = 0 \/ k \in DOMAIN s
      /\ name[0] = fs.name /\ \A k \in DOMAIN s : name[k] = s[k].name
  <2> HIDE DEF s
  <2> QED
    BY <1>1 DEF NcaKeys, NcaNames, s
<1> HIDE DEF s, K, name
<1>3. part[0] = {FileNode(fs.size)} /\ \A k \in DOMAIN s : part[k] = SectionContents(s[k].fs)
  BY <1>1, <1>2
<1> HIDE DEF part
<1>4. \A i \in DOMAIN s : IsBranch(part[i]) /\ RootNode \in part[i] /\ Serves(s[i].fs, part[i])
  BY <1>1, <1>3, SectionStands DEF Stands
<1>5. IsBranch(T) /\ RootNode \in T /\ Serves(fs, T)
  BY <1>3, <1>4, NcaServes DEF s, K, name
<1>6. T = NcaContents(fs)
  <2>1. \A x : x \in NcaContents(fs) <=>
          \/ x = RootNode \/ x \in Under(fs.name, {FileNode(fs.size)})
          \/ \E i \in DOMAIN s : x \in Under(s[i].name, SectionContents(s[i].fs))
    BY DEF NcaContents, s
  <2>2. \A x : x \in T <=> x = RootNode \/ \E k \in K : x \in Under(name[k], part[k])
    BY AssembledIs
  <2> HIDE DEF T
  <2>3. \A x : x \in T <=> x \in NcaContents(fs)
    BY <1>2, <1>3, <2>1, <2>2
  <2> QED
    BY <2>3
<1> QED
  BY <1>5, <1>6 DEF Stands

LEMMA WrapperStands ==
  ASSUME NEW fs, IsWrapper(fs)
  PROVE  Stands(fs, WrapperContents(fs))
<1> DEFINE s == fs.entries
           part == [k \in DOMAIN s |-> NcaContents(s[k].fs)]
           T == Assembled(DOMAIN s, NamesOf(s), part)
<1>1. \A k \in DOMAIN s : IsNca(s[k].fs)
  BY DEF IsWrapper
<1>2. \A k \in DOMAIN s : part[k] = NcaContents(s[k].fs)
  OBVIOUS
<1> HIDE DEF part
<1>3. \A i \in DOMAIN s : IsBranch(part[i]) /\ RootNode \in part[i] /\ Serves(s[i].fs, part[i])
  <2> HIDE DEF s
  <2> QED
    BY <1>1, <1>2, NcaStands DEF Stands
<1>4. IsBranch(T) /\ RootNode \in T /\ Serves(fs, T)
  BY <1>3, WrapperServes
<1>5. T = WrapperContents(fs)
  <2>1. \A x : x \in WrapperContents(fs) <=>
          x = RootNode \/ \E i \in DOMAIN s : x \in Under(s[i].name, NcaContents(s[i].fs))
    BY DEF WrapperContents
  <2>2. \A i \in DOMAIN s : NamesOf(s)[i] = s[i].name
    BY DEF NamesOf
  <2> HIDE DEF s, T
  <2>3. \A x : x \in T <=> x = RootNode \/ \E i \in DOMAIN s : x \in Under(NamesOf(s)[i], part[i])
    BY AssembledIs DEF T
  <2>4. \A x : x \in T <=> x \in WrapperContents(fs)
    BY <1>2, <2>1, <2>2, <2>3
  <2> QED
    BY <2>4
<1> QED
  BY <1>4, <1>5 DEF Stands

\* An entry of a package stands for a file, an NCA or a title.
IsContent(e) == e.fs = NoFs \/ IsNca(e.fs) \/ IsWrapper(e.fs)

LEMMA EntryIsPart ==
  ASSUME NEW e, e.size \in Nat, IsContent(e)
  PROVE  /\ e.fs.kind # "partition" /\ IsPart(e, EntryContents(e))
<1>1. CASE e.fs = NoFs
  <2>1. e.fs.kind = "none"
    BY <1>1 DEF NoFs
  <2>2. EntryContents(e) = {FileNode(e.size)}
    BY <2>1 DEF EntryContents
  <2>3. IsBranch({FileNode(e.size)})
    <3>1. FileNode(e.size).path = Root /\ FileNode(e.size).type = "file" /\ FileNode(e.size).size = e.size
      BY DEF FileNode, Node
    <3>2. FileNode(e.size) = Node(FileNode(e.size).path, FileNode(e.size).type, FileNode(e.size).size)
      BY <3>1 DEF FileNode
    <3>3. Root \in Paths
      BY DEF Root, Paths
    <3> QED
      BY <3>1, <3>2, <3>3 DEF IsBranch, IsNode
  <2> QED
    BY <1>1, <2>1, <2>2, <2>3 DEF IsPart
<1>2. CASE IsNca(e.fs)
  <2>1. e.fs.kind = "nca" /\ NoFs.kind = "none"
    BY <1>2 DEF IsNca, NoFs
  <2>2. EntryContents(e) = NcaContents(e.fs)
    BY <2>1 DEF EntryContents
  <2>3. Deep4(e.fs)
    BY <1>2, NcaIsDeep, Deeper
  <2>4. Stands(e.fs, NcaContents(e.fs))
    BY <1>2, NcaStands
  <2>5. e.fs # NoFs
    BY <2>1
  <2> QED
    BY <2>1, <2>2, <2>3, <2>4, <2>5 DEF IsPart, Stands
<1>3. CASE IsWrapper(e.fs)
  <2>1. e.fs.kind = "wrapper" /\ NoFs.kind = "none"
    BY <1>3 DEF IsWrapper, NoFs
  <2>2. EntryContents(e) = WrapperContents(e.fs)
    BY <2>1 DEF EntryContents
  <2>3. Deep4(e.fs)
    BY <1>3, WrapperIsDeep, Deeper
  <2>4. Stands(e.fs, WrapperContents(e.fs))
    BY <1>3, WrapperStands
  <2>5. e.fs # NoFs
    BY <2>1
  <2> QED
    BY <2>1, <2>2, <2>3, <2>4, <2>5 DEF IsPart, Stands
<1> QED
  BY <1>1, <1>2, <1>3 DEF IsContent

LEMMA PackageIs ==
  ASSUME NEW fs
  PROVE  IsPackage(fs) <=>
           /\ fs.kind = "partition" /\ AreEntries(fs.entries)
           /\ \A i \in DOMAIN fs.entries : IsEntry(fs.entries[i]) /\ IsContent(fs.entries[i])
BY DEF IsPackage, IsContent

LEMMA PackageStands ==
  ASSUME NEW fs, IsPackage(fs)
  PROVE  Stands(fs, PackageContents(fs))
<1> DEFINE s == fs.entries
           K == HasName(s)
           part == [i \in K |-> EntryContents(s[i])]
           T == Assembled(K, NamesOf(s), part)
<1>1. /\ fs.kind = "partition" /\ AreEntries(s)
      /\ \A i \in DOMAIN s : IsEntry(s[i]) /\ IsContent(s[i])
  BY PackageIs
<1>2. \A i \in DOMAIN s : s[i].name \in Names \cup {NoName} /\ s[i].size \in Nat
  <2> HIDE DEF s
  <2> QED
    BY <1>1 DEF IsEntry
<1>3. RootOf(fs) = fs
  BY <1>1 DEF RootOf
<1>4. IsRoot(fs)
  BY <1>1, <1>2, <1>3 DEF IsRoot
<1>5. \A i \in K : i \in DOMAIN s /\ part[i] = EntryContents(s[i])
  BY DEF HasName
<1> HIDE DEF part
<1>6. \A i \in K : IsPart(s[i], part[i])
  <2> HIDE DEF s, K
  <2> QED
    BY <1>1, <1>2, <1>5, EntryIsPart
<1>7. IsBranch(T) /\ RootNode \in T /\ Serves(fs, T)
  BY <1>3, <1>4, <1>6, PartitionServes
<1>8. T = PackageContents(fs)
  <2>1. \A x : x \in PackageContents(fs) <=>
          x = RootNode \/ \E i \in K : x \in Under(s[i].name, EntryContents(s[i]))
    BY DEF PackageContents
  <2>2. \A i \in DOMAIN s : NamesOf(s)[i] = s[i].name
    BY DEF NamesOf
  <2> HIDE DEF s, T, K
  <2>3. \A x : x \in T <=> x = RootNode \/ \E i \in K : x \in Under(NamesOf(s)[i], part[i])
    BY AssembledIs DEF T
  <2>4. \A x : x \in T <=> x \in PackageContents(fs)
    BY <1>5, <2>1, <2>2, <2>3
  <2> QED
    BY <2>4
<1> QED
  BY <1>7, <1>8 DEF Stands

\* A game card holds such entries, and packages.
LEMMA CardIs ==
  ASSUME NEW fs
  PROVE  IsCard(fs) <=>
           /\ fs.kind = "card" /\ fs.root.kind = "partition" /\ AreEntries(fs.root.entries)
           /\ \A i \in DOMAIN fs.root.entries :
                /\ IsEntry(fs.root.entries[i])
                /\ IsContent(fs.root.entries[i]) \/ IsPackage(fs.root.entries[i].fs)
BY DEF IsCard, IsContent

CardEntryContents(e) ==
  IF e.fs.kind = "partition" THEN PackageContents(e.fs) ELSE EntryContents(e)

LEMMA CardEntryIsPart ==
  ASSUME NEW e, e.size \in Nat, IsContent(e) \/ IsPackage(e.fs)
  PROVE  IsPart(e, CardEntryContents(e))
<1>1. CASE IsContent(e)
  BY <1>1, EntryIsPart DEF CardEntryContents
<1>2. CASE IsPackage(e.fs)
  <2>1. e.fs.kind = "partition" /\ NoFs.kind = "none"
    BY <1>2 DEF IsPackage, NoFs
  <2>2. CardEntryContents(e) = PackageContents(e.fs)
    BY <2>1 DEF CardEntryContents
  <2>3. Deep4(e.fs)
    BY <1>2, PackageIsDeep
  <2>4. Stands(e.fs, PackageContents(e.fs))
    BY <1>2, PackageStands
  <2>5. e.fs # NoFs
    BY <2>1
  <2> QED
    BY <2>2, <2>3, <2>4, <2>5 DEF IsPart, Stands
<1> QED
  BY <1>1, <1>2

LEMMA CardStands ==
  ASSUME NEW fs, IsCard(fs)
  PROVE  Stands(fs, CardContents(fs))
<1> DEFINE s == fs.root.entries
           K == HasName(s)
           part == [i \in K |-> CardEntryContents(s[i])]
           T == Assembled(K, NamesOf(s), part)
<1>1. /\ fs.kind = "card" /\ fs.root.kind = "partition" /\ AreEntries(s)
      /\ \A i \in DOMAIN s : IsEntry(s[i]) /\ (IsContent(s[i]) \/ IsPackage(s[i].fs))
  BY CardIs
<1>2. \A i \in DOMAIN s : s[i].name \in Names \cup {NoName} /\ s[i].size \in Nat
  <2> HIDE DEF s
  <2> QED
    BY <1>1 DEF IsEntry
<1>3. RootOf(fs) = fs.root
  BY <1>1 DEF RootOf
<1>4. IsRoot(fs)
  BY <1>1, <1>2, <1>3 DEF IsRoot
<1>5. \A i \in K : i \in DOMAIN s /\ part[i] = CardEntryContents(s[i])
  BY DEF HasName
<1> HIDE DEF part
<1>6. \A i \in K : IsPart(s[i], part[i])
  <2> HIDE DEF s, K
  <2> QED
    BY <1>1, <1>2, <1>5, CardEntryIsPart
<1>7. IsBranch(T) /\ RootNode \in T /\ Serves(fs, T)
  BY <1>3, <1>4, <1>6, PartitionServes
<1>8. T = CardContents(fs)
  <2>1. \A x : x \in CardContents(fs) <=>
          x = RootNode \/ \E i \in K : x \in Under(s[i].name, CardEntryContents(s[i]))
    BY DEF CardContents, CardEntryContents
  <2>2. \A i \in DOMAIN s : NamesOf(s)[i] = s[i].name
    BY DEF NamesOf
  <2> HIDE DEF s, T, K
  <2>3. \A x : x \in T <=> x = RootNode \/ \E i \in K : x \in Under(NamesOf(s)[i], part[i])
    BY AssembledIs DEF T
  <2>4. \A x : x \in T <=> x \in CardContents(fs)
    BY <1>5, <2>1, <2>2, <2>3
  <2> QED
    BY <2>4
<1> QED
  BY <1>7, <1>8 DEF Stands

-----------------------------------------------------------------------------
(* What is mounted.                                                        *)

LEMMA InitPartitionIs ==
  ASSUME NEW fs, IsPackage(fs), NEW windows
  PROVE  IsPackage(InitPartition(fs, windows))
<1>1. CASE windows /\ fs.entries = <<>>
  <2> DEFINE new == [kind |-> "partition", entries |-> <<NullEntry>>]
  <2>1. InitPartition(fs, windows) = new
    BY <1>1, Zenon DEF InitPartition
  <2>2. new.kind = "partition" /\ new.entries = <<NullEntry>>
    OBVIOUS
  <2>3. DOMAIN <<NullEntry>> = {1} /\ <<NullEntry>>[1] = NullEntry
        /\ \A S : NullEntry \in S => <<NullEntry>> \in Seq(S)
    OBVIOUS
  <2>4. AreEntries(<<NullEntry>>)
    BY <2>3 DEF AreEntries, Distinct
  <2>5. IsEntry(NullEntry)
    BY FrontEndAssumption DEF FrontEndAssumption, IsEntry, NullEntry
  <2>6. IsContent(NullEntry)
    BY DEF IsContent, NullEntry
  <2> HIDE DEF new
  <2>7. IsPackage(new)
    BY <2>2, <2>3, <2>4, <2>5, <2>6, PackageIs
  <2> QED
    BY <2>1, <2>7
<1>2. CASE ~ (windows /\ fs.entries = <<>>)
  <2>1. InitPartition(fs, windows) = fs
    BY <1>2, Zenon DEF InitPartition
  <2> QED
    BY <2>1
<1> QED
  BY <1>1, <1>2

InitEntry(e, windows) ==
  IF e.fs.kind = "partition" THEN [e EXCEPT !.fs = InitPartition(e.fs, windows)] ELSE e

LEMMA InitEntryIs ==
  ASSUME NEW e, IsEntry(e), IsContent(e) \/ IsPackage(e.fs), NEW windows
  PROVE  LET new == InitEntry(e, windows)
         IN IsEntry(new) /\ (IsContent(new) \/ IsPackage(new.fs)) /\ new.name = e.name
<1>1. CASE e.fs.kind # "partition"
  <2>1. InitEntry(e, windows) = e
    BY <1>1, Zenon DEF InitEntry
  <2> QED
    BY <2>1
<1>2. CASE e.fs.kind = "partition"
  <2>1. IsPackage(e.fs)
    <3>1. e.size \in Nat
      BY DEF IsEntry
    <3> QED
      BY <1>2, <3>1, EntryIsPart
  <2> DEFINE fs == InitPartition(e.fs, windows)
             new == [e EXCEPT !.fs = fs]
  <2>2. InitEntry(e, windows) = new
    BY <1>2, Zenon DEF InitEntry
  <2>3. IsPackage(fs)
    BY <2>1, InitPartitionIs
  <2> HIDE DEF fs
  <2>4. /\ e = [name |-> e.name, fs |-> e.fs, size |-> e.size]
        /\ e.name \in Names \cup {NoName} /\ e.size \in Nat
    BY Zenon DEF IsEntry
  <2>5. new = [name |-> e.name, fs |-> fs, size |-> e.size]
    BY <2>4
  <2>6. new.name = e.name /\ new.fs = fs /\ new.size = e.size
    BY <2>5
  <2> HIDE DEF new
  <2>7. IsEntry(new)
    BY <2>4, <2>5, <2>6 DEF IsEntry
  <2> QED
    BY <2>2, <2>3, <2>6, <2>7
<1> QED
  BY <1>1, <1>2

LEMMA InitEntriesIs ==
  ASSUME NEW fs, IsCard(fs), NEW windows
  PROVE  LET new == InitEntries(fs.root, windows)
         IN /\ new.kind = "partition" /\ AreEntries(new.entries)
            /\ \A i \in DOMAIN new.entries :
                 /\ IsEntry(new.entries[i])
                 /\ IsContent(new.entries[i]) \/ IsPackage(new.entries[i].fs)
<1> DEFINE s == fs.root.entries
           t == [i \in DOMAIN s |-> InitEntry(s[i], windows)]
           new == InitEntries(fs.root, windows)
<1>1. new = [kind |-> "partition", entries |-> t]
  BY Zenon DEF InitEntries, InitEntry
<1>2. new.kind = "partition" /\ new.entries = t
  BY <1>1
<1> HIDE DEF new
<1>3. AreEntries(s) /\ \A i \in DOMAIN s : IsEntry(s[i]) /\ (IsContent(s[i]) \/ IsPackage(s[i].fs))
  BY CardIs
<1>4. DOMAIN s = 1 .. Len(s) /\ Len(s) \in Nat /\ Distinct(s)
  BY <1>3, EntriesDomain
<1>5. DOMAIN t = DOMAIN s /\ \A i \in DOMAIN s : t[i] = InitEntry(s[i], windows)
  OBVIOUS
<1>6. \A S : (\A i \in DOMAIN s : t[i] \in S) => t \in Seq(S)
  <2>1. SUFFICES ASSUME NEW S, \A i \in DOMAIN s : t[i] \in S PROVE t \in Seq(S)
    OBVIOUS
  <2>2. t \in [1 .. Len(s) -> S]
    BY <1>4, <1>5, <2>1
  <2> QED
    BY <1>4, <2>2
<1> HIDE DEF t, s
<1>7. \A i \in DOMAIN s : /\ IsEntry(t[i]) /\ (IsContent(t[i]) \/ IsPackage(t[i].fs))
                          /\ t[i].name = s[i].name
  BY <1>3, <1>5, InitEntryIs
<1>8. Distinct(t)
  BY <1>4, <1>5, <1>7 DEF Distinct
<1>9. t \in Seq({t[i] : i \in DOMAIN t})
  BY <1>5, <1>6
<1>10. AreEntries(t)
  BY <1>8, <1>9 DEF AreEntries
<1> QED
  BY <1>2, <1>5, <1>7, <1>10 DEF new

LEMMA CardRootIs ==
  ASSUME NEW fs, fs.kind = "partition", AreEntries(fs.entries),
         \A i \in DOMAIN fs.entries :
            IsEntry(fs.entries[i]) /\ (IsContent(fs.entries[i]) \/ IsPackage(fs.entries[i].fs)),
         NEW windows
  PROVE  IsCard([kind |-> "card", root |-> InitPartition(fs, windows)])
<1> DEFINE r == InitPartition(fs, windows)
           card == [kind |-> "card", root |-> r]
<1>1. card.kind = "card" /\ card.root = r
  OBVIOUS
<1>2. /\ r.kind = "partition" /\ AreEntries(r.entries)
      /\ \A i \in DOMAIN r.entries :
           IsEntry(r.entries[i]) /\ (IsContent(r.entries[i]) \/ IsPackage(r.entries[i].fs))
  <2>1. CASE windows /\ fs.entries = <<>>
    <3>1. IsPackage(fs)
      BY <2>1, PackageIs
    <3>2. IsPackage(r)
      BY <3>1, InitPartitionIs
    <3> HIDE DEF r
    <3> QED
      BY <3>2, PackageIs
  <2>2. CASE ~ (windows /\ fs.entries = <<>>)
    <3>1. r = fs
      BY <2>2, Zenon DEF InitPartition
    <3> HIDE DEF r
    <3> QED
      BY <3>1
  <2> QED
    BY <2>1, <2>2
<1> HIDE DEF r, card
<1>3. IsCard(card)
  BY <1>1, <1>2, CardIs
<1> QED
  BY <1>3 DEF card, r

\* What init() makes of an image in which no directory has a name twice stands for the
\* tree of its contents.
THEOREM MountedStands ==
  ASSUME SoundImages, NEW m \in Images, NEW windows
  PROVE  Stands(Initialized(m, windows), Contents(Initialized(m, windows)))
<1> DEFINE fs == Initialized(m, windows)
<1>1. IsImage(m)
  BY DEF SoundImages
<1>2. CASE IsCard(m)
  <2>1. m.kind = "card"
    BY <1>2 DEF IsCard
  <2>2. fs = [kind |-> "card", root |-> InitPartition(InitEntries(m.root, windows), windows)]
    BY <2>1 DEF Initialized
  <2>3. IsCard(fs)
    BY <1>2, <2>2, InitEntriesIs, CardRootIs
  <2> HIDE DEF fs
  <2>4. Contents(fs) = CardContents(fs)
    BY <2>3 DEF Contents, IsCard
  <2>5. Stands(fs, Contents(fs))
    BY <2>3, <2>4, CardStands
  <2> QED
    BY <2>5 DEF fs
<1>3. CASE IsPackage(m)
  <2>1. m.kind = "partition"
    BY <1>3 DEF IsPackage
  <2>2. fs = InitPartition(m, windows)
    BY <2>1 DEF Initialized
  <2>3. IsPackage(fs)
    BY <1>3, <2>2, InitPartitionIs
  <2> HIDE DEF fs
  <2>4. Contents(fs) = PackageContents(fs)
    BY <2>3 DEF Contents, IsPackage
  <2>5. Stands(fs, Contents(fs))
    BY <2>3, <2>4, PackageStands
  <2> QED
    BY <2>5 DEF fs
<1>4. CASE IsNca(m)
  <2>1. m.kind = "nca"
    BY <1>4 DEF IsNca
  <2>2. fs = m
    BY <2>1 DEF Initialized
  <2>3. IsNca(fs)
    BY <1>4, <2>2
  <2> HIDE DEF fs
  <2>4. Contents(fs) = NcaContents(fs)
    BY <2>3 DEF Contents, IsNca
  <2>5. Stands(fs, Contents(fs))
    BY <2>3, <2>4, NcaStands
  <2> QED
    BY <2>5 DEF fs
<1> QED
  BY <1>1, <1>2, <1>3, <1>4 DEF IsImage

-----------------------------------------------------------------------------
(* Pages of a listing.                                                     *)

\* Entries that were delivered of a directory: some from its beginning on.
PartOf(l, L) ==
  /\ l \in Seq(Listed) /\ Len(l) <= Len(L)
  /\ \A k \in 1 .. Len(l) : l[k] = ShownEntry(L[k])

LEMMA PartIs ==
  ASSUME NEW S, NEW s \in Seq(S), NEW m \in 0 .. Len(s)
  PROVE  /\ SubSeq(s, 1, m) \in Seq(S) /\ Len(SubSeq(s, 1, m)) = m
         /\ \A k \in 1 .. m : SubSeq(s, 1, m)[k] = s[k]
         /\ SubSeq(s, m + 1, Len(s)) \in Seq(S) /\ Len(SubSeq(s, m + 1, Len(s))) = Len(s) - m
         /\ \A k \in 1 .. Len(s) - m : SubSeq(s, m + 1, Len(s))[k] = s[m + k]
<1>1. Len(s) \in Nat /\ m \in Nat /\ m <= Len(s) /\ \A k \in 1 .. Len(s) : s[k] \in S
  OBVIOUS
<1>2. /\ SubSeq(s, 1, m) \in Seq(S) /\ Len(SubSeq(s, 1, m)) = m
      /\ \A k \in 1 .. m : SubSeq(s, 1, m)[k] = s[k]
  <2>1. \A k \in 1 .. m : s[k] \in S
    BY <1>1
  <2>2. /\ SubSeq(s, 1, m) \in Seq(S) /\ Len(SubSeq(s, 1, m)) = IF 1 <= m THEN m - 1 + 1 ELSE 0
        /\ \A k \in 1 .. m - 1 + 1 : SubSeq(s, 1, m)[k] = s[1 + k - 1]
    BY <1>1, <2>1, SubSeqProperties
  <2>3. m - 1 + 1 = m /\ (~ (1 <= m) => m = 0) /\ \A k \in 1 .. m : 1 + k - 1 = k
    BY <1>1
  <2> QED
    BY <2>2, <2>3
<1>3. /\ SubSeq(s, m + 1, Len(s)) \in Seq(S) /\ Len(SubSeq(s, m + 1, Len(s))) = Len(s) - m
      /\ \A k \in 1 .. Len(s) - m : SubSeq(s, m + 1, Len(s))[k] = s[m + k]
  <2>1. \A k \in m + 1 .. Len(s) : s[k] \in S
    BY <1>1
  <2>2. /\ SubSeq(s, m + 1, Len(s)) \in Seq(S)
        /\ Len(SubSeq(s, m + 1, Len(s))) = IF m + 1 <= Len(s) THEN Len(s) - (m + 1) + 1 ELSE 0
        /\ \A k \in 1 .. Len(s) - (m + 1) + 1 :
             SubSeq(s, m + 1, Len(s))[k] = s[(m + 1) + k - 1]
    BY <1>1, <2>1, SubSeqProperties
  <2>3. /\ Len(s) - (m + 1) + 1 = Len(s) - m /\ (~ (m + 1 <= Len(s)) => Len(s) - m = 0)
        /\ \A k \in 1 .. Len(s) - m : (m + 1) + k - 1 = m + k
    BY <1>1
  <2> QED
    BY <2>2, <2>3
<1> QED
  BY <1>2, <1>3

\* What comes behind the last one that was delivered.
LEMMA BehindIs ==
  ASSUME NEW L \in Seq(Listed), \A j, k \in DOMAIN L : L[j].name = L[k].name => j = k,
         NEW l, PartOf(l, L)
  PROVE  LET B == Behind(L, IF l = <<>> THEN NoName ELSE l[Len(l)].name)
         IN /\ B \in Seq(Listed) /\ Len(B) = Len(L) - Len(l) /\ Len(l) \in Nat
            /\ \A k \in 1 .. Len(B) : B[k] = L[Len(l) + k]
<1> DEFINE m == Len(l)
           marker == IF l = <<>> THEN NoName ELSE l[Len(l)].name
           B == Behind(L, marker)
<1>1. m \in Nat /\ Len(L) \in Nat /\ m <= Len(L) /\ DOMAIN L = 1 .. Len(L) /\ l \in Seq(Listed)
      /\ DOMAIN L \in SUBSET (Nat \ {0})
  BY DEF PartOf
<1>2. CASE l = <<>>
  <2>1. m = 0 /\ marker = NoName
    BY <1>2
  <2>2. B = L
    BY <2>1, Zenon DEF Behind
  <2> HIDE DEF m, B
  <2>3. B \in Seq(Listed) /\ Len(B) = Len(L) - m /\ \A k \in 1 .. Len(B) : B[k] = L[m + k]
    BY <1>1, <2>1, <2>2
  <2> QED
    BY <1>1, <2>3 DEF m, B
<1>3. CASE l # <<>>
  <2>1. m # 0 /\ m \in 1 .. Len(l) /\ m \in DOMAIN L
    BY <1>1, <1>3
  <2>2. l[m] = ShownEntry(L[m]) /\ L[m] \in Listed
    BY <1>1, <2>1 DEF PartOf
  <2>3. l[m].name = L[m].name
    BY <2>2, EntryIs DEF ShownEntry
  <2>4. marker = L[m].name /\ marker \in Names /\ marker # NoName
    <3>1. L[m].name \in Names
      BY <2>2 DEF Listed
    <3> QED
      BY <1>3, <2>3, <3>1, NoNameIs
  <2> HIDE DEF marker
  <2>5. GetEntry(L, marker) = m
    <3> DEFINE at == GetEntry(L, marker)
    <3>1. at # 0 /\ at \in DOMAIN L /\ L[at].name = marker
      BY <1>1, <2>1, <2>4, GetEntryIs
    <3> HIDE DEF at, m
    <3>2. at = m
      BY <2>1, <2>4, <3>1
    <3> QED
      BY <3>2 DEF at
  <2>6. B = SubSeq(L, m + 1, Len(L))
    BY <2>1, <2>4, <2>5, Zenon DEF Behind
  <2> HIDE DEF B, m
  <2>7. B \in Seq(Listed) /\ Len(B) = Len(L) - m /\ \A k \in 1 .. Len(B) : B[k] = L[m + k]
    <3>1. m \in 0 .. Len(L)
      BY <1>1
    <3> QED
      BY <2>6, <3>1, PartIs
  <2> QED
    BY <1>1, <2>7 DEF m, B, marker
<1> QED
  BY <1>2, <1>3

\* The page behind the entries l that were delivered of L, and both together.
NextPage(L, l, room) ==
  Window(Behind(L, IF l = <<>> THEN NoName ELSE l[Len(l)].name), room, 0)
Continued(L, l, room) == l \o Shown(NextPage(L, l, room))

\* A page continues what was delivered, and is empty only if there is no more.
LEMMA PageContinues ==
  ASSUME NEW L \in Seq(Listed), \A j, k \in DOMAIN L : L[j].name = L[k].name => j = k,
         NEW l, PartOf(l, L), NEW room \in Nat \ {0}
  PROVE  /\ PartOf(Continued(L, l, room), L)
         /\ Len(NextPage(L, l, room)) \in Nat
         /\ Len(Continued(L, l, room)) = Len(l) + Len(NextPage(L, l, room))
         /\ SubSeq(Continued(L, l, room), 1, Len(l)) = l
         /\ Continued(L, l, room) = l => Len(l) = Len(L)
<1> DEFINE B == Behind(L, IF l = <<>> THEN NoName ELSE l[Len(l)].name)
           page == Window(B, room, 0)
           shown == Shown(page)
           new == l \o shown
           m == Len(l)
           n == IF room < Len(B) THEN room ELSE Len(B)
<1>1. /\ B \in Seq(Listed) /\ Len(B) = Len(L) - m /\ m \in Nat
      /\ \A k \in 1 .. Len(B) : B[k] = L[m + k]
  BY BehindIs
<1>2. /\ l \in Seq(Listed) /\ m <= Len(L) /\ \A k \in 1 .. m : l[k] = ShownEntry(L[k])
      /\ Len(L) \in Nat
  BY DEF PartOf
<1> HIDE DEF B
<1>3. page = SubSeq(B, 1, n) /\ n \in 0 .. Len(B)
  BY <1>1 DEF Window
<1> HIDE DEF n
<1>4. page \in Seq(Listed) /\ Len(page) = n /\ \A k \in 1 .. n : page[k] = B[k]
  <2> HIDE DEF page
  <2> QED
    BY <1>1, <1>3, PartIs
<1> HIDE DEF page
<1>5. shown \in Seq(Listed) /\ Len(shown) = n /\ \A k \in 1 .. n : shown[k] = ShownEntry(L[m + k])
  <2>1. /\ shown \in Seq(Listed) /\ Len(shown) = Len(page)
        /\ \A k \in DOMAIN page : shown[k] = ShownEntry(page[k])
    BY <1>4, ShownIs
  <2>2. DOMAIN page = 1 .. n /\ \A k \in 1 .. n : k \in 1 .. Len(B)
    BY <1>1, <1>3, <1>4
  <2> HIDE DEF shown
  <2> QED
    BY <1>1, <1>4, <2>1, <2>2
<1> HIDE DEF shown, m
<1>6. new \in Seq(Listed) /\ Len(new) = m + n
      /\ \A k \in 1 .. m + n : new[k] = IF k <= m THEN l[k] ELSE shown[k - m]
  <2>1. /\ new \in Seq(Listed) /\ Len(new) = Len(l) + Len(shown)
        /\ \A k \in 1 .. Len(l) + Len(shown) :
             new[k] = IF k <= Len(l) THEN l[k] ELSE shown[k - Len(l)]
    BY <1>2, <1>5, ConcatProperties
  <2> QED
    BY <1>5, <2>1 DEF m
<1> HIDE DEF new
<1>7. \A k \in 1 .. m + n : new[k] = ShownEntry(L[k])
  <2>1. SUFFICES ASSUME NEW k \in 1 .. m + n PROVE new[k] = ShownEntry(L[k])
    OBVIOUS
  <2>2. CASE k <= m
    BY <1>1, <1>2, <1>6, <2>2
  <2>3. CASE ~ (k <= m)
    <3>1. k - m \in 1 .. n /\ m + (k - m) = k /\ new[k] = shown[k - m]
      BY <1>1, <1>3, <1>6, <2>3
    <3> QED
      BY <1>5, <3>1
  <2> QED
    BY <2>2, <2>3
<1>8. m + n <= Len(L)
  BY <1>1, <1>2, <1>3
<1>9. PartOf(new, L)
  BY <1>6, <1>7, <1>8 DEF PartOf
<1>10. SubSeq(new, 1, m) = l
  <2> DEFINE t == SubSeq(new, 1, m)
  <2>1. t \in Seq(Listed) /\ Len(t) = m /\ \A k \in 1 .. m : t[k] = l[k]
    <3>1. m \in 0 .. Len(new) /\ \A k \in 1 .. m : k \in 1 .. m + n /\ k <= m
      BY <1>1, <1>3, <1>6
    <3>2. t \in Seq(Listed) /\ Len(t) = m /\ \A k \in 1 .. m : t[k] = new[k]
      BY <1>6, <3>1, PartIs
    <3> QED
      BY <1>6, <3>1, <3>2
  <2> HIDE DEF t
  <2>2. t = l
    BY <1>2, <2>1, SeqEqual DEF m
  <2> QED
    BY <2>2 DEF t
<1>11. new = l => m = Len(L)
  <2>1. SUFFICES ASSUME new = l PROVE m = Len(L)
    OBVIOUS
  <2>2. n = 0
    BY <1>1, <1>3, <1>6, <2>1 DEF m
  <2>3. Len(B) = 0
    BY <1>1, <2>2 DEF n
  <2> QED
    BY <1>1, <1>2, <2>3
<1>12. Len(page) \in Nat /\ Len(new) = m + Len(page)
  BY <1>1, <1>3, <1>4, <1>6
<1> QED
  <2>1. page = NextPage(L, l, room) /\ new = Continued(L, l, room)
    BY Zenon DEF page, B, shown, new, NextPage, Continued
  <2> QED
    BY <1>9, <1>10, <1>11, <1>12, <2>1 DEF m

-----------------------------------------------------------------------------
(* The tree, as it is seen.                                                *)

\* All attributes that are answered.
LEMMA AttributesAre ==
  ASSUME NEW fs, NEW T, Stands(fs, T), NEW p \in Paths
  PROVE  \/ \E n \in T : /\ n.path = p /\ IsNode(n)
                         /\ ServesNode(fs, p, n.type, n.size, ChildrenIn(T, p))
                         /\ GetAttributes(fs, p).type = n.type /\ GetAttributes(fs, p).size = n.size
         \/ /\ \A n \in T : n.path # p
            /\ GetAttributes(fs, p) = NoFile
<1>1. CASE \A n \in T : n.path # p
  BY <1>1 DEF Stands, Serves
<1>2. CASE \E n \in T : n.path = p
  <2>1. PICK n \in T : n.path = p
    BY <1>2
  <2>2. IsNode(n) /\ ServesNode(fs, p, n.type, n.size, ChildrenIn(T, p))
    BY <2>1 DEF Stands, Serves, IsBranch
  <2>3. GetAttributes(fs, p) = [res |-> "SUCCESS", type |-> n.type, size |-> n.size]
    BY <2>2 DEF ServesNode
  <2>4. GetAttributes(fs, p).type = n.type /\ GetAttributes(fs, p).size = n.size
    BY <2>3
  <2> QED
    BY <2>1, <2>2, <2>4
<1> QED
  BY <1>1, <1>2

\* A path has one node.
LEMMA OneNode ==
  ASSUME NEW fs, NEW T, Stands(fs, T), NEW m \in T, NEW n \in T, m.path = n.path
  PROVE  m = n
BY DEF Stands, IsBranch

\* The children of a directory, as MountedTree has them.
LEMMA TreeChildren ==
  ASSUME \A n \in nodes : IsNode(n), NEW p \in Paths
  PROVE  Tree!Children(p) = ChildrenIn(nodes, p)
<1> DEFINE D == {c \in nodes : Len(c.path) = Len(p) + 1 /\ Tree!Parent(c.path) = p}
           E == {c \in nodes : c.path # Root /\ Parent(c.path) = p}
<1>1. \A q : Tree!Parent(q) = Parent(q)
  BY DEF Tree!Parent, Parent
<1>2. ASSUME NEW c \in nodes, Parent(c.path) = p
      PROVE  Len(c.path) = Len(p) + 1 <=> c.path # Root
  <2>1. c.path \in Paths
    BY DEF IsNode
  <2>2. CASE c.path = Root
    BY <2>2 DEF Root, Paths
  <2>3. CASE c.path # Root
    <3>1. c.path = Append(p, LastName(c.path)) /\ LastName(c.path) \in Names
      BY <1>2, <2>1, <2>3, ParentLast
    <3>2. Len(Append(p, LastName(c.path))) = Len(p) + 1
      BY <3>1 DEF Paths
    <3> QED
      BY <2>3, <3>1, <3>2
  <2> QED
    BY <2>2, <2>3
<1>3. D = E
  BY <1>1, <1>2
<1>4. Tree!Children(p) = {[name |-> n.path[Len(n.path)], type |-> n.type, size |-> n.size] : n \in D}
  BY Zenon DEF Tree!Children
<1>5. ChildrenIn(nodes, p) = {[name |-> n.path[Len(n.path)], type |-> n.type, size |-> n.size] : n \in E}
  BY Zenon DEF ChildrenIn, Entry, LastName
<1> HIDE DEF D, E
<1> QED
  BY <1>3, <1>4, <1>5, Zenon

-----------------------------------------------------------------------------
(* The invariant.                                                          *)

AllOf(dir) == ReadEntries(dir, GetCount(dir), 0)

\* What is open is a node of the tree, and what was delivered of a directory is a
\* first part of what is in it.
Opened ==
  \/ handle = NoHandle /\ path = Root /\ listed = <<>>
  \/ /\ listed = <<>>
     /\ \E n \in nodes : /\ n.path = path /\ n.type = "file"
                         /\ handle = [type |-> "file", size |-> n.size]
  \/ /\ \E n \in nodes : n.path = path /\ n.type = "directory"
     /\ handle = [type |-> "directory", dir |-> OpenDirectory(mounted, path)]
     /\ PartOf(listed, AllOf(handle.dir))

Replied ==
  reply # NoReply =>
    /\ reply \in Replies /\ reply.path \in Asked
    /\ reply.op = "access" =>
         (reply.type # "none" <=> reply.mode = Read /\ ~ IsTitle(reply.path))

\* The inductive invariant.
IInv == front \in FrontEnds /\ Stands(mounted, nodes) /\ Opened /\ Replied

-----------------------------------------------------------------------------
LEMMA AskedIs ==
  ASSUME IInv
  PROVE  /\ Asked \subseteq Paths /\ Root \in Asked
         /\ \A n \in nodes : IsNode(n) /\ n.path \in Asked
<1>1. \A n \in nodes : IsNode(n) /\ n.path \in Paths
  BY DEF IInv, Stands, IsBranch, IsNode
<1>2. \A s \in Strange : s \in Names
  BY FrontEndAssumption DEF FrontEndAssumption
<1>3. \A n \in nodes : \A s \in Strange : Append(n.path, s) \in Paths
  BY <1>1, <1>2, ParentOfAppend
<1>4. Asked \subseteq Paths
  <2>1. \A x \in Asked : \/ \E n \in nodes : x = n.path
                         \/ \E n \in nodes : \E s \in Strange : x = Append(n.path, s)
    BY DEF Asked
  <2> QED
    BY <1>1, <1>3, <2>1
<1>5. \A n \in nodes : n.path \in Asked
  BY DEF Asked
<1>6. RootNode \in nodes /\ RootNode.path = Root
  BY RootNodeIs DEF IInv, Stands
<1> QED
  BY <1>1, <1>4, <1>5, <1>6

LEMMA OpenedKept ==
  ASSUME Opened, UNCHANGED <<mounted, nodes, handle, path, listed>>
  PROVE  Opened'
BY DEF Opened, AllOf

LEMMA Kept ==
  ASSUME IInv, UNCHANGED <<front, mounted, nodes>>, Opened', Replied'
  PROVE  IInv'
BY DEF IInv

\* A reply.
Reply(op, p, mode, type, size) ==
  [op |-> op, path |-> p, mode |-> mode, type |-> type, size |-> size]

LEMMA ReplyIs ==
  ASSUME NEW op, NEW p, NEW mode, NEW type, NEW size
  PROVE  LET r == Reply(op, p, mode, type, size)
         IN /\ r.op = op /\ r.path = p /\ r.mode = mode /\ r.type = type /\ r.size = size
            /\ /\ op \in {"stat", "access", "open", "change", "list", "look", "info", "page"}
               /\ p \in Paths /\ mode \in Modes /\ type \in {"none", "file", "directory"}
               /\ size \in Nat
               => r \in Replies /\ r # NoReply
<1> DEFINE r == Reply(op, p, mode, type, size)
<1>1. r.op = op /\ r.path = p /\ r.mode = mode /\ r.type = type /\ r.size = size
  BY DEF Reply
<1>2. ASSUME op \in {"stat", "access", "open", "change", "list", "look", "info", "page"},
             p \in Paths, mode \in Modes, type \in {"none", "file", "directory"}, size \in Nat
      PROVE  r \in Replies
  BY <1>2 DEF Reply, Replies
<1>3. NoReply \notin Replies
  BY FrontEndAssumption DEF FrontEndAssumption
<1> HIDE DEF r
<1>4. r \in Replies => r # NoReply
  BY <1>3
<1> QED
  BY <1>1, <1>2, <1>4 DEF r

\* Replies that are not about access.
LEMMA RepliedWith ==
  ASSUME IInv, UNCHANGED <<mounted, nodes>>, NEW op, NEW p \in Asked, NEW mode \in Modes,
         NEW type \in {"none", "file", "directory"}, NEW size \in Nat,
         op \in {"stat", "open", "change", "list", "look", "info", "page"},
         reply' = Reply(op, p, mode, type, size)
  PROVE  Replied' /\ reply' # NoReply /\ reply'.path = p /\ reply'.mode = mode
<1>1. p \in Paths
  BY AskedIs
<1>2. /\ reply' \in Replies /\ reply' # NoReply
      /\ reply'.path = p /\ reply'.mode = mode /\ reply'.op # "access"
  BY <1>1, ReplyIs
<1>3. Asked' = Asked
  BY DEF Asked
<1>4. Replied'
  BY <1>2, <1>3 DEF Replied
<1> QED
  BY <1>2, <1>4

LEMMA TreeAnswers ==
  ASSUME NEW p, NEW mode, reply' # NoReply, reply'.path = p, reply'.mode = mode,
         \/ Tree!Stat(p) \/ Tree!Look(p) \/ Tree!Access(p, mode) \/ Tree!Open(p, mode)
         \/ Tree!Change(p, mode)
  PROVE  Tree!Next
BY DEF Tree!Next, Tree!Answers

\* MountedTree's replies.
LEMMA TreeReplies ==
  /\ \A op, n, mode : Tree!Found(op, n, mode) = Reply(op, n.path, mode, n.type, n.size)
  /\ \A op, p, mode : Tree!Refused(op, p, mode) = Reply(op, p, mode, "none", 0)
  /\ \A op, n : Tree!Count(op, n) = Reply(op, path, {}, handle.type, n)
<1>1. \A op, n, mode : Tree!Found(op, n, mode) = Reply(op, n.path, mode, n.type, n.size)
  BY DEF Tree!Found, Reply
<1>2. \A op, p, mode : Tree!Refused(op, p, mode) = Reply(op, p, mode, "none", 0)
  BY DEF Tree!Refused, Reply
<1>3. \A op, n : Tree!Count(op, n) = Reply(op, path, {}, handle.type, n)
  BY DEF Tree!Count, Reply
<1> QED
  BY <1>1, <1>2, <1>3

LEMMA NodeIs ==
  ASSUME NEW n, IsNode(n)
  PROVE  /\ n.path \in Paths /\ n.type \in {"none", "file", "directory"} /\ n.size \in Nat
         /\ n.type # "none" /\ n.size = IF n.type = "file" THEN n.size ELSE 0
BY DEF IsNode

\* An answer, with what it is about.
LEMMA AnswerWith ==
  ASSUME NEW op, NEW p, NEW mode, NEW answer, Answer(op, p, mode, answer)
  PROVE  reply' = Reply(op, p, mode, answer.type, IF answer.type = "file" THEN answer.size ELSE 0)
BY DEF Answer, Reply

LEMMA RefuseWith ==
  ASSUME NEW op, NEW p, NEW mode, Refuse(op, p, mode)
  PROVE  reply' = Reply(op, p, mode, "none", 0)
<1>1. NoFile.type = "none"
  BY DEF NoFile, Failure
<1> QED
  BY <1>1, AnswerWith DEF Refuse

\* What is answered with the attributes of a path.
LEMMA AttributesReply ==
  ASSUME IInv, NEW op, NEW p \in Asked, NEW mode,
         Answer(op, p, mode, GetAttributes(mounted, p))
  PROVE  \/ \E n \in nodes : /\ n.path = p /\ IsNode(n)
                             /\ ServesNode(mounted, p, n.type, n.size, ChildrenIn(nodes, p))
                             /\ reply' = Reply(op, p, mode, n.type, n.size)
         \/ (\A n \in nodes : n.path # p) /\ reply' = Reply(op, p, mode, "none", 0)
<1>0. p \in Paths /\ Stands(mounted, nodes)
  BY AskedIs DEF IInv
<1>1. CASE GetAttributes(mounted, p) = NoFile /\ \A n \in nodes : n.path # p
  BY <1>1, RefuseWith DEF Refuse
<1>2. CASE \E n \in nodes : /\ n.path = p /\ IsNode(n)
                            /\ ServesNode(mounted, p, n.type, n.size, ChildrenIn(nodes, p))
                            /\ GetAttributes(mounted, p).type = n.type
                            /\ GetAttributes(mounted, p).size = n.size
  <2>1. PICK n \in nodes : /\ n.path = p /\ IsNode(n)
                           /\ ServesNode(mounted, p, n.type, n.size, ChildrenIn(nodes, p))
                           /\ GetAttributes(mounted, p).type = n.type
                           /\ GetAttributes(mounted, p).size = n.size
    BY <1>2
  <2>2. reply' = Reply(op, p, mode, n.type, IF n.type = "file" THEN n.size ELSE 0)
    BY <2>1, AnswerWith
  <2>3. reply' = Reply(op, p, mode, n.type, n.size)
    BY <2>1, <2>2, NodeIs
  <2> QED
    BY <2>1, <2>3
<1> QED
  BY <1>0, <1>1, <1>2, AttributesAre

-----------------------------------------------------------------------------
(* Requests about a path.                                                  *)

\* A request that opens nothing and leaves what is delivered.
Rests == UNCHANGED <<front, mounted, nodes, handle, path, listed>>

LEMMA RestsIs ==
  ASSUME IInv, Rests
  PROVE  /\ Opened' /\ (Replied' => IInv') /\ UNCHANGED <<mounted, nodes>>
         /\ nodes' = nodes /\ [type |-> handle.type, path |-> path]' = [type |-> handle.type, path |-> path]
         /\ listed' = listed
BY OpenedKept, Kept DEF Rests, IInv

LEMMA AskPath ==
  ASSUME NEW who, NEW p, AsksPath(who, p), UNCHANGED <<handle, path, listed>>
  PROVE  Rests /\ p \in Asked
BY DEF AsksPath, Asks, Rests

LEMMA EmptyMode ==
  {} \in Modes /\ {"write"} \in Modes /\ {"write"} # Read
BY DEF Modes, Read

\* Requests that are refused.
LEMMA ChangeStep ==
  ASSUME IInv, Rests, NEW p \in Asked, NEW mode \in Modes, Refuse("change", p, mode)
  PROVE  IInv' /\ Tree!Next
<1>1. reply' = Reply("change", p, mode, "none", 0)
  BY RefuseWith
<1>2. Replied' /\ reply' # NoReply /\ reply'.path = p /\ reply'.mode = mode
  BY <1>1, RestsIs, RepliedWith
<1>3. Tree!Change(p, mode)
  BY <1>1, RestsIs, TreeReplies DEF Tree!Change
<1> QED
  BY <1>2, <1>3, RestsIs, TreeAnswers

LEMMA GetAttrStep ==
  ASSUME IInv, NEW p, GetAttr(p)
  PROVE  IInv' /\ Tree!Next
<1>1. Rests /\ p \in Asked /\ Answer("stat", p, {}, GetAttributes(mounted, p))
  BY AskPath DEF GetAttr
<1>2. CASE \E n \in nodes : n.path = p /\ IsNode(n) /\ reply' = Reply("stat", p, {}, n.type, n.size)
  <2>1. PICK n \in nodes : n.path = p /\ IsNode(n) /\ reply' = Reply("stat", p, {}, n.type, n.size)
    BY <1>2
  <2>2. Replied' /\ reply' # NoReply /\ reply'.path = p /\ reply'.mode = {}
    BY <1>1, <2>1, NodeIs, RestsIs, RepliedWith, EmptyMode
  <2>3. Tree!Stat(p)
    BY <1>1, <2>1, RestsIs, TreeReplies DEF Tree!Stat
  <2> QED
    BY <1>1, <2>2, <2>3, RestsIs, TreeAnswers
<1>3. CASE (\A n \in nodes : n.path # p) /\ reply' = Reply("stat", p, {}, "none", 0)
  <2>2. Replied' /\ reply' # NoReply /\ reply'.path = p /\ reply'.mode = {}
    BY <1>1, <1>3, RestsIs, RepliedWith, EmptyMode
  <2>3. Tree!Stat(p)
    BY <1>1, <1>3, RestsIs, TreeReplies DEF Tree!Stat, Tree!Exists
  <2> QED
    BY <1>1, <2>2, <2>3, RestsIs, TreeAnswers
<1> QED
  BY <1>1, <1>2, <1>3, AttributesReply

LEMMA GetSecurityByNameStep ==
  ASSUME IInv, NEW p, GetSecurityByName(p)
  PROVE  IInv' /\ Tree!Next
<1> DEFINE a == GetAttributes(mounted, p)
<1>1. Rests /\ p \in Asked /\ Answer("look", p, {}, [a EXCEPT !.size = 0])
  BY AskPath DEF GetSecurityByName
<1>2. p \in Paths /\ Stands(mounted, nodes)
  BY <1>1, AskedIs DEF IInv
<1>3. CASE \E n \in nodes : /\ n.path = p /\ IsNode(n)
                            /\ ServesNode(mounted, p, n.type, n.size, ChildrenIn(nodes, p))
  <2>1. PICK n \in nodes : /\ n.path = p /\ IsNode(n)
                           /\ ServesNode(mounted, p, n.type, n.size, ChildrenIn(nodes, p))
    BY <1>3
  <2>2. a = [res |-> "SUCCESS", type |-> n.type, size |-> n.size]
    BY <2>1 DEF ServesNode
  <2>3. [a EXCEPT !.size = 0].type = n.type /\ [a EXCEPT !.size = 0].size = 0
    BY <2>2
  <2> HIDE DEF a
  <2>4. reply' = Reply("look", p, {}, n.type, 0)
    BY <1>1, <2>3, AnswerWith
  <2>5. Replied' /\ reply' # NoReply /\ reply'.path = p /\ reply'.mode = {}
    BY <1>1, <2>1, <2>4, NodeIs, RestsIs, RepliedWith, EmptyMode
  <2>6. [Tree!Found("look", n, {}) EXCEPT !.size = 0] = Reply("look", p, {}, n.type, 0)
    <3>1. Tree!Found("look", n, {}) = [op |-> "look", path |-> p, mode |-> {}, type |-> n.type, size |-> n.size]
      BY <2>1, TreeReplies DEF Reply
    <3> QED
      BY <3>1 DEF Reply
  <2>7. Tree!Look(p)
    BY <1>1, <2>1, <2>4, <2>6, RestsIs DEF Tree!Look
  <2> QED
    BY <1>1, <2>5, <2>7, RestsIs, TreeAnswers
<1>4. CASE (\A n \in nodes : n.path # p) /\ a = NoFile
  <2>1. [a EXCEPT !.size = 0] = NoFile
    BY <1>4 DEF NoFile, Failure
  <2> HIDE DEF a
  <2>2. reply' = Reply("look", p, {}, "none", 0)
    BY <1>1, <2>1, RefuseWith DEF Refuse
  <2>3. Replied' /\ reply' # NoReply /\ reply'.path = p /\ reply'.mode = {}
    BY <1>1, <2>2, RestsIs, RepliedWith, EmptyMode
  <2>4. Tree!Look(p)
    BY <1>1, <1>4, <2>2, RestsIs, TreeReplies DEF Tree!Look, Tree!Exists
  <2> QED
    BY <1>1, <2>3, <2>4, RestsIs, TreeAnswers
<1> QED
  BY <1>2, <1>3, <1>4, AttributesAre

\* access does not say less than getAttributes of what may be read, but for the root of
\* a title.
LEMMA CheckAccessStep ==
  ASSUME IInv, NEW p, NEW mask, CheckAccess(p, mask)
  PROVE  IInv' /\ Tree!Next
<1> DEFINE mode == ConvertAccessFlags(mask)
<1>1. /\ Rests /\ p \in Asked /\ Type(p) # "none"
      /\ IF Access(mounted, p, mode) = "SUCCESS"
         THEN Answer("access", p, mode, GetAttributes(mounted, p))
         ELSE Refuse("access", p, mode)
  BY AskPath DEF CheckAccess
<1>2. mode \in Modes
  BY DEF ConvertAccessFlags, Modes
<1> HIDE DEF mode
<1>3. p \in Paths /\ Stands(mounted, nodes)
  BY <1>1, AskedIs DEF IInv
<1>4. NoFile.type = "none"
  BY DEF NoFile, Failure
<1>5. PICK n \in nodes : /\ n.path = p /\ IsNode(n)
                         /\ ServesNode(mounted, p, n.type, n.size, ChildrenIn(nodes, p))
                         /\ GetAttributes(mounted, p).type = n.type
                         /\ GetAttributes(mounted, p).size = n.size
  BY <1>1, <1>3, <1>4, AttributesAre DEF Type
<1>6. Access(mounted, p, mode) = "SUCCESS" <=> mode = Read /\ ~ IsTitle(p)
  BY <1>5 DEF ServesNode, IsTitle
<1>7. Asked' = Asked /\ IsTitle(p)' = IsTitle(p)
  BY <1>1 DEF Asked, IsTitle, Rests
<1>8. CASE Access(mounted, p, mode) = "SUCCESS"
  <2>1. reply' = Reply("access", p, mode, n.type, n.size)
    <3>1. reply' = Reply("access", p, mode, n.type, IF n.type = "file" THEN n.size ELSE 0)
      BY <1>1, <1>5, <1>8, AnswerWith
    <3> QED
      BY <1>5, <3>1, NodeIs
  <2>2. /\ reply' \in Replies /\ reply' # NoReply /\ reply'.path = p /\ reply'.mode = mode
        /\ reply'.type = n.type /\ n.type # "none"
    BY <1>2, <1>3, <1>5, <2>1, ReplyIs, NodeIs
  <2>3. Replied'
    <3>1. mode = Read /\ ~ IsTitle(p)
      BY <1>6, <1>8
    <3>2. ~ IsTitle(reply.path)'
      BY <1>7, <2>2, <3>1 DEF IsTitle
    <3>3. reply'.path \in Asked'
      BY <1>1, <1>7, <2>2
    <3> QED
      BY <2>2, <3>1, <3>2, <3>3 DEF Replied
  <2>4. Tree!Access(p, mode)
    <3>1. mode = {"read"}
      BY <1>6, <1>8 DEF Read
    <3> QED
      BY <1>1, <1>5, <2>1, <3>1, RestsIs, TreeReplies DEF Tree!Access
  <2> QED
    BY <1>1, <2>2, <2>3, <2>4, RestsIs, TreeAnswers
<1>9. CASE Access(mounted, p, mode) # "SUCCESS"
  <2>1. reply' = Reply("access", p, mode, "none", 0)
    BY <1>1, <1>9, RefuseWith
  <2>2. /\ reply' \in Replies /\ reply' # NoReply /\ reply'.path = p /\ reply'.mode = mode
        /\ reply'.type = "none"
    BY <1>2, <1>3, <2>1, ReplyIs
  <2>3. Replied'
    <3>1. ~ (mode = Read /\ ~ IsTitle(p))
      BY <1>6, <1>9
    <3>2. IsTitle(reply.path)' <=> IsTitle(p)
      BY <1>1, <2>2 DEF IsTitle, Rests
    <3>3. reply'.path \in Asked'
      BY <1>1, <1>7, <2>2
    <3> QED
      BY <2>2, <3>1, <3>2, <3>3 DEF Replied
  <2>4. Tree!Access(p, mode)
    BY <1>1, <2>1, RestsIs, TreeReplies DEF Tree!Access
  <2> QED
    BY <1>1, <2>2, <2>3, <2>4, RestsIs, TreeAnswers
<1> QED
  BY <1>8, <1>9

-----------------------------------------------------------------------------
(* Requests that open something.                                           *)

LEMMA HandleIs ==
  ASSUME Opened
  PROVE  /\ handle.type \in {"none", "file", "directory"}
         /\ handle.type = "none" <=> handle = NoHandle
         /\ handle = NoHandle => path = Root /\ listed = <<>>
                                 /\ [type |-> handle.type, path |-> path] = Tree!Closed
         /\ handle.type = "directory" =>
              /\ \E n \in nodes : n.path = path /\ n.type = "directory"
              /\ handle = [type |-> "directory", dir |-> OpenDirectory(mounted, path)]
              /\ PartOf(listed, AllOf(handle.dir))
         /\ handle.type = "file" =>
              /\ listed = <<>>
              /\ \E n \in nodes : /\ n.path = path /\ n.type = "file"
                                  /\ handle = [type |-> "file", size |-> n.size]
<1>1. NoHandle.type = "none"
  BY DEF NoHandle
<1>2. CASE handle = NoHandle /\ path = Root /\ listed = <<>>
  <2>1. [type |-> handle.type, path |-> path] = Tree!Closed
    BY <1>1, <1>2 DEF Tree!Closed, Root
  <2> QED
    BY <1>1, <1>2, <2>1
<1>3. CASE /\ listed = <<>>
           /\ \E n \in nodes : /\ n.path = path /\ n.type = "file"
                               /\ handle = [type |-> "file", size |-> n.size]
  <2>1. handle.type = "file"
    BY <1>3
  <2> QED
    BY <1>1, <1>3, <2>1
<1>4. CASE /\ \E n \in nodes : n.path = path /\ n.type = "directory"
           /\ handle = [type |-> "directory", dir |-> OpenDirectory(mounted, path)]
           /\ PartOf(listed, AllOf(handle.dir))
  <2>1. handle.type = "directory"
    BY <1>4
  <2> QED
    BY <1>1, <1>4, <2>1
<1> QED
  BY <1>2, <1>3, <1>4 DEF Opened

\* A node with the type that was asked for first.
LEMMA TypeIs ==
  ASSUME IInv, NEW p \in Asked
  PROVE  /\ Type(p) = "none" => \A n \in nodes : n.path # p
         /\ Type(p) # "none" =>
              \E n \in nodes : /\ n.path = p /\ IsNode(n) /\ n.type = Type(p)
                               /\ ServesNode(mounted, p, n.type, n.size, ChildrenIn(nodes, p))
         /\ Type(p) \in {"none", "file", "directory"}
<1>1. p \in Paths /\ Stands(mounted, nodes)
  BY AskedIs DEF IInv
<1>2. CASE (\A n \in nodes : n.path # p) /\ GetAttributes(mounted, p) = NoFile
  <2>1. Type(p) = "none"
    BY <1>2 DEF Type, NoFile, Failure
  <2> QED
    BY <1>2, <2>1
<1>3. CASE \E n \in nodes : /\ n.path = p /\ IsNode(n)
                            /\ ServesNode(mounted, p, n.type, n.size, ChildrenIn(nodes, p))
                            /\ GetAttributes(mounted, p).type = n.type
                            /\ GetAttributes(mounted, p).size = n.size
  <2>1. PICK n \in nodes : /\ n.path = p /\ IsNode(n)
                           /\ ServesNode(mounted, p, n.type, n.size, ChildrenIn(nodes, p))
                           /\ GetAttributes(mounted, p).type = n.type
    BY <1>3
  <2>2. Type(p) = n.type /\ n.type # "none" /\ n.type \in {"none", "file", "directory"}
    BY <2>1, NodeIs DEF Type
  <2> QED
    BY <2>1, <2>2
<1> QED
  BY <1>1, <1>2, <1>3, AttributesAre

LEMMA RefusedOpenStep ==
  ASSUME IInv, Rests, handle = NoHandle, NEW p \in Asked, NEW mode \in Modes,
         Refuse("open", p, mode), Type(p) = "none" \/ (Type(p) = "file" /\ mode # Read)
  PROVE  IInv' /\ Tree!Next
<1>1. reply' = Reply("open", p, mode, "none", 0)
  BY RefuseWith
<1>2. Replied' /\ reply' # NoReply /\ reply'.path = p /\ reply'.mode = mode
  BY <1>1, RestsIs, RepliedWith
<1>3. ~ Tree!Exists(p) \/ (~ Tree!IsDirectory(p) /\ mode # {"read"})
  <2>1. CASE Type(p) = "none"
    BY <2>1, TypeIs DEF Tree!Exists
  <2>2. CASE Type(p) = "file" /\ mode # Read
    <3>1. PICK n \in nodes : n.path = p /\ n.type = "file"
      BY <2>2, TypeIs
    <3>2. \A m \in nodes : m.path = p => m = n
      BY <3>1, OneNode DEF IInv
    <3> QED
      BY <2>2, <3>1, <3>2 DEF Tree!IsDirectory, Read
  <2> QED
    BY <2>1, <2>2
<1>4. [type |-> handle.type, path |-> path] = Tree!Closed
  BY HandleIs DEF IInv
<1>5. Tree!Open(p, mode)
  BY <1>1, <1>3, <1>4, RestsIs, TreeReplies DEF Tree!Open
<1> QED
  BY <1>2, <1>5, RestsIs, TreeAnswers

\* What is opened is told of with its attributes.
LEMMA OpenStep ==
  ASSUME IInv, UNCHANGED <<front, mounted, nodes, listed>>, handle = NoHandle,
         NEW p \in Asked, NEW mode \in Modes, NEW n \in nodes, n.path = p, IsNode(n),
         n.type = "directory" \/ mode = Read,
         path' = p, reply' = Reply("open", p, mode, n.type, n.size),
         \/ n.type = "file" /\ handle' = [type |-> "file", size |-> n.size]
         \/ n.type = "directory" /\ handle' = [type |-> "directory", dir |-> OpenDirectory(mounted, p)]
  PROVE  IInv' /\ Tree!Next
<1>1. Replied' /\ reply' # NoReply /\ reply'.path = p /\ reply'.mode = mode
  BY NodeIs, RepliedWith
<1>2. handle'.type = n.type
  OBVIOUS
<1>3. /\ listed = <<>> /\ listed' = <<>>
      /\ [type |-> handle.type, path |-> path] = Tree!Closed
  BY HandleIs DEF IInv
<1>4. Opened'
  <2>1. CASE n.type = "file" /\ handle' = [type |-> "file", size |-> n.size]
    BY <1>3, <2>1 DEF Opened
  <2>2. CASE n.type = "directory" /\ handle' = [type |-> "directory", dir |-> OpenDirectory(mounted, p)]
    <3>1. ServesNode(mounted, p, "directory", n.size, ChildrenIn(nodes, p))
      BY <2>2 DEF IInv, Stands, Serves
    <3>2. Lists(OpenDirectory(mounted, p), ChildrenIn(nodes, p))
      BY <3>1 DEF ServesNode
    <3>3. AllOf(OpenDirectory(mounted, p)) \in Seq(Listed)
      BY <3>2 DEF Lists, AllOf
    <3>4. PartOf(<<>>, AllOf(OpenDirectory(mounted, p)))
      BY <3>3 DEF PartOf
    <3>5. AllOf(handle.dir)' = AllOf(OpenDirectory(mounted, p))
      BY <2>2 DEF AllOf
    <3>6. PartOf(listed, AllOf(handle.dir))'
      BY <1>3, <3>4, <3>5 DEF PartOf
    <3>7. handle' = [type |-> "directory", dir |-> OpenDirectory(mounted', path')]
      BY <2>2
    <3>8. (\E d \in nodes : d.path = path /\ d.type = "directory")'
      BY <2>2
    <3> QED
      BY <3>6, <3>7, <3>8 DEF Opened
  <2> QED
    BY <2>1, <2>2
<1>5. Tree!Open(p, mode)
  <2>1. [type |-> handle.type, path |-> path]' = [type |-> n.type, path |-> p]
    BY <1>2
  <2>2. reply' = Tree!Found("open", n, mode)
    BY TreeReplies
  <2>3. n.type = "directory" \/ mode = {"read"}
    BY DEF Read
  <2> QED
    BY <1>3, <2>1, <2>2, <2>3 DEF Tree!Open
<1> QED
  BY <1>1, <1>4, <1>5, Kept, TreeAnswers

LEMMA OpenedFileStep ==
  ASSUME IInv, UNCHANGED <<front, mounted, nodes, listed>>, handle = NoHandle,
         NEW p \in Asked, NEW mode \in Modes, Type(p) = "file",
         OpenedFile(p, mode, OpenFile(mounted, p, mode))
  PROVE  IInv' /\ Tree!Next
<1>1. PICK n \in nodes : /\ n.path = p /\ IsNode(n) /\ n.type = "file"
                         /\ ServesNode(mounted, p, n.type, n.size, ChildrenIn(nodes, p))
  BY TypeIs
<1>2. /\ OpenFile(mounted, p, Read) = File(n.size)
      /\ mode # Read => OpenFile(mounted, p, mode).res # "SUCCESS"
  BY <1>1 DEF ServesNode
<1>3. CASE mode = Read
  <2>1. OpenFile(mounted, p, mode).res = "SUCCESS" /\ OpenFile(mounted, p, mode).size = n.size
    BY <1>2, <1>3 DEF File
  <2>2. /\ handle' = [type |-> "file", size |-> n.size] /\ path' = p
        /\ Answer("open", p, mode, GetAttributes(mounted, p))
    BY <2>1 DEF OpenedFile
  <2>3. reply' = Reply("open", p, mode, n.type, n.size)
    <3>1. GetAttributes(mounted, p) = [res |-> "SUCCESS", type |-> n.type, size |-> n.size]
      BY <1>1 DEF ServesNode
    <3>2. GetAttributes(mounted, p).type = n.type /\ GetAttributes(mounted, p).size = n.size
      BY <3>1
    <3>3. reply' = Reply("open", p, mode, n.type, IF n.type = "file" THEN n.size ELSE 0)
      BY <2>2, <3>2, AnswerWith
    <3> QED
      BY <1>1, <3>3
  <2> QED
    BY <1>1, <1>3, <2>2, <2>3, OpenStep
<1>4. CASE mode # Read
  <2>1. Refuse("open", p, mode) /\ UNCHANGED <<handle, path>>
    BY <1>2, <1>4 DEF OpenedFile
  <2>2. Rests
    BY <2>1 DEF Rests
  <2> QED
    BY <1>4, <2>1, <2>2, RefusedOpenStep
<1> QED
  BY <1>3, <1>4

LEMMA OpenedDirectoryStep ==
  ASSUME IInv, UNCHANGED <<front, mounted, nodes, listed>>, handle = NoHandle,
         NEW p \in Asked, NEW mode \in Modes, Type(p) = "directory",
         OpenedDirectory(p, mode, OpenDirectory(mounted, p))
  PROVE  IInv' /\ Tree!Next
<1>1. PICK n \in nodes : /\ n.path = p /\ IsNode(n) /\ n.type = "directory"
                         /\ ServesNode(mounted, p, n.type, n.size, ChildrenIn(nodes, p))
  BY TypeIs
<1>2. OpenDirectory(mounted, p).res = "SUCCESS"
  BY <1>1 DEF ServesNode
<1>3. /\ handle' = [type |-> "directory", dir |-> OpenDirectory(mounted, p)] /\ path' = p
      /\ Answer("open", p, mode, Directory)
  BY <1>2 DEF OpenedDirectory
<1>4. reply' = Reply("open", p, mode, n.type, n.size)
  <2>1. Directory.type = "directory" /\ n.size = 0
    BY <1>1 DEF Directory, IsNode
  <2> QED
    BY <1>1, <1>3, <2>1, AnswerWith
<1> QED
  BY <1>1, <1>3, <1>4, OpenStep

LEMMA FuseOpenStep ==
  ASSUME IInv, NEW p, NEW flags, FuseOpen(p, flags)
  PROVE  IInv' /\ Tree!Next
<1> DEFINE mode == ConvertOpenFlags(flags)
<1>1. /\ UNCHANGED <<front, mounted, nodes, listed>> /\ handle = NoHandle /\ p \in Asked
      /\ Type(p) = "file" /\ OpenedFile(p, mode, OpenFile(mounted, p, mode))
  BY DEF FuseOpen, AsksPath, Asks
<1>2. mode \in Modes
  BY DEF ConvertOpenFlags, Modes, Read
<1> HIDE DEF mode
<1> QED
  BY <1>1, <1>2, OpenedFileStep

LEMMA OpenDirStep ==
  ASSUME IInv, NEW p, OpenDir(p)
  PROVE  IInv' /\ Tree!Next
<1>1. /\ UNCHANGED <<front, mounted, nodes, listed>> /\ handle = NoHandle /\ p \in Asked
      /\ Type(p) = "directory" /\ OpenedDirectory(p, {}, OpenDirectory(mounted, p))
  BY DEF OpenDir, AsksPath, Asks
<1> QED
  BY <1>1, EmptyMode, OpenedDirectoryStep

LEMMA WinOpenStep ==
  ASSUME IInv, NEW p, NEW rights, WinOpen(p, rights)
  PROVE  IInv' /\ Tree!Next
<1> DEFINE mode == ConvertAccess(rights)
<1>1. /\ UNCHANGED <<front, mounted, nodes, listed>> /\ handle = NoHandle /\ p \in Asked
      /\ IF Type(p) = "none" THEN Refuse("open", p, mode) /\ UNCHANGED <<handle, path>>
         ELSE IF Type(p) = "directory" THEN OpenedDirectory(p, mode, OpenDirectory(mounted, p))
         ELSE OpenedFile(p, mode, OpenFile(mounted, p, mode))
  BY DEF WinOpen, AsksPath, Asks
<1>2. mode \in Modes
  BY DEF ConvertAccess, Modes
<1> HIDE DEF mode
<1>3. CASE Type(p) = "none"
  <2>1. Rests /\ Refuse("open", p, mode)
    BY <1>1, <1>3 DEF Rests
  <2> QED
    BY <1>1, <1>2, <1>3, <2>1, RefusedOpenStep
<1>4. CASE Type(p) = "directory"
  BY <1>1, <1>2, <1>4, OpenedDirectoryStep
<1>5. CASE Type(p) = "file"
  BY <1>1, <1>2, <1>5, OpenedFileStep
<1> QED
  BY <1>1, <1>3, <1>4, <1>5, TypeIs

-----------------------------------------------------------------------------
(* Requests about what is open.                                            *)

\* A directory that is open lists the children of its node.
LEMMA DirectoryOpen ==
  ASSUME IInv, handle.type = "directory"
  PROVE  LET L == AllOf(handle.dir)
         IN /\ path \in Asked /\ path \in Paths
            /\ L \in Seq(Listed) /\ \A j, k \in DOMAIN L : L[j].name = L[k].name => j = k
            /\ {Shown(L)[k] : k \in DOMAIN L} = Tree!Children(path)
            /\ (IF handle.dir.fs.kind = "romfs" THEN RomChildren(handle.dir.fs, handle.dir.path)
                ELSE Iterated(handle.dir)) = L
            /\ PartOf(listed, L)
<1> DEFINE dir == OpenDirectory(mounted, path)
<1>1. /\ \E n \in nodes : n.path = path /\ n.type = "directory"
      /\ handle = [type |-> "directory", dir |-> dir]
      /\ PartOf(listed, AllOf(handle.dir))
  BY HandleIs DEF IInv
<1>2. handle.dir = dir
  BY <1>1
<1>3. PICK n \in nodes : n.path = path /\ n.type = "directory"
  BY <1>1
<1>4. path \in Asked /\ path \in Paths /\ \A m \in nodes : IsNode(m)
  BY <1>3, AskedIs
<1>5. ServesNode(mounted, path, "directory", n.size, ChildrenIn(nodes, path))
  BY <1>3 DEF IInv, Stands, Serves
<1>6. Lists(dir, ChildrenIn(nodes, path))
  BY <1>5 DEF ServesNode
<1>7. Tree!Children(path) = ChildrenIn(nodes, path)
  BY <1>4, TreeChildren
<1> HIDE DEF dir
<1>8. Lists(dir, Tree!Children(path))
  BY <1>6, <1>7
<1>9. /\ AllOf(dir) \in Seq(Listed)
      /\ \A j, k \in DOMAIN AllOf(dir) : AllOf(dir)[j].name = AllOf(dir)[k].name => j = k
      /\ {Shown(AllOf(dir))[k] : k \in DOMAIN AllOf(dir)} = Tree!Children(path)
      /\ (IF dir.fs.kind = "romfs" THEN RomChildren(dir.fs, dir.path) ELSE Iterated(dir)) = AllOf(dir)
  BY <1>8, Zenon DEF Lists, AllOf
<1> QED
  BY <1>1, <1>2, <1>4, <1>9

\* What was delivered is in the directory, each entry once; all of it, if it is as long.
LEMMA PartDelivered ==
  ASSUME NEW L \in Seq(Listed), \A j, k \in DOMAIN L : L[j].name = L[k].name => j = k,
         NEW l, PartOf(l, L)
  PROVE  /\ Tree!Delivered(l) \subseteq {Shown(L)[k] : k \in DOMAIN L} /\ Tree!Once(l)
         /\ Len(l) = Len(L) => Tree!Delivered(l) = {Shown(L)[k] : k \in DOMAIN L}
<1>1. /\ Len(l) \in Nat /\ Len(L) \in Nat /\ DOMAIN l = 1 .. Len(l) /\ DOMAIN L = 1 .. Len(L)
      /\ Len(l) <= Len(L)
  BY DEF PartOf
<1>2. \A k \in DOMAIN L : Shown(L)[k] = ShownEntry(L[k]) /\ Shown(L)[k].name = L[k].name
  BY ShownIs
<1>3. \A k \in DOMAIN l : k \in DOMAIN L /\ l[k] = Shown(L)[k] /\ l[k].name = L[k].name
  BY <1>1, <1>2 DEF PartOf
<1>4. Tree!Delivered(l) = {l[k] : k \in DOMAIN l}
  BY DEF Tree!Delivered
<1>5. Tree!Once(l)
  BY <1>3 DEF Tree!Once
<1>6. Tree!Delivered(l) \subseteq {Shown(L)[k] : k \in DOMAIN L}
  BY <1>3, <1>4
<1>7. Len(l) = Len(L) => Tree!Delivered(l) = {Shown(L)[k] : k \in DOMAIN L}
  <2>1. SUFFICES ASSUME Len(l) = Len(L) PROVE Tree!Delivered(l) = {Shown(L)[k] : k \in DOMAIN L}
    OBVIOUS
  <2>2. DOMAIN l = DOMAIN L
    BY <1>1, <2>1
  <2> QED
    BY <1>3, <1>4, <2>2
<1> QED
  BY <1>5, <1>6, <1>7

LEMMA DeliverWith ==
  ASSUME NEW op, NEW entries, Deliver(op, entries)
  PROVE  reply' = Reply(op, path, {}, "directory", Len(entries))
BY DEF Deliver, Reply

\* What an open directory has delivered can change, as long as it is a part of it.
LEMMA OpenedStays ==
  ASSUME IInv, handle.type = "directory", UNCHANGED <<mounted, nodes, handle, path>>,
         PartOf(listed', AllOf(handle.dir))
  PROVE  Opened'
<1>1. /\ \E n \in nodes : n.path = path /\ n.type = "directory"
      /\ handle = [type |-> "directory", dir |-> OpenDirectory(mounted, path)]
  BY HandleIs DEF IInv
<1>2. PartOf(listed, AllOf(handle.dir))'
  BY DEF PartOf, AllOf
<1> QED
  BY <1>1, <1>2 DEF Opened

LEMMA ReadDirStep ==
  ASSUME IInv, ReadDir
  PROVE  IInv' /\ Tree!Next
<1> DEFINE L == AllOf(handle.dir)
<1>1. /\ UNCHANGED <<front, mounted, nodes, handle, path>> /\ handle.type = "directory"
      /\ listed' = Shown(L) /\ Deliver("list", L)
  BY DEF ReadDir, AsksHandle, Asks, AllOf
<1>2. /\ path \in Asked
      /\ L \in Seq(Listed) /\ \A j, k \in DOMAIN L : L[j].name = L[k].name => j = k
      /\ {Shown(L)[k] : k \in DOMAIN L} = Tree!Children(path)
  BY <1>1, DirectoryOpen
<1>3. Shown(L) \in Seq(Listed) /\ Len(Shown(L)) = Len(L) /\ Len(L) \in Nat
      /\ \A k \in DOMAIN L : Shown(L)[k] = ShownEntry(L[k])
  BY <1>2, ShownIs
<1>4. PartOf(Shown(L), L)
  <2> HIDE DEF L
  <2> QED
    BY <1>2, <1>3 DEF PartOf
<1>5. Opened'
  BY <1>1, <1>4, OpenedStays
<1> HIDE DEF L
<1>6. reply' = Reply("list", path, {}, "directory", Len(L))
  BY <1>1, DeliverWith
<1>7. Replied'
  BY <1>1, <1>2, <1>3, <1>6, EmptyMode, RepliedWith
<1>8. Tree!List
  <2>1. Tree!Delivered(listed') = Tree!Children(path) /\ Tree!Once(listed')
    BY <1>1, <1>2, <1>3, <1>4, PartDelivered
  <2>2. reply' = Tree!Count("list", Len(listed'))
    BY <1>1, <1>3, <1>6, TreeReplies
  <2> QED
    BY <1>1, <2>1, <2>2 DEF Tree!List
<1> QED
  BY <1>1, <1>5, <1>7, <1>8, Kept DEF Tree!Next

LEMMA ReadDirectoryStep ==
  ASSUME IInv, NEW room \in 1 .. MaxRoom, ReadDirectory(room)
  PROVE  IInv' /\ Tree!Next
<1> DEFINE L == AllOf(handle.dir)
           marker == IF listed = <<>> THEN NoName ELSE listed[Len(listed)].name
           page == ForEachEntry(handle.dir, marker, room)
           new == listed \o Shown(page)
<1>1. /\ UNCHANGED <<front, mounted, nodes, handle, path>> /\ handle.type = "directory"
      /\ listed' = new /\ Deliver("page", page)
  BY DEF ReadDirectory, AsksHandle, Asks
<1>2. /\ path \in Asked
      /\ L \in Seq(Listed) /\ \A j, k \in DOMAIN L : L[j].name = L[k].name => j = k
      /\ {Shown(L)[k] : k \in DOMAIN L} = Tree!Children(path)
      /\ (IF handle.dir.fs.kind = "romfs" THEN RomChildren(handle.dir.fs, handle.dir.path)
          ELSE Iterated(handle.dir)) = L
      /\ PartOf(listed, L)
  BY <1>1, DirectoryOpen
<1>3. room \in Nat \ {0}
  BY FrontEndAssumption DEF FrontEndAssumption
<1>4. page = Window(Behind(L, marker), room, 0)
  <2> HIDE DEF L, marker
  <2> QED
    BY <1>2, Zenon DEF ForEachEntry
<1> HIDE DEF L, page
<1>5. page = NextPage(L, listed, room) /\ new = Continued(L, listed, room)
  BY <1>4, Zenon DEF NextPage, Continued
<1>6. /\ PartOf(new, L)
      /\ Len(page) \in Nat /\ Len(new) = Len(listed) + Len(page)
      /\ SubSeq(new, 1, Len(listed)) = listed
      /\ new = listed => Len(listed) = Len(L)
  <2> HIDE DEF new
  <2> QED
    BY <1>2, <1>3, <1>5, PageContinues
<1> HIDE DEF new, marker
<1>7. Opened'
  BY <1>1, <1>6, OpenedStays DEF L
<1>8. reply' = Reply("page", path, {}, "directory", Len(page))
  BY <1>1, DeliverWith
<1>9. Replied'
  BY <1>1, <1>2, <1>6, <1>8, EmptyMode, RepliedWith
<1>10. Tree!Page
  <2>0. Len(listed) \in Nat
    BY <1>2 DEF PartOf
  <2>1. Tree!Delivered(listed') \subseteq Tree!Children(path) /\ Tree!Once(listed')
    BY <1>1, <1>2, <1>6, PartDelivered
  <2>2. listed' = listed => Tree!Delivered(listed) = Tree!Children(path)
    BY <1>1, <1>2, <1>6, PartDelivered
  <2>3. Len(listed') >= Len(listed) /\ Len(listed') - Len(listed) = Len(page)
    BY <1>1, <1>6, <2>0
  <2>4. reply' = Tree!Count("page", Len(listed') - Len(listed))
    BY <1>1, <1>8, <2>3, TreeReplies
  <2>5. SubSeq(listed', 1, Len(listed)) = listed
    BY <1>1, <1>6
  <2> QED
    BY <1>1, <2>1, <2>2, <2>3, <2>4, <2>5 DEF Tree!Page
<1> QED
  BY <1>1, <1>7, <1>9, <1>10, Kept DEF Tree!Next

LEMMA GetFileInfoStep ==
  ASSUME IInv, GetFileInfo
  PROVE  IInv' /\ Tree!Next
<1>1. /\ Rests /\ handle # NoHandle
      /\ Answer("info", path, {}, IF handle.type = "directory" THEN Directory ELSE File(handle.size))
  BY DEF GetFileInfo, Asks, Rests
<1>2. handle.type \in {"file", "directory"}
  BY <1>1, HandleIs DEF IInv
<1>3. PICK n \in nodes : /\ n.path = path /\ n.type = handle.type
                         /\ n.type = "file" => handle.size = n.size
  <2>1. CASE handle.type = "file"
    <3>1. PICK n \in nodes : /\ n.path = path /\ n.type = "file"
                             /\ handle = [type |-> "file", size |-> n.size]
      BY <2>1, HandleIs DEF IInv
    <3>2. handle.size = n.size
      BY <3>1
    <3> QED
      BY <2>1, <3>1, <3>2
  <2>2. CASE handle.type = "directory"
    BY <2>2, HandleIs DEF IInv
  <2> QED
    BY <1>2, <2>1, <2>2
<1>4. IsNode(n) /\ path \in Asked
  BY <1>3, AskedIs
<1>5. reply' = Reply("info", path, {}, n.type, n.size)
  <2>1. CASE n.type = "directory"
    <3>1. Directory.type = "directory" /\ n.size = 0
      BY <1>4, <2>1 DEF Directory, IsNode
    <3> QED
      BY <1>1, <1>3, <2>1, <3>1, AnswerWith
  <2>2. CASE n.type = "file"
    <3>1. File(handle.size).type = "file" /\ File(handle.size).size = n.size
      BY <1>3, <2>2 DEF File
    <3> QED
      BY <1>1, <1>3, <2>2, <3>1, AnswerWith
  <2> QED
    BY <1>2, <1>3, <2>1, <2>2
<1>6. Replied'
  BY <1>1, <1>4, <1>5, EmptyMode, NodeIs, RestsIs, RepliedWith
<1>7. Tree!Info
  <2>1. reply' = Tree!Found("info", n, {})
    BY <1>3, <1>5, TreeReplies
  <2>2. n.path = path /\ n.type = handle.type
    BY <1>3
  <2> QED
    BY <1>1, <2>1, <2>2, RestsIs DEF Tree!Info
<1> QED
  BY <1>1, <1>6, <1>7, RestsIs DEF Tree!Next

LEMMA RestartScanStep ==
  ASSUME IInv, RestartScan
  PROVE  IInv' /\ Tree!Next
<1>1. /\ UNCHANGED <<front, mounted, nodes, handle, path, reply>> /\ handle.type = "directory"
      /\ listed' = <<>>
  BY DEF RestartScan, AsksHandle, Asks
<1>2. AllOf(handle.dir) \in Seq(Listed)
  BY <1>1, DirectoryOpen
<1>3. PartOf(<<>>, AllOf(handle.dir))
  BY <1>2 DEF PartOf
<1>4. Opened'
  BY <1>1, <1>3, OpenedStays
<1>5. Replied'
  BY <1>1 DEF IInv, Replied, Asked, IsTitle
<1>6. Tree!Rewind
  BY <1>1 DEF Tree!Rewind
<1> QED
  BY <1>1, <1>4, <1>5, <1>6, Kept DEF Tree!Next

LEMMA CloseStep ==
  ASSUME IInv, Release \/ Close
  PROVE  IInv' /\ Tree!Next
<1>1. /\ UNCHANGED <<front, mounted, nodes, reply>> /\ handle' = NoHandle /\ path' = Root
      /\ listed' = <<>>
  BY DEF Release, Close
<1>2. Opened'
  BY <1>1 DEF Opened
<1>3. Replied'
  BY <1>1 DEF IInv, Replied, Asked, IsTitle
<1>4. [type |-> handle.type, path |-> path]' = Tree!Closed
  BY <1>1 DEF Tree!Closed, NoHandle, Root
<1>5. Tree!Close
  BY <1>1, <1>4 DEF Tree!Close
<1> QED
  BY <1>1, <1>2, <1>3, <1>5, Kept DEF Tree!Next

LEMMA TakeStep ==
  ASSUME IInv, Take
  PROVE  IInv' /\ Tree!Next
<1>1. Rests /\ reply' = NoReply
  BY DEF Take, Rests
<1>2. Replied'
  BY <1>1 DEF Replied
<1>3. Tree!Take
  BY <1>1, RestsIs DEF Tree!Take
<1> QED
  BY <1>1, <1>2, <1>3, RestsIs DEF Tree!Next

LEMMA TruncateStep ==
  ASSUME IInv, NEW p, Truncate(p)
  PROVE  IInv' /\ Tree!Next
<1>1. /\ Rests /\ p \in Asked /\ Type(p) = "file"
      /\ IF OpenFile(mounted, p, {"write"}).res = "SUCCESS"
         THEN Answer("change", p, {"write"}, OpenFile(mounted, p, {"write"}))
         ELSE Refuse("change", p, {"write"})
  BY AskPath DEF Truncate
<1>2. PICK n \in nodes : /\ n.path = p /\ n.type = "file"
                         /\ ServesNode(mounted, p, n.type, n.size, ChildrenIn(nodes, p))
  BY <1>1, TypeIs
<1>3. OpenFile(mounted, p, {"write"}).res # "SUCCESS"
  BY <1>2, EmptyMode DEF ServesNode
<1> QED
  BY <1>1, <1>3, EmptyMode, ChangeStep

-----------------------------------------------------------------------------
(* The theorems.                                                           *)

\* Requests about a path.
LEMMA ChangesAre ==
  ASSUME IInv, NEW p, FuseChange(p) \/ WinChange(p)
  PROVE  IInv' /\ Tree!Next
<1>1. Rests /\ p \in Asked /\ Refuse("change", p, {})
  BY AskPath DEF FuseChange, WinChange
<1> QED
  BY <1>1, EmptyMode, ChangeStep

LEMMA FuseStep ==
  ASSUME IInv, Fuse
  PROVE  IInv' /\ Tree!Next
<1>1. CASE \E p \in Asked :
             \/ GetAttr(p) \/ OpenDir(p) \/ Truncate(p) \/ FuseChange(p)
             \/ \E flags \in Flags : FuseOpen(p, flags)
             \/ \E mask \in Masks : CheckAccess(p, mask)
  <2>1. PICK p \in Asked :
             \/ GetAttr(p) \/ OpenDir(p) \/ Truncate(p) \/ FuseChange(p)
             \/ \E flags \in Flags : FuseOpen(p, flags)
             \/ \E mask \in Masks : CheckAccess(p, mask)
    BY <1>1
  <2>2. CASE GetAttr(p)
    BY <2>2, GetAttrStep
  <2>3. CASE OpenDir(p)
    BY <2>3, OpenDirStep
  <2>4. CASE Truncate(p)
    BY <2>4, TruncateStep
  <2>5. CASE FuseChange(p)
    BY <2>5, ChangesAre
  <2>6. CASE \E flags \in Flags : FuseOpen(p, flags)
    BY <2>6, FuseOpenStep
  <2>7. CASE \E mask \in Masks : CheckAccess(p, mask)
    BY <2>7, CheckAccessStep
  <2> QED
    BY <2>1, <2>2, <2>3, <2>4, <2>5, <2>6, <2>7, Zenon
<1>2. CASE ReadDir
  BY <1>2, ReadDirStep
<1>3. CASE Release
  BY <1>3, CloseStep
<1> QED
  BY <1>1, <1>2, <1>3, Zenon DEF Fuse

LEMMA WinFspStep ==
  ASSUME IInv, WinFsp
  PROVE  IInv' /\ Tree!Next
<1>1. CASE \E p \in Asked :
             \/ GetSecurityByName(p) \/ WinChange(p)
             \/ \E rights \in Rights : WinOpen(p, rights)
  <2>1. PICK p \in Asked :
             \/ GetSecurityByName(p) \/ WinChange(p)
             \/ \E rights \in Rights : WinOpen(p, rights)
    BY <1>1
  <2>2. CASE GetSecurityByName(p)
    BY <2>2, GetSecurityByNameStep
  <2>3. CASE WinChange(p)
    BY <2>3, ChangesAre
  <2>4. CASE \E rights \in Rights : WinOpen(p, rights)
    BY <2>4, WinOpenStep
  <2> QED
    BY <2>1, <2>2, <2>3, <2>4, Zenon
<1>2. CASE GetFileInfo
  BY <1>2, GetFileInfoStep
<1>3. CASE RestartScan
  BY <1>3, RestartScanStep
<1>4. CASE Close
  BY <1>4, CloseStep
<1>5. CASE \E room \in 1 .. MaxRoom : ReadDirectory(room)
  BY <1>5, ReadDirectoryStep
<1> QED
  BY <1>1, <1>2, <1>3, <1>4, <1>5, Zenon DEF WinFsp

\* Every step keeps the invariant, and is a step of MountedTree.
LEMMA NextStep ==
  ASSUME IInv, Next
  PROVE  IInv' /\ Tree!Next
BY FuseStep, WinFspStep, TakeStep, Zenon DEF Next

LEMMA StutterStep ==
  ASSUME IInv, UNCHANGED vars
  PROVE  IInv' /\ UNCHANGED Tree!treeVars
<1>1. Rests /\ reply' = reply
  BY DEF vars, Rests
<1>2. Replied'
  BY <1>1 DEF IInv, Replied, Asked, IsTitle, Rests
<1>3. UNCHANGED Tree!treeVars
  BY <1>1, RestsIs DEF Tree!treeVars
<1> QED
  BY <1>1, <1>2, <1>3, RestsIs

LEMMA InitStands ==
  ASSUME SoundImages, Init
  PROVE  IInv
<1>1. PICK m \in Images : mounted = Initialized(m, front = "winfsp")
  BY DEF Init
<1>2. Stands(mounted, nodes)
  <2>1. nodes = Contents(mounted)
    BY DEF Init
  <2> QED
    BY <1>1, <2>1, MountedStands
<1>3. Opened
  BY DEF Init, Opened
<1>4. Replied
  BY DEF Init, Replied
<1> QED
  BY <1>2, <1>3, <1>4 DEF Init, IInv

LEMMA InitTree ==
  ASSUME SoundImages, Init
  PROVE  Tree!Init
<1>1. IInv
  BY InitStands
<1>2. IsBranch(nodes) /\ RootNode \in nodes
  BY <1>1 DEF IInv, Stands
<1>3. Tree!IsDirectory(<<>>)
  BY <1>2, RootNodeIs DEF Tree!IsDirectory, Root
<1>4. \A n \in nodes : n.path = <<>> \/ Tree!IsDirectory(Tree!Parent(n.path))
  <2>1. \A q : Tree!Parent(q) = Parent(q)
    BY DEF Tree!Parent, Parent
  <2>2. \A n \in nodes : n.path # Root => \E d \in nodes : d.path = Parent(n.path) /\ d.type = "directory"
    BY <1>2 DEF IsBranch
  <2> QED
    BY <2>1, <2>2, Zenon DEF Tree!IsDirectory, Root
<1>5. \A n, o \in nodes : n.path = o.path => n = o
  BY <1>2 DEF IsBranch
<1>6. [type |-> handle.type, path |-> path] = Tree!Closed
  <2>1. Opened /\ handle = NoHandle
    BY <1>1 DEF IInv, Init
  <2> QED
    BY <2>1, HandleIs
<1>7. listed = <<>> /\ reply = NoReply
  BY DEF Init
<1> QED
  BY <1>3, <1>4, <1>5, <1>6, <1>7 DEF Tree!Init, Tree!IsTree

\* The inductive invariant, where no directory has a name twice: what is mounted serves
\* the tree that it stands for, the handle is a node of that tree, what was delivered
\* from it is a first part of its listing, and every reply is well formed.
THEOREM FrontEndInductive ==
  ASSUME SoundImages
  PROVE  Spec => []IInv
<1>1. Init => IInv
  BY InitStands
<1>2. IInv /\ [Next]_vars => IInv'
  BY NextStep, StutterStep
<1> QED
  BY <1>1, <1>2, PTL DEF Spec

LEMMA OpenedTyped ==
  ASSUME IInv
  PROVE  TypeOK
<1>1. /\ front \in FrontEnds /\ Opened
      /\ handle.type \in {"none", "file", "directory"}
      /\ handle = NoHandle => path = Root /\ listed = <<>>
  BY HandleIs DEF IInv
<1>2. path \in Asked
  <2>1. path = Root \/ \E n \in nodes : n.path = path
    BY <1>1 DEF Opened
  <2> QED
    BY <2>1, AskedIs
<1>3. \A k \in DOMAIN listed : listed[k].name # NoName /\ listed[k].size \in Nat
  <2>1. CASE listed = <<>>
    BY <2>1
  <2>2. CASE listed # <<>>
    <3>1. PartOf(listed, AllOf(handle.dir))
      BY <1>1, <2>2 DEF Opened
    <3>2. listed \in Seq(Listed)
      BY <3>1 DEF PartOf
    <3>3. \A k \in DOMAIN listed : listed[k] \in Listed
      BY <3>2
    <3> QED
      BY <3>3, NoNameIs DEF Listed
  <2> QED
    BY <2>1, <2>2
<1>4. reply # NoReply => reply.path \in Asked /\ reply.size \in Nat
  BY DEF IInv, Replied, Replies
<1> QED
  BY <1>1, <1>2, <1>3, <1>4 DEF TypeOK

\* What is open is open under a path that exists, entries that were delivered have names
\* and sizes, and every reply is about a path that was asked for.
THEOREM FrontEndTypeCorrect ==
  ASSUME SoundImages
  PROVE  Spec => []TypeOK
<1>1. IInv => TypeOK
  BY OpenedTyped
<1> QED
  BY <1>1, FrontEndInductive, PTL

\* access grants reading of all that getAttributes finds, except for the root of a title,
\* and nothing else.
THEOREM AccessAgreesCorrect ==
  ASSUME SoundImages
  PROVE  Spec => []AccessAgrees
<1>1. IInv => AccessAgrees
  BY DEF IInv, Replied, AccessAgrees
<1> QED
  BY <1>1, FrontEndInductive, PTL

\* Where no directory has a name twice, all that FUSE and WinFsp are told is told of one
\* tree, whichever way they ask: FrontEnd implements MountedTree.
THEOREM ServesTreeCorrect ==
  ASSUME SoundImages
  PROVE  Spec => ServesTree
<1>1. Init => Tree!Init
  BY InitTree
<1>2. IInv /\ [Next]_vars => [Tree!Next]_(Tree!treeVars)
  BY NextStep, StutterStep
<1> QED
  BY <1>1, <1>2, FrontEndInductive, PTL DEF Spec, ServesTree, Tree!Spec
=============================================================================
