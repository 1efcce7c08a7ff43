----------------------------- MODULE MountProofs -----------------------------
(***************************************************************************)
(* Proofs about the driver: Mount for any packages, any number of them and *)
(* any keys, and, at the end, its Logger for any number of threads and     *)
(* messages, wherever exit may catch a thread, with and without the fork.  *)
(*                                                                         *)
(* The functions of partition file systems are loops over mEntries, which  *)
(* the model writes as recursive functions: LoopRuns and LoopKeeps reason  *)
(* about their rounds.  MountInv follows who owns what: the file systems   *)
(* that the process holds are exactly those the tree reaches from the      *)
(* base, the tree lists every NCA of theirs once, under a name that is no  *)
(* file's, and what sections, bases and tickets refer to is among them.    *)
(*                                                                         *)
(* LoggerInv says where a message is between pop() and print, who can be   *)
(* in exit, that flush() begins once the worker has left its loop, and     *)
(* what can be accepted after exit was called: the one message that a      *)
(* thread was pushing.                                                     *)
(***************************************************************************)
EXTENDS Mount, Logger, SequenceTheorems, FiniteSetTheorems, WellFoundedInduction, TLAPS

\* A set of numbers has a least one: what stands for induction below.
LEMMA LeastOfSet ==
  ASSUME NEW T \in SUBSET Nat, T # {}
  PROVE  \E x \in T : \A y \in T : x <= y
<1>1. PICK x \in T : \A y \in T : ~ (<<y, x>> \in OpToRel(<, Nat))
  BY NatLessThanWellFounded, WFMin
<1>2. ASSUME NEW y \in T PROVE ~ (y < x)
  BY <1>1 DEF OpToRel
<1>3. \A y \in T : x <= y
  BY <1>2
<1> QED
  BY <1>3

\* What holds before a loop and is kept by every round holds after each.
LEMMA LoopKeeps ==
  ASSUME NEW n \in Nat, NEW good,
         0 \in good, \A j \in 1 .. n : j - 1 \in good => j \in good
  PROVE  \A j \in 0 .. n : j \in good
<1> DEFINE Bad == {j \in 0 .. n : j \notin good}
<1>1. SUFFICES ASSUME Bad # {} PROVE FALSE
  OBVIOUS
<1>2. PICK j \in Bad : \A i \in Bad : j <= i
  <2>1. Bad \in SUBSET Nat
    OBVIOUS
  <2> HIDE DEF Bad
  <2> QED
    BY <1>1, <2>1, LeastOfSet
<1>3. j # 0 /\ j \in 1 .. n
  OBVIOUS
<1>4. j - 1 \in 0 .. n /\ ~ (j <= j - 1)
  BY <1>3
<1>5. j - 1 \in good
  BY <1>2, <1>4
<1> QED
  BY <1>3, <1>5

\* The course f[0], .., f[n] of a loop.
IsCourse(f, n, start, step) ==
  f = [j \in 0 .. n |-> IF j = 0 THEN start ELSE step[j][f[j - 1]]]

\* A loop whose rounds lead from one set of states to the next has a course:
\* the recursive functions of Mount stand for what they seem to.
LEMMA LoopRuns ==
  ASSUME NEW n \in Nat, NEW D, NEW start \in D[0], NEW step,
         \A j \in 1 .. n : \A d \in D[j - 1] : step[j][d] \in D[j]
  PROVE  \E f : IsCourse(f, n, start, step) /\ \A j \in 0 .. n : f[j] \in D[j]
<1> DEFINE Course(m, f) ==
             /\ f = [j \in 0 .. m |-> f[j]]
             /\ \A j \in 0 .. m : f[j] \in D[j]
             /\ \A j \in 0 .. m : f[j] = IF j = 0 THEN start ELSE step[j][f[j - 1]]
           good == {m \in 0 .. n : \E f : Course(m, f)}
<1>1. 0 \in good
  <2> DEFINE f == [j \in 0 .. 0 |-> start]
  <2>1. Course(0, f)
    OBVIOUS
  <2>2. \E h : Course(0, h)
    <3> HIDE DEF Course, f
    <3> QED
      BY <2>1
  <2> QED
    BY <2>2
<1>2. ASSUME NEW m \in 1 .. n, m - 1 \in good PROVE m \in good
  <2>1. PICK f : Course(m - 1, f)
    BY <1>2
  <2> DEFINE g == [j \in 0 .. m |-> IF j = m THEN step[m][f[m - 1]] ELSE f[j]]
  <2>2. m - 1 \in 0 .. m - 1 /\ m \in 1 .. n
    OBVIOUS
  <2>3. f[m - 1] \in D[m - 1]
    BY <2>1, <2>2
  <2>4. step[m][f[m - 1]] \in D[m]
    BY <2>2, <2>3
  <2>5. \A j \in 0 .. m : g[j] \in D[j]
    <3>1. SUFFICES ASSUME NEW j \in 0 .. m, j # m PROVE f[j] \in D[j]
      BY <2>4
    <3> QED
      BY <2>1, <3>1
  <2>6. \A j \in 0 .. m : g[j] = IF j = 0 THEN start ELSE step[j][g[j - 1]]
    <3>1. SUFFICES ASSUME NEW j \in 0 .. m
                   PROVE  g[j] = IF j = 0 THEN start ELSE step[j][g[j - 1]]
      OBVIOUS
    <3>2. CASE j = m
      <4>1. g[m] = step[m][f[m - 1]]
        OBVIOUS
      <4>2. g[m - 1] = f[m - 1] /\ m # 0
        OBVIOUS
      <4> HIDE DEF g
      <4> QED
        BY <3>2, <4>1, <4>2
    <3>3. CASE j # m
      <4>1. j \in 0 .. m - 1
        BY <3>3
      <4>2. g[j] = f[j] /\ (j # 0 => g[j - 1] = f[j - 1])
        BY <3>3
      <4>3. f[j] = IF j = 0 THEN start ELSE step[j][f[j - 1]]
        BY <2>1, <4>1
      <4> HIDE DEF g
      <4> QED
        BY <4>2, <4>3
    <3> QED
      BY <3>2, <3>3
  <2>7. Course(m, g)
    <3>1. g = [j \in 0 .. m |-> g[j]]
      OBVIOUS
    <3> HIDE DEF g
    <3> QED
      BY <2>5, <2>6, <3>1
  <2>8. \E h : Course(m, h)
    <3> HIDE DEF Course, g
    <3> QED
      BY <2>7
  <2>9. m \in 0 .. n
    OBVIOUS
  <2> HIDE DEF Course
  <2> QED
    BY <2>8, <2>9
<1>3. \A m \in 0 .. n : m \in good
  <2> HIDE DEF good
  <2> QED
    BY <1>1, <1>2, LoopKeeps
<1>4. PICK f : Course(n, f)
  <2>1. n \in good
    BY <1>3
  <2> HIDE DEF Course
  <2> QED
    BY <2>1
<1>5. f = [j \in 0 .. n |-> IF j = 0 THEN start ELSE step[j][f[j - 1]]]
  BY <1>4
<1>6. IsCourse(f, n, start, step)
  BY <1>5, Zenon DEF IsCourse
<1> QED
  BY <1>4, <1>6

-----------------------------------------------------------------------------
\* Whatever a package may hold: its files, names, contents and NCAs.
AllFiles == UNION {Range(p.files) : p \in Packages}
Ids == {f.id : f \in AllFiles}
TitleNames == {<<"title", f.meta.id, f.meta.version>> : f \in AllFiles}
FileNames == ({"nca", "tik", "file"} \cup ContentTypes) \X Ids
SlotTypes == {"Meta"} \cup UNION {{c.type : c \in Range(f.meta.contents)} : f \in AllFiles}
SlotNames == {<<t>> : t \in SlotTypes} \cup (SlotTypes \X Nat)

\* Entries over some NCAs N and packages P.
Slots(N) == [name : SlotNames, nca : N]
Titles(N) == {slots \in SUBSET Slots(N) : \E s \in slots : s.name = <<"Meta">>}
FileEntries(N) == [name : FileNames, fs : {NoFs} \cup {NcaFs(n) : n \in N}]
TitleEntries(N) == [name : TitleNames, fs : {WrapperFs(slots) : slots \in Titles(N)}]
PartitionEntries(P) == [name : {Cleared}, fs : {PartitionFs(k) : k \in P}]
EntriesOver(N, P) == {Gone} \cup FileEntries(N) \cup TitleEntries(N) \cup PartitionEntries(P)

NcasOf(k) ==
  {<<k, i>> : i \in {j \in DOMAIN loads[k].files : loads[k].files[j].kind = "nca"}}

Loaded == loads \in Seq(Packages)

\* The first of some indices is one of them.
LEMMA FirstIsLeast ==
  ASSUME NEW S \in SUBSET (Nat \ {0})
  PROVE  /\ First(S) = 0 <=> S = {}
         /\ S # {} => First(S) \in S /\ \A i \in S : First(S) <= i
<1>1. CASE S = {}
  BY <1>1 DEF First
<1>2. CASE S # {}
  <2>1. \E x \in S : \A y \in S : x <= y
    BY <1>2, LeastOfSet
  <2>2. First(S) = CHOOSE x \in S : \A y \in S : x <= y
    BY <1>2, Zenon DEF First, Min
  <2>3. First(S) \in S /\ \A i \in S : First(S) <= i
    BY <2>1, <2>2
  <2> QED
    BY <1>2, <2>3
<1> QED
  BY <1>1, <1>2

\* The files of a package that was opened.
LEMMA FilesLoaded ==
  ASSUME Loaded, NEW k \in DOMAIN loads
  PROVE  /\ loads[k] \in Packages
         /\ loads[k].files \in Seq(Range(loads[k].files))
         /\ Len(loads[k].files) \in Nat /\ DOMAIN loads[k].files = 1 .. Len(loads[k].files)
         /\ \A i \in DOMAIN loads[k].files :
              loads[k].files[i] \in AllFiles /\ IsFile(loads[k].files[i])
<1>1. loads[k] \in Packages
  BY DEF Loaded
<1>2. loads[k].files \in Seq(Range(loads[k].files))
  BY <1>1, MountAssumption
<1>3. \A i \in DOMAIN loads[k].files : loads[k].files[i] \in Range(loads[k].files)
  BY DEF Range
<1>4. Len(loads[k].files) \in Nat /\ DOMAIN loads[k].files = 1 .. Len(loads[k].files)
  BY <1>2, LenProperties
<1>5. \A f \in Range(loads[k].files) : f \in AllFiles /\ IsFile(f)
  BY <1>1, MountAssumption DEF AllFiles
<1> QED
  BY <1>1, <1>2, <1>3, <1>4, <1>5

LEMMA NcaIsFile ==
  ASSUME Loaded, NEW k \in DOMAIN loads, NEW n \in NcasOf(k)
  PROVE  /\ n = <<k, n[2]>> /\ n[1] = k /\ n[2] \in DOMAIN loads[k].files
         /\ FileOf(n) = loads[k].files[n[2]] /\ FileOf(n).kind = "nca"
         /\ FileOf(n) \in AllFiles
         /\ FileOf(n).type \in ContentTypes
         /\ FileOf(n).meta # NoMeta =>
              /\ FileOf(n).meta.contents \in Seq(Range(FileOf(n).meta.contents))
              /\ IsMetaFile(FileOf(n))
<1>1. PICK i \in DOMAIN loads[k].files : n = <<k, i>> /\ loads[k].files[i].kind = "nca"
  BY DEF NcasOf
<1>2. n[1] = k /\ n[2] = i
  BY <1>1
<1>3. FileOf(n) = loads[k].files[i]
  BY <1>2 DEF FileOf
<1>4. loads[k].files[i] \in AllFiles /\ IsFile(loads[k].files[i])
  BY FilesLoaded
<1> QED
  BY <1>1, <1>2, <1>3, <1>4 DEF IsFile, IsMetaFile

\* The kinds of file systems differ.
LEMMA FsDiffer ==
  /\ NoFs.kind = "none" /\ \A n : NcaFs(n).kind = "nca" /\ NcaFs(n).nca = n
  /\ \A slots : WrapperFs(slots).kind = "wrapper" /\ WrapperFs(slots).slots = slots
  /\ \A k : PartitionFs(k).kind = "partition" /\ PartitionFs(k).load = k
  BY DEF NoFs, NcaFs, WrapperFs, PartitionFs

\* Names of two or three parts are not empty.
LEMMA NameParts ==
  /\ \A a, b : <<a, b>> # Cleared /\ <<a, b>>[1] = a /\ <<a, b>>[2] = b
  /\ \A a, b, c : <<a, b, c>> # Cleared /\ <<a, b, c>>[1] = a
<1>1. ASSUME NEW a, NEW b PROVE <<a, b>> # Cleared
  <2>1. Len(<<a, b>>) = 2 /\ Len(Cleared) = 0
    BY DEF Cleared
  <2> QED
    BY <2>1
<1>2. ASSUME NEW a, NEW b, NEW c PROVE <<a, b, c>> # Cleared
  <2>1. Len(<<a, b, c>>) = 3 /\ Len(Cleared) = 0
    BY DEF Cleared
  <2> QED
    BY <2>1
<1> QED
  BY <1>1, <1>2

\* The kinds of entries: which name goes with which file system.
LEMMA EntryKinds ==
  ASSUME NEW N, NEW P, NEW e \in EntriesOver(N, P)
  PROVE  /\ e = [name |-> e.name, fs |-> e.fs]
         /\ \/ e = Gone /\ e.name = Cleared /\ e.fs = NoFs
            \/ /\ e.name \in FileNames /\ e.name # Cleared
               /\ e.fs = NoFs \/ \E n \in N : e.fs = NcaFs(n)
            \/ /\ e.name \in TitleNames /\ e.name # Cleared /\ e.name[1] = "title"
               /\ \E slots \in Titles(N) : e.fs = WrapperFs(slots)
            \/ e.name = Cleared /\ \E k \in P : e.fs = PartitionFs(k)
<1>1. CASE e = Gone
  BY <1>1 DEF Gone
<1>2. CASE e \in FileEntries(N)
  <2>1. e.name \in FileNames
    BY <1>2 DEF FileEntries
  <2>2. e.name = <<e.name[1], e.name[2]>>
    BY <2>1 DEF FileNames
  <2> QED
    BY <1>2, <2>1, <2>2, NameParts DEF FileEntries
<1>3. CASE e \in TitleEntries(N)
  <2>1. e.name \in TitleNames
    BY <1>3 DEF TitleEntries
  <2>2. PICK f \in AllFiles : e.name = <<"title", f.meta.id, f.meta.version>>
    BY <2>1 DEF TitleNames
  <2> QED
    BY <1>3, <2>1, <2>2, NameParts DEF TitleEntries
<1>4. CASE e \in PartitionEntries(P)
  BY <1>4 DEF PartitionEntries
<1> QED
  BY <1>1, <1>2, <1>3, <1>4 DEF EntriesOver

\* What an entry holds.
LEMMA EntryHolds ==
  ASSUME NEW N, NEW P, NEW e \in EntriesOver(N, P)
  PROVE  /\ \/ e.fs = NoFs /\ Held(e) = {}
            \/ \E n \in N : e.fs = NcaFs(n) /\ Held(e) = {[name |-> Cleared, nca |-> n]}
            \/ \E slots \in Titles(N) : e.fs = WrapperFs(slots) /\ Held(e) = slots
            \/ \E k \in P : e.fs = PartitionFs(k) /\ Held(e) = {}
         /\ \A s \in Held(e) : s.nca \in N
<1>1. CASE e.fs = NoFs
  <2>1. Held(e) = {}
    BY <1>1, FsDiffer DEF Held
  <2> QED
    BY <1>1, <2>1
<1>2. ASSUME NEW n \in N, e.fs = NcaFs(n)
      PROVE  Held(e) = {[name |-> Cleared, nca |-> n]}
  BY <1>2, FsDiffer DEF Held
<1>3. ASSUME NEW slots \in Titles(N), e.fs = WrapperFs(slots)
      PROVE  Held(e) = slots /\ \A s \in slots : s.nca \in N
  <2>1. Held(e) = slots
    BY <1>3, FsDiffer DEF Held
  <2>2. \A s \in slots : s.nca \in N
    BY DEF Titles, Slots
  <2> QED
    BY <2>1, <2>2
<1>4. ASSUME NEW k \in P, e.fs = PartitionFs(k)
      PROVE  Held(e) = {}
  BY <1>4, FsDiffer DEF Held
<1>5. \/ e.fs = NoFs
      \/ \E n \in N : e.fs = NcaFs(n)
      \/ \E slots \in Titles(N) : e.fs = WrapperFs(slots)
      \/ \E k \in P : e.fs = PartitionFs(k)
  BY EntryKinds
<1>6. CASE \E n \in N : e.fs = NcaFs(n)
  BY <1>2, <1>6
<1>7. CASE \E slots \in Titles(N) : e.fs = WrapperFs(slots)
  BY <1>3, <1>7
<1>8. CASE \E k \in P : e.fs = PartitionFs(k)
  BY <1>4, <1>8
<1> QED
  BY <1>1, <1>5, <1>6, <1>7, <1>8

\* What is over fewer NCAs is over more.
LEMMA EntriesGrow ==
  ASSUME NEW M, NEW N, NEW P, NEW Q, M \subseteq N, P \subseteq Q
  PROVE  EntriesOver(M, P) \subseteq EntriesOver(N, Q)
<1>1. Slots(M) \subseteq Slots(N)
  BY DEF Slots
<1>2. Titles(M) \subseteq Titles(N)
  BY <1>1 DEF Titles
<1>3. FileEntries(M) \subseteq FileEntries(N)
  BY DEF FileEntries
<1>4. TitleEntries(M) \subseteq TitleEntries(N)
  BY <1>2 DEF TitleEntries
<1>5. PartitionEntries(P) \subseteq PartitionEntries(Q)
  BY DEF PartitionEntries
<1> QED
  BY <1>3, <1>4, <1>5 DEF EntriesOver

LEMMA GoneIsEntry ==
  ASSUME NEW N, NEW P
  PROVE  /\ Gone \in EntriesOver(N, P) /\ Held(Gone) = {}
         /\ Gone.name = Cleared /\ ~ IsNca(Gone)
<1>1. Gone.fs = NoFs /\ Gone.name = Cleared
  BY DEF Gone
<1> QED
  BY <1>1, FsDiffer DEF Held, IsNca, EntriesOver

\* A function on the first n numbers is a sequence.
LEMMA FunctionIsSeq ==
  ASSUME NEW S, NEW n \in Nat, NEW f \in [1 .. n -> S]
  PROVE  f \in Seq(S) /\ Len(f) = n
<1>1. f \in Seq(S)
  OBVIOUS
<1>2. DOMAIN f = 1 .. Len(f) /\ Len(f) \in Nat
  BY <1>1, LenProperties
<1>3. 1 .. Len(f) = 1 .. n
  BY <1>2
<1> QED
  BY <1>1, <1>2, <1>3

\* An entry that is cleared leaves a sequence of the same length.
LEMMA WithoutIsSeq ==
  ASSUME NEW N, NEW P, NEW es \in Seq(EntriesOver(N, P)), NEW at
  PROVE  /\ Without(es, at) \in Seq(EntriesOver(N, P))
         /\ Len(Without(es, at)) = Len(es)
         /\ DOMAIN Without(es, at) = DOMAIN es
         /\ \A i \in DOMAIN es : Without(es, at)[i] = IF i = at THEN Gone ELSE es[i]
<1>1. /\ Len(es) \in Nat /\ DOMAIN es = 1 .. Len(es)
      /\ \A i \in DOMAIN es : es[i] \in EntriesOver(N, P)
  BY LenProperties
<1>2. \A i \in 1 .. Len(es) : (IF i = at THEN Gone ELSE es[i]) \in EntriesOver(N, P)
  BY <1>1, GoneIsEntry
<1>3. Without(es, at) = [i \in 1 .. Len(es) |-> IF i = at THEN Gone ELSE es[i]]
  BY <1>1 DEF Without
<1>4. Without(es, at) \in [1 .. Len(es) -> EntriesOver(N, P)]
  BY <1>2, <1>3
<1>5. Without(es, at) \in Seq(EntriesOver(N, P)) /\ Len(Without(es, at)) = Len(es)
  BY <1>1, <1>4, FunctionIsSeq
<1> QED
  BY <1>1, <1>3, <1>5

-----------------------------------------------------------------------------
\* An NCA has one place among some entries, or none.
Once(es, n) ==
  \E i \in DOMAIN es : \E s \in Held(es[i]) :
    /\ s.nca = n
    /\ \A j \in DOMAIN es : \A t \in Held(es[j]) : t.nca = n => j = i /\ t = s
Never(es, n) == \A i \in DOMAIN es : \A s \in Held(es[i]) : s.nca # n

\* The entries of package k once processEntry has seen them, before anything moves.
IsFresh(k, es) ==
  /\ es \in Seq(EntriesOver(NcasOf(k), {}))
  /\ Len(es) = Len(loads[k].files) /\ DOMAIN es = DOMAIN loads[k].files
  /\ \A i \in DOMAIN es :
       LET f == loads[k].files[i]
       IN /\ es[i].name = <<f.kind, f.id>>
          /\ IsNca(es[i]) <=> f.kind = "nca"
          /\ es[i].fs = IF f.kind = "nca" THEN NcaFs(<<k, i>>) ELSE NoFs

\* The NCAs that processEntry constructs: of a new package, all that it has.
NewNcas(k) == {<<k, i>> : i \in New(k)}

LEMMA ProcessedIsFresh ==
  ASSUME Loaded, NEW k \in DOMAIN loads, entries[k] = Constructed(loads[k])
  PROVE  IsFresh(k, Processed(k)) /\ NewNcas(k) = NcasOf(k)
<1> DEFINE files == loads[k].files
           Fs(i) == IF files[i].kind = "nca" THEN NcaFs(<<k, i>>) ELSE NoFs
<1>1. /\ Len(files) \in Nat /\ DOMAIN files = 1 .. Len(files)
      /\ \A i \in DOMAIN files : files[i] \in AllFiles /\ IsFile(files[i])
  BY FilesLoaded
<1>2. /\ DOMAIN entries[k] = DOMAIN files
      /\ \A i \in DOMAIN files :
           entries[k][i] = [name |-> <<files[i].kind, files[i].id>>, fs |-> NoFs]
  BY DEF Constructed
<1> HIDE DEF files, Fs
<1>3. \A i \in DOMAIN files : IsNca(entries[k][i]) <=> files[i].kind = "nca"
  BY <1>2, NameParts DEF IsNca
<1>4. New(k) = {i \in DOMAIN files : files[i].kind = "nca"}
  BY <1>2, <1>3 DEF New
<1>5. NewNcas(k) = NcasOf(k)
  BY <1>4 DEF NcasOf, NewNcas, files
<1>6. ASSUME NEW i \in DOMAIN files
      PROVE  Processed(k)[i] = [name |-> <<files[i].kind, files[i].id>>, fs |-> Fs(i)]
  <2> DEFINE e == entries[k][i]
  <2>1. Processed(k)[i] = IF i \in New(k) THEN [e EXCEPT !.fs = NcaFs(<<k, i>>)] ELSE e
    BY <1>2 DEF Processed
  <2>2. e = [name |-> <<files[i].kind, files[i].id>>, fs |-> NoFs]
    BY <1>2
  <2>3. [e EXCEPT !.fs = NcaFs(<<k, i>>)]
          = [name |-> <<files[i].kind, files[i].id>>, fs |-> NcaFs(<<k, i>>)]
    BY <2>2
  <2> HIDE DEF e
  <2> QED
    BY <1>4, <2>1, <2>2, <2>3 DEF Fs
<1>7. DOMAIN Processed(k) = DOMAIN files
  BY <1>2 DEF Processed
<1>8. ASSUME NEW i \in DOMAIN files
      PROVE  Processed(k)[i] \in EntriesOver(NcasOf(k), {})
  <2>1. files[i].kind \in {"nca", "tik", "file"} /\ files[i].id \in Ids
    BY <1>1 DEF IsFile, Ids
  <2>2. <<files[i].kind, files[i].id>> \in FileNames
    BY <2>1 DEF FileNames
  <2>3. Fs(i) \in {NoFs} \cup {NcaFs(n) : n \in NcasOf(k)}
    BY DEF NcasOf, Fs, files
  <2>4. Processed(k)[i] = [name |-> <<files[i].kind, files[i].id>>, fs |-> Fs(i)]
    BY <1>6
  <2> HIDE DEF Fs
  <2> QED
    BY <2>2, <2>3, <2>4 DEF EntriesOver, FileEntries
<1>9. Processed(k) \in [1 .. Len(files) -> EntriesOver(NcasOf(k), {})]
  BY <1>1, <1>7, <1>8 DEF Processed
<1>10. Processed(k) \in Seq(EntriesOver(NcasOf(k), {})) /\ Len(Processed(k)) = Len(files)
  BY <1>1, <1>9, FunctionIsSeq
<1>11. ASSUME NEW i \in DOMAIN files
       PROVE  /\ Processed(k)[i].name = <<files[i].kind, files[i].id>>
              /\ IsNca(Processed(k)[i]) <=> files[i].kind = "nca"
              /\ Processed(k)[i].fs = Fs(i)
  <2>1. Processed(k)[i] = [name |-> <<files[i].kind, files[i].id>>, fs |-> Fs(i)]
    BY <1>6
  <2>2. IsNca(Processed(k)[i]) <=> files[i].kind = "nca"
    BY <2>1, NameParts DEF IsNca
  <2> QED
    BY <2>1, <2>2
<1> QED
  BY <1>1, <1>5, <1>7, <1>10, <1>11 DEF IsFresh, files, Fs

\* Each NCA is in the entry of its own file.
LEMMA FreshHoldsOnce ==
  ASSUME Loaded, NEW k \in DOMAIN loads, NEW es, IsFresh(k, es), NEW n \in NcasOf(k)
  PROVE  Once(es, n)
<1>1. ASSUME NEW i \in DOMAIN es
      PROVE  Held(es[i]) = IF loads[k].files[i].kind = "nca"
                           THEN {[name |-> Cleared, nca |-> <<k, i>>]} ELSE {}
  <2>1. CASE loads[k].files[i].kind = "nca"
    <3>1. es[i].fs = NcaFs(<<k, i>>)
      BY <2>1 DEF IsFresh
    <3> QED
      BY <2>1, <3>1, FsDiffer DEF Held
  <2>2. CASE loads[k].files[i].kind # "nca"
    <3>1. es[i].fs = NoFs
      BY <2>2 DEF IsFresh
    <3> QED
      BY <2>2, <3>1, FsDiffer DEF Held
  <2> QED
    BY <2>1, <2>2
<1>2. n = <<k, n[2]>> /\ n[2] \in DOMAIN es /\ loads[k].files[n[2]].kind = "nca"
  BY NcaIsFile DEF IsFresh, FileOf
<1> DEFINE i == n[2]
           s == [name |-> Cleared, nca |-> n]
<1>3. s \in Held(es[i]) /\ s.nca = n
  BY <1>1, <1>2
<1>4. ASSUME NEW j \in DOMAIN es, NEW t \in Held(es[j]), t.nca = n PROVE j = i /\ t = s
  <2>1. t = [name |-> Cleared, nca |-> <<k, j>>]
    BY <1>1
  <2>2. <<k, j>> = n
    BY <1>4, <2>1
  <2> QED
    BY <2>1, <2>2
<1> QED
  BY <1>2, <1>3, <1>4 DEF Once

\* An NCA that moves from one entry to another, where there was none under its new
\* name, still has one place, and so have all others.
LEMMA MoveKeepsOnce ==
  ASSUME NEW es, NEW moved, NEW from \in DOMAIN es, NEW to \in DOMAIN moved, from # to,
         DOMAIN es \subseteq DOMAIN moved,
         NEW new, NEW old,
         Held(es[from]) = {old}, Held(moved[from]) = {}, new.nca = old.nca,
         \A i \in DOMAIN es : i # from /\ i # to => Held(moved[i]) = Held(es[i]),
         \A i \in DOMAIN moved \ DOMAIN es : i # to => Held(moved[i]) = {},
         Held(moved[to]) = {new} \cup (IF to \in DOMAIN es THEN Held(es[to]) ELSE {}),
         NEW n, Once(es, n)
  PROVE  Once(moved, n)
<1>1. PICK i \in DOMAIN es : \E s \in Held(es[i]) :
        /\ s.nca = n
        /\ \A j \in DOMAIN es : \A t \in Held(es[j]) : t.nca = n => j = i /\ t = s
  BY DEF Once
<1>2. PICK s \in Held(es[i]) :
        /\ s.nca = n
        /\ \A j \in DOMAIN es : \A t \in Held(es[j]) : t.nca = n => j = i /\ t = s
  BY <1>1
<1>3. CASE n = old.nca
  <2>1. i = from
    BY <1>2, <1>3
  <2>2. new \in Held(moved[to]) /\ new.nca = n
    BY <1>3
  <2>3. ASSUME NEW j \in DOMAIN moved, NEW t \in Held(moved[j]), t.nca = n
        PROVE  j = to /\ t = new
    <3>1. j # from
      BY <2>3
    <3>2. ASSUME j \in DOMAIN es, t \in Held(es[j]) PROVE FALSE
      BY <1>2, <2>1, <2>3, <3>1, <3>2
    <3> QED
      BY <2>3, <3>1, <3>2
  <2> QED
    BY <2>2, <2>3 DEF Once
<1>4. CASE n # old.nca
  <2>1. i # from
    BY <1>2, <1>4
  <2>2. s \in Held(moved[i]) /\ i \in DOMAIN moved
    BY <2>1
  <2>3. ASSUME NEW j \in DOMAIN moved, NEW t \in Held(moved[j]), t.nca = n
        PROVE  j = i /\ t = s
    <3>1. j \in DOMAIN es /\ t \in Held(es[j])
      <4>1. j # from /\ t # new
        BY <1>4, <2>3
      <4> QED
        BY <2>3, <4>1
    <3> QED
      BY <1>2, <2>3, <3>1
  <2> QED
    BY <1>2, <2>2, <2>3 DEF Once
<1> QED
  BY <1>3, <1>4

\* A sequence of entries with one more at its end.
LEMMA AppendFacts ==
  ASSUME NEW S, NEW es \in Seq(S), NEW e \in S
  PROVE  /\ Append(es, e) \in Seq(S)
         /\ Len(es) \in Nat /\ DOMAIN es = 1 .. Len(es)
         /\ Len(Append(es, e)) = Len(es) + 1
         /\ DOMAIN Append(es, e) = 1 .. Len(es) + 1
         /\ \A i \in DOMAIN es : Append(es, e)[i] = es[i]
         /\ Append(es, e)[Len(es) + 1] = e
<1>1. Append(es, e) \in Seq(S) /\ Len(Append(es, e)) = Len(es) + 1
  BY AppendProperties
<1>2. Len(es) \in Nat /\ DOMAIN es = 1 .. Len(es)
  BY LenProperties
<1>3. DOMAIN Append(es, e) = 1 .. Len(es) + 1
  BY <1>1, LenProperties
<1>4. /\ \A i \in 1 .. Len(es) : Append(es, e)[i] = es[i]
      /\ Append(es, e)[Len(es) + 1] = e
  BY AppendProperties
<1> QED
  BY <1>1, <1>2, <1>3, <1>4

-----------------------------------------------------------------------------
\* What rearrangeNCAs keeps while it wraps titles: an entry of the file's index
\* stays or is cleared, and what comes behind them are titles.
Wrapping(k, fresh, es) ==
  /\ es \in Seq(EntriesOver(NcasOf(k), {}))
  /\ Len(fresh) <= Len(es)
  /\ \A i \in DOMAIN fresh : es[i] \in {fresh[i], Gone}
  /\ \A i \in DOMAIN es \ DOMAIN fresh : es[i].name \in TitleNames
  /\ \A n \in NcasOf(k) : Once(es, n)

\* The meta at an index, and the title that is made of it.
MetaAt(fresh, i) == FileOf(fresh[i].fs.nca).meta
TitleOf(fresh, i, slots) ==
  [name |-> <<"title", MetaAt(fresh, i).id, MetaAt(fresh, i).version>>, fs |-> WrapperFs(slots)]

\* The same while the contents of the meta at i move to their slots.  A slot
\* whose name has an index belongs to an entry that is cleared.
Wraps(k, fresh, i, es) ==
  {s \in [es : Seq(EntriesOver(NcasOf(k), {})), slots : Titles(NcasOf(k))] :
     /\ Len(fresh) <= Len(s.es)
     /\ Wrapping(k, fresh, Append(s.es, TitleOf(fresh, i, s.slots)))
     /\ \A slot \in s.slots : \A t, a :
          slot.name = <<t, a>> => a \in DOMAIN s.es /\ s.es[a] = Gone
     /\ \A m \in DOMAIN fresh : m # i /\ IsMeta(fresh[m]) => s.es[m] = es[m]}

\* The meta of a fresh entry, and its title.
LEMMA FreshMeta ==
  ASSUME Loaded, NEW k \in DOMAIN loads, NEW fresh, IsFresh(k, fresh),
         NEW i \in DOMAIN fresh, IsMeta(fresh[i])
  PROVE  /\ fresh[i].fs = NcaFs(<<k, i>>) /\ <<k, i>> \in NcasOf(k)
         /\ MetaAt(fresh, i) # NoMeta
         /\ MetaAt(fresh, i).contents \in Seq(Range(MetaAt(fresh, i).contents))
         /\ \A c \in Range(MetaAt(fresh, i).contents) : c.type \in SlotTypes
         /\ \A c \in Range(MetaAt(fresh, i).contents) : \A m \in DOMAIN fresh :
              IsMeta(fresh[m]) => fresh[m].name # <<"nca", c.id>>
         /\ \A slots \in Titles(NcasOf(k)) :
              TitleOf(fresh, i, slots) \in TitleEntries(NcasOf(k))
<1> DEFINE files == loads[k].files
           f == files[i]
           N == NcasOf(k)
<1>1. /\ DOMAIN fresh = DOMAIN files
      /\ \A m \in DOMAIN fresh : IsNca(fresh[m]) =>
           fresh[m].fs = NcaFs(<<k, m>>) /\ <<k, m>> \in N
  BY DEF IsFresh, NcasOf
<1>2. \A m \in DOMAIN fresh : IsMeta(fresh[m]) =>
        FileOf(fresh[m].fs.nca) = files[m] /\ IsMetaFile(files[m])
  <2>1. SUFFICES ASSUME NEW m \in DOMAIN fresh, IsMeta(fresh[m])
                 PROVE  FileOf(fresh[m].fs.nca) = files[m] /\ IsMetaFile(files[m])
    OBVIOUS
  <2>2. fresh[m].fs.nca = <<k, m>>
    BY <1>1, <2>1, FsDiffer DEF IsMeta
  <2>3. FileOf(<<k, m>>) = files[m]
    BY DEF FileOf
  <2>4. files[m].kind = "nca"
    BY <2>1 DEF IsFresh, IsMeta
  <2> QED
    BY <2>1, <2>2, <2>3, <2>4 DEF IsMeta, IsMetaFile
<1>3. MetaAt(fresh, i) = f.meta /\ f.meta # NoMeta /\ IsMetaFile(f)
  BY <1>2 DEF MetaAt, IsMetaFile
<1>4. f \in Range(files) /\ f \in AllFiles /\ IsFile(f) /\ loads[k] \in Packages
  BY <1>1, FilesLoaded DEF Range
<1>5. f.meta.contents \in Seq(Range(f.meta.contents))
  BY <1>3, <1>4 DEF IsFile, IsMetaFile
<1>6. \A c \in Range(f.meta.contents) : c.type \in SlotTypes
  BY <1>4 DEF SlotTypes
<1>7. ASSUME NEW c \in Range(f.meta.contents), NEW m \in DOMAIN fresh, IsMeta(fresh[m])
      PROVE  fresh[m].name # <<"nca", c.id>>
  <2>1. files[m] \in Range(files) /\ IsMetaFile(files[m])
    BY <1>1, <1>2, <1>7 DEF Range
  <2>2. c.id # files[m].id
    BY <1>3, <1>4, <2>1, MountAssumption
  <2>3. fresh[m].name = <<files[m].kind, files[m].id>>
    BY DEF IsFresh
  <2> QED
    BY <2>2, <2>3
<1>8. ASSUME NEW slots \in Titles(N)
      PROVE  TitleOf(fresh, i, slots) \in TitleEntries(N)
  BY <1>3, <1>4 DEF TitleOf, TitleEntries, TitleNames
<1>9. fresh[i].fs = NcaFs(<<k, i>>) /\ <<k, i>> \in N
  BY <1>1 DEF IsMeta
<1> QED
  BY <1>3, <1>5, <1>6, <1>7, <1>8, <1>9

\* One content moves to its slot.
LEMMA MovedKeeps ==
  ASSUME Loaded, NEW k \in DOMAIN loads, NEW fresh, IsFresh(k, fresh),
         NEW i \in DOMAIN fresh, IsMeta(fresh[i]), NEW es,
         NEW s \in Wraps(k, fresh, i, es), NEW info \in Range(MetaAt(fresh, i).contents)
  PROVE  Moved(s, info) \in Wraps(k, fresh, i, es)
<1> DEFINE N == NcasOf(k)
           E == EntriesOver(N, {})
           at == GetEntry(s.es, <<"nca", info.id>>)
           name == Slot(s.slots, info.type, at)
           new == [name |-> name, nca |-> <<k, at>>]
           rest == Without(s.es, at)
           slots == s.slots \cup {new}
           before == Append(s.es, TitleOf(fresh, i, s.slots))
           after == Append(rest, TitleOf(fresh, i, slots))
           last == Len(s.es) + 1
<1>1. /\ s.es \in Seq(E) /\ s.slots \in Titles(N) /\ s = [es |-> s.es, slots |-> s.slots]
      /\ Len(fresh) <= Len(s.es) /\ Wrapping(k, fresh, before)
      /\ \A slot \in s.slots : \A t, a : slot.name = <<t, a>> => a \in DOMAIN s.es /\ s.es[a] = Gone
      /\ \A m \in DOMAIN fresh : m # i /\ IsMeta(fresh[m]) => s.es[m] = es[m]
  BY DEF Wraps
<1>2. Len(s.es) \in Nat /\ DOMAIN s.es = 1 .. Len(s.es) /\ \A j \in DOMAIN s.es : s.es[j] \in E
  BY <1>1, LenProperties
<1>3. fresh \in Seq(E) /\ Len(fresh) \in Nat /\ DOMAIN fresh = 1 .. Len(fresh)
      /\ DOMAIN fresh = DOMAIN loads[k].files
  BY LenProperties DEF IsFresh
<1>4. CASE at = 0
  BY <1>4 DEF Moved
<1>5. CASE at # 0
  <2> DEFINE found == {j \in DOMAIN s.es : s.es[j].name = <<"nca", info.id>>}
  <2>1. at \in DOMAIN s.es /\ s.es[at].name = <<"nca", info.id>>
    <3>1. found \in SUBSET (Nat \ {0})
      BY <1>2
    <3>2. at = First(found)
      BY DEF GetEntry
    <3> HIDE DEF found, at
    <3>3. at \in found
      BY <1>5, <3>1, <3>2, FirstIsLeast
    <3> QED
      BY <3>3 DEF found
  <2> HIDE DEF at
  <2>2. /\ before \in Seq(E) /\ DOMAIN before = 1 .. last
        /\ \A j \in DOMAIN s.es : before[j] = s.es[j]
        /\ before[last] = TitleOf(fresh, i, s.slots)
    <3>1. TitleOf(fresh, i, s.slots) \in E
      BY <1>1, FreshMeta DEF EntriesOver
    <3> QED
      BY <1>1, <3>1, AppendFacts
  <2>3. at \in DOMAIN fresh /\ s.es[at] = fresh[at]
    <3>1. at \in DOMAIN fresh
      <4>1. SUFFICES ASSUME at \notin DOMAIN fresh PROVE FALSE
        OBVIOUS
      <4>2. before[at].name \in TitleNames
        BY <1>1, <1>2, <2>1, <2>2, <4>1 DEF Wrapping
      <4>3. <<"nca", info.id>> \in TitleNames
        BY <2>1, <2>2, <4>2
      <4>4. PICK f \in AllFiles : <<"nca", info.id>> = <<"title", f.meta.id, f.meta.version>>
        BY <4>3 DEF TitleNames
      <4> QED
        BY <4>4, NameParts
    <3>2. s.es[at] \in {fresh[at], Gone}
      BY <1>1, <2>1, <2>2, <3>1 DEF Wrapping
    <3>3. s.es[at] # Gone
      <4>1. <<"nca", info.id>> # Cleared /\ Gone.name = Cleared
        BY NameParts DEF Gone
      <4> QED
        BY <2>1, <4>1
    <3> QED
      BY <3>1, <3>2, <3>3
  <2>4. fresh[at].fs = NcaFs(<<k, at>>) /\ <<k, at>> \in N /\ at \in Nat \ {0}
    <3>1. IsNca(fresh[at])
      BY <2>1, <2>3, NameParts DEF IsNca
    <3> QED
      BY <1>3, <2>3, <3>1 DEF IsFresh, NcasOf
  <2>5. at # i /\ \A m \in DOMAIN fresh : IsMeta(fresh[m]) => m # at
    <3>1. \A m \in DOMAIN fresh : IsMeta(fresh[m]) => fresh[m].name # <<"nca", info.id>>
      BY FreshMeta
    <3> QED
      BY <2>1, <2>3, <3>1
  <2>6. info.type \in SlotTypes
    BY FreshMeta
  <2>7. name \in SlotNames /\ \A slot \in s.slots : slot.name # name
    <3>1. CASE \E slot \in s.slots : slot.name = <<info.type>>
      <4>1. name = <<info.type, at>>
        BY <3>1 DEF Slot
      <4>2. \A slot \in s.slots : slot.name # name
        <5>1. s.es[at] # Gone
          BY <2>1, NameParts, GoneIsEntry
        <5> QED
          BY <1>1, <4>1, <5>1
      <4>3. name \in SlotNames
        BY <2>4, <2>6, <4>1 DEF SlotNames
      <4> QED
        BY <4>2, <4>3
    <3>2. CASE ~ \E slot \in s.slots : slot.name = <<info.type>>
      <4>1. name = <<info.type>>
        BY <3>2 DEF Slot
      <4>2. name \in SlotNames
        BY <2>6, <4>1 DEF SlotNames
      <4> QED
        BY <3>2, <4>1, <4>2
    <3> QED
      BY <3>1, <3>2
  <2>8. \A t, a : name = <<t, a>> => a = at
    <3>1. \A t, a : <<t, a>> # <<info.type>>
      <4> SUFFICES ASSUME NEW t, NEW a PROVE <<t, a>> # <<info.type>>
        OBVIOUS
      <4>1. Len(<<t, a>>) = 2 /\ Len(<<info.type>>) = 1
        OBVIOUS
      <4> QED
        BY <4>1
    <3> QED
      BY <3>1 DEF Slot
  <2> HIDE DEF name
  <2>9. Moved(s, info) = [es |-> rest, slots |-> slots]
    <3>1. s.es[at].fs.nca = <<k, at>>
      BY <2>3, <2>4, FsDiffer
    <3>2. Added(s.slots, name, <<k, at>>) = slots
      BY <2>7 DEF Added
    <3> QED
      BY <1>5, <3>1, <3>2 DEF Moved, at, name
  <2>10. slots \in Titles(N)
    <3>1. new \in Slots(N)
      BY <2>4, <2>7 DEF Slots
    <3> QED
      BY <1>1, <3>1 DEF Titles
  <2>11. /\ rest \in Seq(E) /\ Len(rest) = Len(s.es) /\ DOMAIN rest = DOMAIN s.es
         /\ \A j \in DOMAIN s.es : rest[j] = IF j = at THEN Gone ELSE s.es[j]
    BY <1>1, WithoutIsSeq
  <2>12. /\ after \in Seq(E) /\ Len(after) = last /\ DOMAIN after = 1 .. last
         /\ \A j \in DOMAIN rest : after[j] = rest[j]
         /\ after[last] = TitleOf(fresh, i, slots)
    <3>1. TitleOf(fresh, i, slots) \in E
      BY <2>10, FreshMeta DEF EntriesOver
    <3> HIDE DEF rest, slots
    <3> QED
      BY <2>11, <3>1, AppendFacts
  <2> HIDE DEF rest, slots, before, after
  <2>13. ASSUME NEW n \in N PROVE Once(after, n)
    <3>1. Held(before[at]) = {[name |-> Cleared, nca |-> <<k, at>>]}
      BY <2>1, <2>2, <2>3, <2>4, FsDiffer DEF Held
    <3>2. Held(after[at]) = {}
      BY <2>1, <2>11, <2>12, GoneIsEntry
    <3>3. Held(before[last]) = s.slots /\ Held(after[last]) = slots
      BY <2>2, <2>12, FsDiffer DEF Held, TitleOf
    <3>4. Held(after[last]) = {new} \cup (IF last \in DOMAIN before THEN Held(before[last]) ELSE {})
      BY <1>2, <2>2, <3>3 DEF slots
    <3>5. \A j \in DOMAIN before : j # at /\ j # last => Held(after[j]) = Held(before[j])
      BY <1>2, <2>2, <2>11, <2>12
    <3>6. at # last /\ at \in DOMAIN before /\ last \in DOMAIN after /\ DOMAIN before = DOMAIN after
      BY <1>2, <2>1, <2>2, <2>12
    <3>7. Once(before, n)
      BY <1>1 DEF Wrapping, before
    <3> DEFINE old == [name |-> Cleared, nca |-> <<k, at>>]
    <3>8. new.nca = old.nca /\ Held(before[at]) = {old}
      BY <3>1
    <3>9. \A j \in DOMAIN after \ DOMAIN before : j # last => Held(after[j]) = {}
      BY <3>6
    <3> HIDE DEF new, old, last
    <3> QED
      BY <3>2, <3>4, <3>5, <3>6, <3>7, <3>8, <3>9, MoveKeepsOnce
  <2>14. Wrapping(k, fresh, after)
    <3>1. \A j \in DOMAIN fresh : after[j] \in {fresh[j], Gone}
      BY <1>1, <1>2, <1>3, <2>2, <2>11, <2>12 DEF Wrapping, before
    <3>2. ASSUME NEW j \in DOMAIN after \ DOMAIN fresh PROVE after[j].name \in TitleNames
      <4>1. CASE j = last
        <5>1. TitleOf(fresh, i, slots) \in TitleEntries(N)
          BY <2>10, FreshMeta
        <5>2. TitleOf(fresh, i, slots).name \in TitleNames
          BY <5>1 DEF TitleEntries
        <5> QED
          BY <2>12, <4>1, <5>2
      <4>2. CASE j # last
        <5>1. j \in DOMAIN s.es /\ j # at /\ j \in DOMAIN before
          BY <1>2, <2>2, <2>3, <2>12, <3>2, <4>2
        <5>2. before[j].name \in TitleNames
          BY <1>1, <3>2, <5>1 DEF Wrapping, before
        <5> QED
          BY <2>2, <2>11, <2>12, <5>1, <5>2
      <4> QED
        BY <4>1, <4>2
    <3>3. Len(fresh) <= Len(after)
      BY <1>1, <1>2, <1>3, <2>12
    <3> QED
      BY <2>12, <2>13, <3>1, <3>2, <3>3 DEF Wrapping
  <2>15. \A slot \in slots : \A t, a : slot.name = <<t, a>> => a \in DOMAIN rest /\ rest[a] = Gone
    BY <1>1, <2>1, <2>8, <2>11 DEF slots
  <2>16. \A m \in DOMAIN fresh : m # i /\ IsMeta(fresh[m]) => rest[m] = es[m]
    BY <1>1, <1>2, <1>3, <2>5, <2>11
  <2>17. [es |-> rest, slots |-> slots] \in Wraps(k, fresh, i, es)
    BY <1>1, <2>10, <2>11, <2>14, <2>15, <2>16 DEF Wraps, after
  <2> QED
    BY <2>9, <2>17
<1> QED
  BY <1>4, <1>5

\* A title of its own: all contents of a meta move.
LEMMA WrapKeeps ==
  ASSUME Loaded, NEW k \in DOMAIN loads, NEW fresh, IsFresh(k, fresh),
         NEW i \in DOMAIN fresh, IsMeta(fresh[i]),
         NEW es, Wrapping(k, fresh, es), es[i] = fresh[i]
  PROVE  /\ Wrapping(k, fresh, Wrap(es, i))
         /\ \A m \in DOMAIN fresh : m # i /\ IsMeta(fresh[m]) => Wrap(es, i)[m] = es[m]
<1> DEFINE N == NcasOf(k)
           E == EntriesOver(N, {})
           contents == MetaAt(fresh, i).contents
           n == Len(contents)
           slot == [name |-> <<"Meta">>, nca |-> es[i].fs.nca]
           start == [es |-> Without(es, i), slots |-> {slot}]
           moved[j \in 0 .. n] ==
             IF j = 0 THEN start ELSE Moved(moved[j - 1], contents[j])
           S == Wraps(k, fresh, i, es)
<1>1. /\ es \in Seq(E) /\ Len(es) \in Nat /\ DOMAIN es = 1 .. Len(es) /\ Len(fresh) <= Len(es)
      /\ Len(fresh) \in Nat /\ DOMAIN fresh = 1 .. Len(fresh) /\ i \in DOMAIN es
  BY LenProperties DEF Wrapping, IsFresh
<1>2. es[i].fs = NcaFs(<<k, i>>) /\ es[i].fs.nca = <<k, i>> /\ <<k, i>> \in N
  BY FreshMeta, FsDiffer
<1>3. n \in Nat /\ \A j \in 1 .. n : contents[j] \in Range(contents)
  <2>1. contents \in Seq(Range(contents))
    BY FreshMeta
  <2>2. n \in Nat /\ DOMAIN contents = 1 .. n
    BY <2>1, LenProperties
  <2> QED
    BY <2>2 DEF Range
<1>4. start \in S
  <2> DEFINE rest == Without(es, i)
             title == TitleOf(fresh, i, {slot})
             after == Append(rest, title)
             last == Len(es) + 1
  <2>1. /\ rest \in Seq(E) /\ Len(rest) = Len(es) /\ DOMAIN rest = DOMAIN es
        /\ \A j \in DOMAIN es : rest[j] = IF j = i THEN Gone ELSE es[j]
    BY <1>1, WithoutIsSeq
  <2>2. {slot} \in Titles(N)
    <3>1. <<"Meta">> \in SlotNames
      BY DEF SlotNames, SlotTypes
    <3>2. slot \in Slots(N) /\ slot.name = <<"Meta">>
      BY <1>2, <3>1 DEF Slots
    <3> HIDE DEF slot
    <3> QED
      BY <3>2 DEF Titles
  <2>3. title \in TitleEntries(N) /\ title.name \in TitleNames
    <3>1. title \in TitleEntries(N)
      BY <2>2, FreshMeta
    <3> QED
      BY <3>1 DEF TitleEntries
  <2>4. /\ after \in Seq(E) /\ Len(after) = last /\ DOMAIN after = 1 .. last
        /\ \A j \in DOMAIN rest : after[j] = rest[j]
        /\ after[last] = title
    <3>1. title \in E
      BY <2>3 DEF EntriesOver
    <3> HIDE DEF rest, title
    <3> QED
      BY <2>1, <3>1, AppendFacts
  <2>5. ASSUME NEW m \in N PROVE Once(after, m)
    <3> DEFINE old == [name |-> Cleared, nca |-> <<k, i>>]
    <3>1. Held(es[i]) = {old}
      BY <1>2, FsDiffer DEF Held
    <3>2. Held(after[i]) = {}
      BY <1>1, <2>1, <2>4, GoneIsEntry
    <3>3. Held(after[last]) = {slot}
      BY <2>4, FsDiffer DEF Held, TitleOf
    <3>4. \A j \in DOMAIN es : j # i /\ j # last => Held(after[j]) = Held(es[j])
      BY <1>1, <2>1, <2>4
    <3>5. /\ i # last /\ last \in DOMAIN after /\ DOMAIN es \subseteq DOMAIN after
          /\ last \notin DOMAIN es
      BY <1>1, <2>4
    <3>6. \A j \in DOMAIN after \ DOMAIN es : j # last => Held(after[j]) = {}
      BY <1>1, <2>4
    <3>7. Once(es, m) /\ slot.nca = old.nca
      BY <1>2 DEF Wrapping
    <3>8. Held(after[last]) = {slot} \cup (IF last \in DOMAIN es THEN Held(es[last]) ELSE {})
      BY <3>3, <3>5
    <3>9. i \in DOMAIN es
      BY <1>1
    <3> HIDE DEF slot, old, last, after
    <3> QED
      BY <3>9, <3>1, <3>2, <3>4, <3>5, <3>6, <3>7, <3>8, MoveKeepsOnce
  <2>6. Wrapping(k, fresh, after)
    <3>1. \A j \in DOMAIN fresh : after[j] \in {fresh[j], Gone}
      BY <1>1, <2>1, <2>4 DEF Wrapping
    <3>2. \A j \in DOMAIN after \ DOMAIN fresh : after[j].name \in TitleNames
      <4>1. SUFFICES ASSUME NEW j \in DOMAIN after \ DOMAIN fresh
                     PROVE  after[j].name \in TitleNames
        OBVIOUS
      <4>2. CASE j = last
        BY <2>3, <2>4, <4>2
      <4>3. CASE j # last
        <5>1. j \in DOMAIN es \ DOMAIN fresh /\ j # i
          BY <1>1, <2>4, <4>3
        <5> QED
          BY <2>1, <2>4, <5>1 DEF Wrapping
      <4> QED
        BY <4>2, <4>3
    <3>3. Len(fresh) <= Len(after)
      BY <1>1, <2>4
    <3> QED
      BY <2>4, <2>5, <3>1, <3>2, <3>3 DEF Wrapping
  <2>7. \A t, a : slot.name # <<t, a>>
    <3> SUFFICES ASSUME NEW t, NEW a PROVE <<"Meta">> # <<t, a>>
      OBVIOUS
    <3>1. Len(<<t, a>>) = 2 /\ Len(<<"Meta">>) = 1
      OBVIOUS
    <3> QED
      BY <3>1
  <2>8. \A m \in DOMAIN fresh : m # i /\ IsMeta(fresh[m]) => rest[m] = es[m]
    BY <1>1, <2>1
  <2>9. start \in [es : Seq(E), slots : Titles(N)] /\ start.es = rest /\ start.slots = {slot}
    BY <2>1, <2>2
  <2>10. Len(fresh) <= Len(rest)
    BY <1>1, <2>1
  <2> HIDE DEF rest, slot, start, after
  <2> QED
    BY <2>6, <2>7, <2>8, <2>9, <2>10 DEF Wraps, after, title
<1> HIDE DEF start, contents, n
<1>5. moved = [j \in 0 .. n |-> IF j = 0 THEN start ELSE Moved(moved[j - 1], contents[j])]
  <2> DEFINE D == [j \in 0 .. n |-> S]
             step == [j \in 1 .. n |-> [s \in S |-> Moved(s, contents[j])]]
  <2>1. \A j \in 1 .. n : \A d \in D[j - 1] : step[j][d] \in D[j]
    <3> SUFFICES ASSUME NEW j \in 1 .. n, NEW d \in S PROVE Moved(d, contents[j]) \in S
      BY <1>3
    <3> QED
      BY <1>3, MovedKeeps DEF contents
  <2>2. start \in D[0]
    BY <1>3, <1>4
  <2>3. PICK f : IsCourse(f, n, start, step) /\ \A j \in 0 .. n : f[j] \in D[j]
    <3> HIDE DEF D, step, S, moved
    <3>1. n \in Nat
      BY <1>3
    <3> QED
      BY <3>1, <2>1, <2>2, LoopRuns
  <2>4. \A j \in 0 .. n : j # 0 => step[j][f[j - 1]] = Moved(f[j - 1], contents[j])
    <3> SUFFICES ASSUME NEW j \in 0 .. n, j # 0
                 PROVE  step[j][f[j - 1]] = Moved(f[j - 1], contents[j])
      OBVIOUS
    <3>1. j - 1 \in 0 .. n /\ j \in 1 .. n
      BY <1>3
    <3>2. f[j - 1] \in S
      BY <2>3, <3>1
    <3> QED
      BY <3>1, <3>2
  <2>5. f = [j \in 0 .. n |-> IF j = 0 THEN start ELSE Moved(f[j - 1], contents[j])]
    <3> HIDE DEF step
    <3> QED
      BY <2>3, <2>4 DEF IsCourse
  <2> QED
    BY <2>5, Zenon
<1> HIDE DEF moved
<1>6. moved[n] \in S
  <2> DEFINE good == {j \in 0 .. n : moved[j] \in S}
  <2>1. 0 \in good
    BY <1>3, <1>4, <1>5
  <2>2. \A j \in 1 .. n : j - 1 \in good => j \in good
    <3> SUFFICES ASSUME NEW j \in 1 .. n, moved[j - 1] \in S PROVE moved[j] \in S
      OBVIOUS
    <3>1. moved[j] = Moved(moved[j - 1], contents[j])
      BY <1>3, <1>5
    <3> QED
      BY <1>3, <3>1, MovedKeeps DEF contents
  <2>3. n \in 0 .. n
    BY <1>3
  <2> HIDE DEF good
  <2>4. n \in good
    BY <1>3, <2>1, <2>2, <2>3, LoopKeeps
  <2> QED
    BY <2>4 DEF good
<1>7. Wrap(es, i) = Append(moved[n].es, TitleOf(fresh, i, moved[n].slots))
  BY Zenon DEF Wrap, moved, n, contents, start, TitleOf, MetaAt
<1>8. Wrapping(k, fresh, Wrap(es, i))
  BY <1>6, <1>7 DEF Wraps
<1>9. ASSUME NEW m \in DOMAIN fresh, m # i, IsMeta(fresh[m])
      PROVE  Wrap(es, i)[m] = es[m]
  <2>1. /\ moved[n].es \in Seq(E) /\ moved[n].slots \in Titles(N) /\ Len(fresh) <= Len(moved[n].es)
        /\ moved[n].es[m] = es[m]
    BY <1>6, <1>9 DEF Wraps
  <2>2. TitleOf(fresh, i, moved[n].slots) \in E
    BY <2>1, FreshMeta DEF EntriesOver
  <2>3. Len(moved[n].es) \in Nat /\ DOMAIN moved[n].es = 1 .. Len(moved[n].es)
    BY <2>1, LenProperties
  <2>4. m \in DOMAIN moved[n].es
    BY <1>1, <2>1, <2>3
  <2> QED
    BY <1>7, <2>1, <2>2, <2>4, AppendFacts
<1> QED
  BY <1>8, <1>9

\* Entries as init() leaves them: no entry goes by the name of an NCA's file, and one
\* that goes by the name of a file is at the file's index.
Arranged(k, es, N, P) ==
  /\ es \in Seq(EntriesOver(N, P))
  /\ \A i \in DOMAIN es : ~ IsNca(es[i])
  /\ \A i \in DOMAIN es : es[i].name \in FileNames => i \in DOMAIN loads[k].files

\* Names of files are no names of titles.
LEMMA NamesDiffer ==
  /\ \A name \in TitleNames : name \notin FileNames /\ name # Cleared /\ name[1] = "title"
  /\ Cleared \notin FileNames
<1>1. ASSUME NEW name \in FileNames PROVE Len(name) = 2
  <2>1. name = <<name[1], name[2]>>
    BY DEF FileNames
  <2> QED
    BY <2>1
<1>2. ASSUME NEW name \in TitleNames PROVE Len(name) = 3 /\ name[1] = "title"
  BY DEF TitleNames
<1>3. Len(Cleared) = 0
  BY DEF Cleared
<1>4. \A name \in TitleNames : name \notin FileNames
  BY <1>1, <1>2
<1>5. \A name \in TitleNames : name # Cleared
  BY <1>2, <1>3
<1>6. Cleared \notin FileNames
  BY <1>1, <1>3
<1> QED
  BY <1>2, <1>4, <1>5, <1>6

\* What belongs to no title gets a name that is none of a file to come.
LEMMA RenamedHolds ==
  ASSUME Loaded, NEW k \in DOMAIN loads, NEW e \in EntriesOver(NcasOf(k), {}),
         IsNca(e) => \E n \in NcasOf(k) : e.fs = NcaFs(n)
  PROVE  /\ Renamed(e) \in EntriesOver(NcasOf(k), {})
         /\ ~ IsNca(Renamed(e)) /\ Held(Renamed(e)) = Held(e)
         /\ Renamed(e).name \in FileNames => e.name \in FileNames
<1>1. CASE ~ IsNca(e)
  BY <1>1 DEF Renamed
<1>2. CASE IsNca(e)
  <2>1. PICK n \in NcasOf(k) : e.fs = NcaFs(n)
    BY <1>2
  <2>2. e = [name |-> e.name, fs |-> e.fs] /\ e.name \in FileNames
    <3>1. e.name # Cleared /\ e.name[1] # "title"
      BY <1>2 DEF IsNca
    <3> QED
      BY <3>1, EntryKinds
  <2> DEFINE type == FileOf(e.fs.nca).type
             name == <<type, e.name[2]>>
  <2>3. type \in ContentTypes
    BY <2>1, FsDiffer, NcaIsFile
  <2>4. name \in FileNames
    BY <2>2, <2>3 DEF FileNames
  <2>5. Renamed(e) = [name |-> name, fs |-> e.fs]
    BY <1>2, <2>2 DEF Renamed
  <2>6. Renamed(e) \in EntriesOver(NcasOf(k), {})
    BY <2>1, <2>4, <2>5 DEF EntriesOver, FileEntries
  <2>7. ~ IsNca(Renamed(e))
    <3>1. "nca" \notin ContentTypes
      BY DEF ContentTypes
    <3> QED
      BY <2>3, <2>5, <3>1, NameParts DEF IsNca
  <2>8. Held(Renamed(e)) = Held(e)
    BY <2>5 DEF Held
  <2> QED
    BY <2>2, <2>6, <2>7, <2>8
<1> QED
  BY <1>1, <1>2

\* rearrangeNCAs loses no NCA and doubles none, whichever metas name it.
LEMMA RearrangedHolds ==
  ASSUME Loaded, NEW k \in DOMAIN loads, NEW fresh, IsFresh(k, fresh)
  PROVE  /\ Arranged(k, Rearranged(fresh), NcasOf(k), {})
         /\ \A n \in NcasOf(k) : Once(Rearranged(fresh), n)
<1> DEFINE E == EntriesOver(NcasOf(k), {})
           len == Len(fresh)
           Round(w, i) == IF IsMeta(fresh[i]) THEN Wrap(w, i) ELSE w
           wrapped[i \in 0 .. len] ==
             IF i = 0 THEN fresh
             ELSE IF IsMeta(fresh[i]) THEN Wrap(wrapped[i - 1], i) ELSE wrapped[i - 1]
           all == wrapped[len]
           S(i) == {w \in Seq(E) :
                      /\ Wrapping(k, fresh, w)
                      /\ \A m \in DOMAIN fresh : m > i /\ IsMeta(fresh[m]) => w[m] = fresh[m]}
<1>1. /\ fresh \in Seq(E) /\ len \in Nat /\ DOMAIN fresh = 1 .. len
      /\ DOMAIN fresh = DOMAIN loads[k].files
  BY LenProperties DEF IsFresh
<1>2. fresh \in S(0)
  <2>1. \A n \in NcasOf(k) : Once(fresh, n)
    BY FreshHoldsOnce
  <2> QED
    BY <1>1, <2>1 DEF Wrapping
<1>3. ASSUME NEW i \in 1 .. len, NEW w \in S(i - 1) PROVE Round(w, i) \in S(i)
  <2>1. i \in DOMAIN fresh /\ \A m \in DOMAIN fresh : m > i => m > i - 1 /\ m # i
    BY <1>1
  <2>2. CASE IsMeta(fresh[i])
    <3>1. w[i] = fresh[i]
      BY <1>1, <2>1, <2>2
    <3>2. /\ Wrapping(k, fresh, Wrap(w, i))
          /\ \A m \in DOMAIN fresh : m # i /\ IsMeta(fresh[m]) => Wrap(w, i)[m] = w[m]
      BY <2>1, <2>2, <3>1, WrapKeeps
    <3>3. Wrap(w, i) \in Seq(E)
      BY <3>2 DEF Wrapping
    <3> QED
      BY <2>1, <2>2, <3>2, <3>3
  <2>3. CASE ~ IsMeta(fresh[i])
    BY <2>1, <2>3
  <2> QED
    BY <2>2, <2>3
<1> HIDE DEF S, len
<1>4. wrapped = [i \in 0 .. len |->
        IF i = 0 THEN fresh
        ELSE IF IsMeta(fresh[i]) THEN Wrap(wrapped[i - 1], i) ELSE wrapped[i - 1]]
  <2> DEFINE D == [j \in 0 .. len |-> S(j)]
             step == [j \in 1 .. len |-> [w \in S(j - 1) |-> Round(w, j)]]
  <2>1. \A j \in 1 .. len : \A d \in D[j - 1] : step[j][d] \in D[j]
    <3> SUFFICES ASSUME NEW j \in 1 .. len, NEW d \in S(j - 1) PROVE Round(d, j) \in S(j)
      BY <1>1
    <3> QED
      BY <1>3
  <2>2. fresh \in D[0]
    BY <1>1, <1>2
  <2>3. PICK f : IsCourse(f, len, fresh, step) /\ \A j \in 0 .. len : f[j] \in D[j]
    <3> HIDE DEF D, step, S, wrapped
    <3>1. len \in Nat
      BY <1>1
    <3> QED
      BY <3>1, <2>1, <2>2, LoopRuns
  <2>4. \A j \in 0 .. len : j # 0 => step[j][f[j - 1]] = Round(f[j - 1], j)
    <3> SUFFICES ASSUME NEW j \in 0 .. len, j # 0
                 PROVE  step[j][f[j - 1]] = Round(f[j - 1], j)
      OBVIOUS
    <3>1. j - 1 \in 0 .. len /\ j \in 1 .. len
      BY <1>1
    <3>2. f[j - 1] \in S(j - 1)
      BY <2>3, <3>1
    <3> QED
      BY <3>1, <3>2
  <2>5. f = [j \in 0 .. len |-> IF j = 0 THEN fresh
             ELSE IF IsMeta(fresh[j]) THEN Wrap(f[j - 1], j) ELSE f[j - 1]]
    <3> HIDE DEF step
    <3> QED
      BY <2>3, <2>4 DEF IsCourse
  <2> QED
    BY <2>5, Zenon
<1> HIDE DEF wrapped
<1>5. all \in S(len)
  <2> DEFINE good == {j \in 0 .. len : wrapped[j] \in S(j)}
  <2>1. 0 \in good
    BY <1>1, <1>2, <1>4
  <2>2. \A j \in 1 .. len : j - 1 \in good => j \in good
    <3> SUFFICES ASSUME NEW j \in 1 .. len, wrapped[j - 1] \in S(j - 1) PROVE wrapped[j] \in S(j)
      OBVIOUS
    <3>1. wrapped[j] = Round(wrapped[j - 1], j)
      BY <1>1, <1>4
    <3> HIDE DEF Round
    <3> QED
      BY <1>3, <3>1
  <2>3. len \in 0 .. len
    BY <1>1
  <2> HIDE DEF good
  <2>4. len \in good
    BY <1>1, <2>1, <2>2, <2>3, LoopKeeps
  <2> QED
    BY <2>4 DEF good
<1>6. Rearranged(fresh) = [i \in DOMAIN all |-> Renamed(all[i])]
  BY Zenon DEF Rearranged, wrapped, len
<1> HIDE DEF all
<1>7. /\ all \in Seq(E) /\ Wrapping(k, fresh, all)
      /\ Len(all) \in Nat /\ DOMAIN all = 1 .. Len(all) /\ \A i \in DOMAIN all : all[i] \in E
  BY <1>5, LenProperties DEF S
<1>8. ASSUME NEW i \in DOMAIN all
      PROVE  /\ Renamed(all[i]) \in E
             /\ ~ IsNca(Renamed(all[i])) /\ Held(Renamed(all[i])) = Held(all[i])
             /\ Renamed(all[i]).name \in FileNames => i \in DOMAIN loads[k].files
  <2>1. i \notin DOMAIN fresh => all[i].name \in TitleNames
    BY <1>7 DEF Wrapping
  <2>2. IsNca(all[i]) => \E n \in NcasOf(k) : all[i].fs = NcaFs(n)
    <3> SUFFICES ASSUME IsNca(all[i]) PROVE \E n \in NcasOf(k) : all[i].fs = NcaFs(n)
      OBVIOUS
    <3>1. all[i].name \notin TitleNames /\ all[i] # Gone
      BY NamesDiffer, GoneIsEntry DEF IsNca
    <3>2. i \in DOMAIN fresh /\ all[i] = fresh[i]
      BY <1>7, <2>1, <3>1 DEF Wrapping
    <3> QED
      BY <3>2 DEF IsFresh, NcasOf
  <2>3. /\ Renamed(all[i]) \in E
        /\ ~ IsNca(Renamed(all[i])) /\ Held(Renamed(all[i])) = Held(all[i])
        /\ Renamed(all[i]).name \in FileNames => all[i].name \in FileNames
    BY <1>7, <2>2, RenamedHolds
  <2>4. all[i].name \in FileNames => i \in DOMAIN fresh
    BY <2>1, NamesDiffer
  <2> QED
    BY <1>1, <2>3, <2>4
<1> DEFINE es == Rearranged(fresh)
<1>9. es \in [1 .. Len(all) -> E]
  BY <1>6, <1>7, <1>8
<1>10. es \in Seq(E) /\ DOMAIN es = DOMAIN all /\ \A i \in DOMAIN es : es[i] = Renamed(all[i])
  <2>1. es \in Seq(E)
    BY <1>7, <1>9, FunctionIsSeq
  <2> QED
    BY <1>6, <2>1
<1>11. Arranged(k, es, NcasOf(k), {})
  BY <1>8, <1>10 DEF Arranged
<1>12. ASSUME NEW n \in NcasOf(k) PROVE Once(es, n)
  <2>1. Once(all, n)
    BY <1>7 DEF Wrapping
  <2>2. \A i \in DOMAIN all : Held(es[i]) = Held(all[i])
    BY <1>8, <1>10
  <2> HIDE DEF es
  <2> QED
    BY <1>10, <2>1, <2>2 DEF Once
<1> QED
  BY <1>11, <1>12

\* What was arranged before stays as it is.
LEMMA ArrangedStays ==
  ASSUME NEW S, NEW es \in Seq(S), \A i \in DOMAIN es : ~ IsNca(es[i])
  PROVE  Rearranged(es) = es
<1> DEFINE len == Len(es)
           wrapped[i \in 0 .. len] ==
             IF i = 0 THEN es ELSE IF IsMeta(es[i]) THEN Wrap(wrapped[i - 1], i) ELSE wrapped[i - 1]
           all == wrapped[len]
           same == [i \in 0 .. len |-> es]
<1>1. len \in Nat /\ DOMAIN es = 1 .. len /\ es = [i \in 1 .. len |-> es[i]]
  BY LenProperties, SeqDef
<1>2. \A i \in 1 .. len : ~ IsMeta(es[i])
  BY <1>1 DEF IsMeta
<1> HIDE DEF len
<1>3. same = [i \in 0 .. len |->
        IF i = 0 THEN es ELSE IF IsMeta(es[i]) THEN Wrap(same[i - 1], i) ELSE same[i - 1]]
  <2> SUFFICES ASSUME NEW i \in 0 .. len
               PROVE  es = IF i = 0 THEN es
                           ELSE IF IsMeta(es[i]) THEN Wrap(same[i - 1], i) ELSE same[i - 1]
    OBVIOUS
  <2>1. i # 0 => i - 1 \in 0 .. len /\ i \in 1 .. len
    BY <1>1
  <2> QED
    BY <1>2, <2>1
<1>4. wrapped = [i \in 0 .. len |->
        IF i = 0 THEN es ELSE IF IsMeta(es[i]) THEN Wrap(wrapped[i - 1], i) ELSE wrapped[i - 1]]
  <2> HIDE DEF same
  <2> QED
    BY <1>3, Zenon
<1> HIDE DEF wrapped
<1>5. all = es
  <2> DEFINE good == {j \in 0 .. len : wrapped[j] = es}
  <2>1. 0 \in good
    BY <1>1, <1>4
  <2>2. \A j \in 1 .. len : j - 1 \in good => j \in good
    <3> SUFFICES ASSUME NEW j \in 1 .. len, wrapped[j - 1] = es PROVE wrapped[j] = es
      OBVIOUS
    <3>1. j \in 0 .. len /\ j # 0 /\ ~ IsMeta(es[j])
      BY <1>1, <1>2
    <3> QED
      BY <1>4, <3>1
  <2>3. len \in 0 .. len
    BY <1>1
  <2> HIDE DEF good
  <2>4. len \in good
    BY <1>1, <2>1, <2>2, <2>3, LoopKeeps
  <2> QED
    BY <2>4 DEF good
<1>6. Rearranged(es) = [i \in DOMAIN all |-> Renamed(all[i])]
  BY Zenon DEF Rearranged, wrapped, len
<1>7. \A i \in 1 .. len : Renamed(es[i]) = es[i]
  BY <1>1 DEF Renamed
<1> QED
  BY <1>1, <1>5, <1>6, <1>7

-----------------------------------------------------------------------------
\* The types of what is known of NCAs.
NcasTyped(ns) ==
  /\ ns = [n \in DOMAIN ns |-> ns[n]]
  /\ \A n \in DOMAIN ns :
       /\ \E k \in DOMAIN loads : n \in NcasOf(k)
       /\ ns[n] \in [sections : SUBSET (FileOf(n).plain \cup FileOf(n).patched),
                     base : DOMAIN ns \cup {NoNca}, keyed : BOOLEAN]

\* From ms to ns no NCA lost a section, and only some of N gained any and were given
\* bases of B.
Grown(ms, ns, N, B) ==
  /\ NcasTyped(ns) /\ DOMAIN ns = DOMAIN ms
  /\ \A n \in DOMAIN ms :
       /\ ms[n].sections \subseteq ns[n].sections
       /\ n \notin N => ns[n].sections = ms[n].sections
       /\ ns[n].keyed = ms[n].keyed
       /\ ns[n].base = ms[n].base \/ (n \in N /\ ns[n].base \in B)

LEMMA GrownSame ==
  ASSUME NEW ns, NcasTyped(ns), NEW N, NEW B
  PROVE  Grown(ns, ns, N, B)
  BY DEF Grown

LEMMA GrownOn ==
  ASSUME NEW ls, NEW ms, NEW ns, NEW N, NEW B, Grown(ls, ms, N, B), Grown(ms, ns, N, B)
  PROVE  Grown(ls, ns, N, B)
  BY DEF Grown

\* What is known of some NCAs is one of a set of states.
States(ns) ==
  [DOMAIN ns -> [sections : SUBSET UNION {FileOf(n).plain \cup FileOf(n).patched : n \in DOMAIN ns},
                 base : DOMAIN ns \cup {NoNca}, keyed : BOOLEAN]]

LEMMA GrownAreStates ==
  ASSUME NEW ms, NEW ns, NEW N, NEW B, Grown(ms, ns, N, B)
  PROVE  ns \in States(ms)
<1>1. DOMAIN ns = DOMAIN ms /\ ns = [n \in DOMAIN ns |-> ns[n]]
  BY DEF Grown, NcasTyped
<1> DEFINE U == UNION {FileOf(n).plain \cup FileOf(n).patched : n \in DOMAIN ms}
<1>2. ASSUME NEW n \in DOMAIN ms
      PROVE  ns[n] \in [sections : SUBSET U, base : DOMAIN ms \cup {NoNca}, keyed : BOOLEAN]
  <2>1. ns[n] \in [sections : SUBSET (FileOf(n).plain \cup FileOf(n).patched),
                   base : DOMAIN ms \cup {NoNca}, keyed : BOOLEAN]
    BY <1>1 DEF Grown, NcasTyped
  <2>2. FileOf(n).plain \cup FileOf(n).patched \subseteq U
    OBVIOUS
  <2> HIDE DEF U
  <2> QED
    BY <2>1, <2>2
<1> HIDE DEF U
<1> QED
  BY <1>1, <1>2 DEF States, U

\* setBase only adds sections, those that the NCA has.
LEMMA SetBaseGrows ==
  ASSUME NEW ns, NcasTyped(ns), NEW N, NEW B, N \cup B \subseteq DOMAIN ns,
         NEW pair, pair.update \in N, pair.base \in B
  PROVE  Grown(ns, SetBase(ns, pair), N, B)
<1> DEFINE u == pair.update
           found == (FileOf(u).patched \ ns[u].sections) \cap ns[pair.base].sections
           new == [sections |-> ns[u].sections \cup found, base |-> pair.base,
                  keyed |-> ns[u].keyed]
           ms == SetBase(ns, pair)
<1>1. CASE found = {}
  BY <1>1, GrownSame DEF SetBase
<1>2. CASE found # {}
  <2>1. u \in DOMAIN ns /\ pair.base \in DOMAIN ns
    OBVIOUS
  <2>2. ns[u] \in [sections : SUBSET (FileOf(u).plain \cup FileOf(u).patched),
                   base : DOMAIN ns \cup {NoNca}, keyed : BOOLEAN]
    BY <2>1 DEF NcasTyped
  <2>3. ms = [ns EXCEPT ![u].sections = @ \cup found, ![u].base = pair.base]
    BY <1>2 DEF SetBase
  <2>4. /\ DOMAIN ms = DOMAIN ns
        /\ ms[u] = new
        /\ \A n \in DOMAIN ns : n # u => ms[n] = ns[n]
    <3> HIDE DEF found, u, ms
    <3> QED
      BY <2>1, <2>2, <2>3
  <2>5. found \subseteq FileOf(u).patched
    OBVIOUS
  <2>6. new \in [sections : SUBSET (FileOf(u).plain \cup FileOf(u).patched),
                 base : DOMAIN ns \cup {NoNca}, keyed : BOOLEAN]
    <3> HIDE DEF found, u
    <3> QED
      BY <2>1, <2>2, <2>5
  <2>9. ms = [n \in DOMAIN ms |-> ms[n]]
    BY <2>3
  <2> HIDE DEF ms, new, found
  <2>7. NcasTyped(ms)
    BY <2>4, <2>6, <2>9 DEF NcasTyped
  <2>8. ASSUME NEW n \in DOMAIN ns
        PROVE  /\ ns[n].sections \subseteq ms[n].sections
               /\ n \notin N => ms[n].sections = ns[n].sections
               /\ ms[n].keyed = ns[n].keyed
               /\ ms[n].base = ns[n].base \/ (n \in N /\ ms[n].base \in B)
    <3>1. CASE n = u
      <4>1. ms[n] = new
        BY <2>4, <3>1
      <4> QED
        BY <3>1, <4>1 DEF new
    <3>2. CASE n # u
      BY <2>4, <3>2
    <3> QED
      BY <3>1, <3>2
  <2> QED
    BY <2>4, <2>7, <2>8 DEF Grown, ms
<1> QED
  BY <1>1, <1>2

\* NCAs of packages that were opened.
NcasOver(K) == UNION {NcasOf(k) : k \in K}

\* An entry that is a title of some NCAs.
IsTitle(e, N) == \E slots \in Titles(N) : e.fs = WrapperFs(slots)

\* An entry with a meta is a title, and its contents are a sequence.
LEMMA MetaHolds ==
  ASSUME Loaded, NEW N, N \subseteq NcasOver(DOMAIN loads), NEW P,
         NEW e \in EntriesOver(N, P), HasMeta(e)
  PROVE  /\ e \in TitleEntries(N) /\ e.name \in TitleNames
         /\ IsTitle(e, N)
         /\ DOMAIN MetaOf(e).contents \in SUBSET (Nat \ {0})
         /\ Len(MetaOf(e).contents) \in Nat
         /\ DOMAIN MetaOf(e).contents = 1 .. Len(MetaOf(e).contents)
         /\ \E f \in AllFiles : IsMetaFile(f) /\ MetaOf(e) = f.meta
<1>1. e.name # Cleared /\ e.fs.kind = "wrapper"
  BY DEF HasMeta, MetaOf
<1>2. e.name \in TitleNames /\ IsTitle(e, N)
  BY <1>1, EntryKinds, FsDiffer DEF IsTitle
<1>3. e = [name |-> e.name, fs |-> e.fs]
  BY EntryKinds
<1>4. e \in TitleEntries(N)
  BY <1>2, <1>3 DEF IsTitle, TitleEntries
<1>5. PICK slots \in Titles(N) : e.fs = WrapperFs(slots)
  BY <1>2 DEF IsTitle
<1> DEFINE s == CHOOSE s \in e.fs.slots : s.name = <<"Meta">>
<1>6. s.nca \in N
  <2>1. e.fs.slots = slots
    BY <1>5, FsDiffer
  <2>2. s \in slots
    BY <2>1 DEF Titles
  <2> QED
    BY <2>2 DEF Titles, Slots
<1>7. MetaOf(e) = FileOf(s.nca).meta
  BY <1>1 DEF MetaOf
<1> HIDE DEF s
<1>8. PICK k \in DOMAIN loads : s.nca \in NcasOf(k)
  BY <1>6 DEF NcasOver
<1>9. MetaOf(e).contents \in Seq(Range(MetaOf(e).contents))
  BY <1>7, <1>8, NcaIsFile DEF HasMeta
<1>10. Len(MetaOf(e).contents) \in Nat /\ DOMAIN MetaOf(e).contents = 1 .. Len(MetaOf(e).contents)
  BY <1>9, LenProperties
<1>11. \E f \in AllFiles : IsMetaFile(f) /\ MetaOf(e) = f.meta
  BY <1>7, <1>8, NcaIsFile DEF HasMeta
<1> QED
  BY <1>2, <1>4, <1>10, <1>11

\* The NCA with a content id is one that the title holds.
LEMMA NcaOfHolds ==
  ASSUME NEW N, NEW e, NEW slots \in Titles(N), e.fs = WrapperFs(slots), NEW id
  PROVE  NcaOf(e, id) = NoNca \/ NcaOf(e, id) \in N
<1> DEFINE found == {s.nca : s \in {t \in e.fs.slots : FileOf(t.nca).id = id}}
<1>1. found \subseteq N
  BY FsDiffer DEF Titles, Slots
<1>2. NcaOf(e, id) = IF found = {} THEN NoNca ELSE CHOOSE n \in found : TRUE
  BY DEF NcaOf
<1> HIDE DEF found
<1> QED
  BY <1>1, <1>2

\* A pair is of an NCA of the patch and one of the base.
LEMMA PairHolds ==
  ASSUME NEW N, NEW B, NEW patch, NEW base,
         IsTitle(patch, N),
         IsTitle(base, B),
         NEW j \in Paired(patch, base)
  PROVE  LET pair == Pair(patch, base, MetaOf(patch).contents[j])
         IN pair.update \in N /\ pair.base \in B
<1> DEFINE info == MetaOf(patch).contents[j]
           contents == MetaOf(base).contents
           at == First({i \in DOMAIN contents : contents[i].type = info.type})
           pair == Pair(patch, base, info)
<1>1. pair.update = NcaOf(patch, info.id)
  BY DEF Pair
<1>2. pair.base = IF at = 0 THEN NoNca ELSE NcaOf(base, contents[at].id)
  BY DEF Pair
<1>3. pair.update # NoNca /\ pair.base # NoNca
  BY DEF Paired
<1> HIDE DEF pair, at, info
<1>4. pair.update \in N
  BY <1>1, <1>3, NcaOfHolds DEF IsTitle
<1>5. pair.base \in B
  BY <1>2, <1>3, NcaOfHolds DEF IsTitle
<1> QED
  BY <1>4, <1>5 DEF pair, info

\* A content that is tied only gains sections.
LEMMA TieGrows ==
  ASSUME NEW ns, NcasTyped(ns), NEW N, NEW B, N \cup B \subseteq DOMAIN ns,
         NEW patch, NEW base,
         IsTitle(patch, N),
         IsTitle(base, B),
         NEW j \in Paired(patch, base)
  PROVE  Grown(ns, Tie(ns, patch, base, j), N, B)
  BY PairHolds, SetBaseGrows DEF Tie

\* All contents of a patch, one after the other.
TiedRun(ns, patch, base, f, n, N, B) ==
  /\ f[0] = ns /\ f[n] = Tied(ns, patch, base)
  /\ \A j \in 1 .. n :
       f[j] = IF j \in Paired(patch, base) THEN Tie(f[j - 1], patch, base, j) ELSE f[j - 1]
  /\ \A j \in 0 .. n : Grown(ns, f[j], N, B)

LEMMA TiedRuns ==
  ASSUME NEW ns, NcasTyped(ns), NEW N, NEW B, N \cup B \subseteq DOMAIN ns,
         NEW patch, NEW base, Len(MetaOf(patch).contents) \in Nat,
         IsTitle(patch, N),
         IsTitle(base, B)
  PROVE  \E f : TiedRun(ns, patch, base, f, Len(MetaOf(patch).contents), N, B)
<1> DEFINE n == Len(MetaOf(patch).contents)
           Round(ms, j) == IF j \in Paired(patch, base) THEN Tie(ms, patch, base, j) ELSE ms
           tied[j \in 0 .. n] ==
             IF j = 0 THEN ns
             ELSE IF j \in Paired(patch, base) THEN Tie(tied[j - 1], patch, base, j)
             ELSE tied[j - 1]
           S == {ms \in States(ns) : Grown(ns, ms, N, B)}
<1>1. ns \in S
  BY GrownSame, GrownAreStates
<1>2. ASSUME NEW ms \in S, NEW j \in 1 .. n PROVE Round(ms, j) \in S
  <2>1. NcasTyped(ms) /\ N \cup B \subseteq DOMAIN ms /\ Grown(ns, ms, N, B)
    BY DEF Grown
  <2>2. CASE j \in Paired(patch, base)
    <3>1. Grown(ms, Tie(ms, patch, base, j), N, B)
      BY <2>1, <2>2, TieGrows
    <3>2. Grown(ns, Tie(ms, patch, base, j), N, B)
      BY <2>1, <3>1, GrownOn
    <3> QED
      BY <2>2, <3>2, GrownAreStates
  <2>3. CASE j \notin Paired(patch, base)
    BY <2>3
  <2> QED
    BY <2>2, <2>3
<1> HIDE DEF S, n
<1>3. tied = [j \in 0 .. n |->
        IF j = 0 THEN ns
        ELSE IF j \in Paired(patch, base) THEN Tie(tied[j - 1], patch, base, j)
        ELSE tied[j - 1]]
  <2> DEFINE D == [j \in 0 .. n |-> S]
             step == [j \in 1 .. n |-> [ms \in S |-> Round(ms, j)]]
  <2>1. \A j \in 1 .. n : \A d \in D[j - 1] : step[j][d] \in D[j]
    <3> SUFFICES ASSUME NEW j \in 1 .. n, NEW d \in S PROVE Round(d, j) \in S
      BY DEF n
    <3> QED
      BY <1>2
  <2>2. ns \in D[0]
    BY <1>1 DEF n
  <2>3. PICK f : IsCourse(f, n, ns, step) /\ \A j \in 0 .. n : f[j] \in D[j]
    <3> HIDE DEF D, step, tied
    <3>1. n \in Nat
      BY DEF n
    <3> QED
      BY <3>1, <2>1, <2>2, LoopRuns
  <2>4. \A j \in 0 .. n : j # 0 => step[j][f[j - 1]] = Round(f[j - 1], j)
    <3> SUFFICES ASSUME NEW j \in 0 .. n, j # 0
                 PROVE  step[j][f[j - 1]] = Round(f[j - 1], j)
      OBVIOUS
    <3>1. j - 1 \in 0 .. n /\ j \in 1 .. n
      BY DEF n
    <3>2. f[j - 1] \in S
      BY <2>3, <3>1
    <3> QED
      BY <3>1, <3>2
  <2>5. f = [j \in 0 .. n |->
          IF j = 0 THEN ns
          ELSE IF j \in Paired(patch, base) THEN Tie(f[j - 1], patch, base, j) ELSE f[j - 1]]
    <3> HIDE DEF step
    <3> QED
      BY <2>3, <2>4 DEF IsCourse
  <2> QED
    BY <2>5, Zenon
<1> HIDE DEF tied
<1>4. \A j \in 0 .. n : tied[j] \in S
  <2> DEFINE good == {j \in 0 .. n : tied[j] \in S}
  <2>1. 0 \in good
    BY <1>1, <1>3 DEF n
  <2>2. \A j \in 1 .. n : j - 1 \in good => j \in good
    <3> SUFFICES ASSUME NEW j \in 1 .. n, tied[j - 1] \in S PROVE tied[j] \in S
      OBVIOUS
    <3>1. tied[j] = Round(tied[j - 1], j)
      BY <1>3 DEF n
    <3> HIDE DEF Round
    <3> QED
      BY <1>2, <3>1
  <2>3. n \in Nat
    BY DEF n
  <2> HIDE DEF good
  <2>4. \A j \in 0 .. n : j \in good
    BY <2>1, <2>2, <2>3, LoopKeeps
  <2> QED
    BY <2>4 DEF good
<1>5. Tied(ns, patch, base) = tied[n]
  BY Zenon DEF Tied, tied, n
<1>6. /\ tied[0] = ns
      /\ \A j \in 1 .. n : tied[j] =
           IF j \in Paired(patch, base) THEN Tie(tied[j - 1], patch, base, j) ELSE tied[j - 1]
  BY <1>3 DEF n
<1>7. \A j \in 0 .. n : Grown(ns, tied[j], N, B)
  BY <1>4 DEF S
<1>8. TiedRun(ns, patch, base, tied, n, N, B)
  BY <1>5, <1>6, <1>7 DEF TiedRun
<1> QED
  BY <1>8 DEF n

LEMMA TiedGrows ==
  ASSUME NEW ns, NcasTyped(ns), NEW N, NEW B, N \cup B \subseteq DOMAIN ns,
         NEW patch, NEW base, Len(MetaOf(patch).contents) \in Nat,
         IsTitle(patch, N),
         IsTitle(base, B)
  PROVE  Grown(ns, Tied(ns, patch, base), N, B)
<1>1. PICK f : TiedRun(ns, patch, base, f, Len(MetaOf(patch).contents), N, B)
  BY TiedRuns
<1> QED
  BY <1>1 DEF TiedRun

\* An update has every section of its base that it can have.
Completed(ns, pair) ==
  FileOf(pair.update).patched \cap ns[pair.base].sections \subseteq ns[pair.update].sections

\* So it has once it was given the base.
LEMMA SetBaseCompletes ==
  ASSUME NEW ns, NcasTyped(ns), NEW pair, pair.update \in DOMAIN ns, pair.base \in DOMAIN ns,
         pair.update # pair.base
  PROVE  Completed(SetBase(ns, pair), pair)
<1> DEFINE u == pair.update
           found == (FileOf(u).patched \ ns[u].sections) \cap ns[pair.base].sections
           ms == SetBase(ns, pair)
<1>1. CASE found = {}
  BY <1>1 DEF SetBase, Completed
<1>2. CASE found # {}
  <2>1. ns[u] \in [sections : SUBSET (FileOf(u).plain \cup FileOf(u).patched),
                   base : DOMAIN ns \cup {NoNca}, keyed : BOOLEAN]
    BY DEF NcasTyped
  <2>2. ms = [ns EXCEPT ![u].sections = @ \cup found, ![u].base = pair.base]
    BY <1>2 DEF SetBase
  <2>3. ms[u].sections = ns[u].sections \cup found /\ ms[pair.base] = ns[pair.base]
    <3> HIDE DEF found, ms
    <3> QED
      BY <2>1, <2>2
  <2> HIDE DEF ms
  <2>4. Completed(ms, pair)
    BY <2>3 DEF Completed
  <2> QED
    BY <2>4 DEF ms
<1> QED
  BY <1>1, <1>2

\* And it keeps them while its base stays as it is.
LEMMA CompletedStays ==
  ASSUME NEW ms, NEW ns, NEW N, NEW B, Grown(ms, ns, N, B),
         NEW pair, pair.update \in DOMAIN ms, pair.base \in DOMAIN ms \ N, Completed(ms, pair)
  PROVE  Completed(ns, pair)
  BY DEF Completed, Grown

PairAt(patch, base, j) == Pair(patch, base, MetaOf(patch).contents[j])

\* After the loop over its contents a patch has what it can have of its base.
LEMMA TiedCompletes ==
  ASSUME NEW ns, NcasTyped(ns), NEW N, NEW B, N \cup B \subseteq DOMAIN ns, N \cap B = {},
         NEW patch, NEW base, Len(MetaOf(patch).contents) \in Nat,
         DOMAIN MetaOf(patch).contents = 1 .. Len(MetaOf(patch).contents),
         IsTitle(patch, N),
         IsTitle(base, B)
  PROVE  \A j \in Paired(patch, base) :
           Completed(Tied(ns, patch, base), PairAt(patch, base, j))
<1>n. PICK n : n = Len(MetaOf(patch).contents)
  OBVIOUS
<1>1. PICK f : TiedRun(ns, patch, base, f, n, N, B)
  BY <1>n, TiedRuns
<1> DEFINE good == {j \in 0 .. n : \A i \in Paired(patch, base) :
                      i <= j => Completed(f[j], PairAt(patch, base, i))}
<1>2. Paired(patch, base) \subseteq 1 .. n /\ n \in Nat
  BY <1>n DEF Paired
<1>3. \A i \in Paired(patch, base) :
        PairAt(patch, base, i).update \in N /\ PairAt(patch, base, i).base \in B
  BY PairHolds DEF PairAt
<1>4. 0 \in good
  BY <1>2
<1>5. ASSUME NEW j \in 1 .. n, j - 1 \in good PROVE j \in good
  <2>1. f[j] = IF j \in Paired(patch, base) THEN Tie(f[j - 1], patch, base, j) ELSE f[j - 1]
    BY <1>1 DEF TiedRun
  <2>2. NcasTyped(f[j - 1]) /\ DOMAIN f[j - 1] = DOMAIN ns
    <3>1. j - 1 \in 0 .. n
      BY <1>2
    <3> QED
      BY <1>1, <3>1 DEF TiedRun, Grown
  <2>3. Grown(f[j - 1], f[j], N, B)
    BY <2>1, <2>2, TieGrows, GrownSame
  <2>4. ASSUME NEW i \in Paired(patch, base), i <= j
        PROVE  Completed(f[j], PairAt(patch, base, i))
    <3>1. PairAt(patch, base, i).update \in DOMAIN ns /\ PairAt(patch, base, i).base \in DOMAIN ns \ N
          /\ PairAt(patch, base, i).update # PairAt(patch, base, i).base
      BY <1>3
    <3>2. CASE i = j
      <4>1. f[j] = SetBase(f[j - 1], PairAt(patch, base, j))
        BY <2>1, <2>4, <3>2 DEF Tie, PairAt
      <4> QED
        BY <2>2, <3>1, <3>2, <4>1, SetBaseCompletes
    <3>3. CASE i # j
      <4>1. i <= j - 1
        BY <1>2, <2>4, <3>3
      <4>2. Completed(f[j - 1], PairAt(patch, base, i))
        BY <1>5, <4>1
      <4> QED
        BY <2>2, <2>3, <3>1, <4>2, CompletedStays
    <3> QED
      BY <3>2, <3>3
  <2> QED
    BY <2>4
<1> HIDE DEF good
<1>6. n \in good
  <2>1. n \in 0 .. n
    BY <1>2
  <2> QED
    BY <1>2, <1>4, <1>5, <2>1, LoopKeeps
<1>7. f[n] = Tied(ns, patch, base)
  BY <1>1 DEF TiedRun
<1> QED
  BY <1>2, <1>6, <1>7 DEF good

-----------------------------------------------------------------------------
\* The entry for the base of a patch, and the contents that are paired.
BaseAt(es, patch) ==
  IF MetaOf(patch).kind = "Patch" THEN TitleEntry(es, MetaOf(patch).application) ELSE 0
PairedAt(es, patch) ==
  IF BaseAt(es, patch) = 0 THEN {} ELSE Paired(patch, es[BaseAt(es, patch)])

\* The base of a patch is an entry with the meta of its application.
LEMMA BaseFound ==
  ASSUME NEW S, NEW es \in Seq(S), NEW patch, BaseAt(es, patch) # 0
  PROVE  /\ MetaOf(patch).kind = "Patch" /\ HasMeta(patch)
         /\ BaseAt(es, patch) \in DOMAIN es /\ HasMeta(es[BaseAt(es, patch)])
         /\ MetaOf(es[BaseAt(es, patch)]).id = MetaOf(patch).application
<1> DEFINE id == MetaOf(patch).application
           found == {i \in DOMAIN es : HasMeta(es[i]) /\ MetaOf(es[i]).id = id}
<1>1. MetaOf(patch).kind = "Patch" /\ BaseAt(es, patch) = First(found)
  BY DEF BaseAt, TitleEntry
<1>2. found \in SUBSET (Nat \ {0})
  BY LenProperties
<1>3. First(found) \in found
  <2> HIDE DEF found
  <2> QED
    BY <1>1, <1>2, FirstIsLeast
<1> QED
  BY <1>1, <1>3 DEF HasMeta, NoMeta

\* If any content is paired, the patch and its base are titles.
LEMMA PatchFound ==
  ASSUME Loaded, NEW N, N \subseteq NcasOver(DOMAIN loads), NEW P,
         NEW B, B \subseteq NcasOver(DOMAIN loads), NEW Q,
         NEW patch \in EntriesOver(N, P), NEW es \in Seq(EntriesOver(B, Q)),
         NEW base, base = es[BaseAt(es, patch)], PairedAt(es, patch) # {}
  PROVE  /\ HasMeta(patch) /\ patch.name \in TitleNames /\ patch \in TitleEntries(N)
         /\ Len(MetaOf(patch).contents) \in Nat
         /\ IsTitle(patch, N)
         /\ IsTitle(base, B)
         /\ PairedAt(es, patch) = Paired(patch, base)
         /\ First(PairedAt(es, patch)) \in Paired(patch, base)
<1> DEFINE at == BaseAt(es, patch)
           id == MetaOf(patch).application
           found == {i \in DOMAIN es : HasMeta(es[i]) /\ MetaOf(es[i]).id = id}
<1>1. at # 0 /\ MetaOf(patch).kind = "Patch" /\ at = TitleEntry(es, id)
  BY DEF PairedAt, BaseAt
<1>2. HasMeta(patch)
  BY <1>1 DEF HasMeta, NoMeta
<1>3. found \in SUBSET (Nat \ {0}) /\ \A i \in DOMAIN es : es[i] \in EntriesOver(B, Q)
  <2>1. /\ DOMAIN es = 1 .. Len(es) /\ Len(es) \in Nat
        /\ \A i \in DOMAIN es : es[i] \in EntriesOver(B, Q)
    BY LenProperties
  <2> QED
    BY <2>1
<1>4. at \in found
  <2>1. at = First(found)
    BY <1>1 DEF TitleEntry
  <2> HIDE DEF found, at
  <2> QED
    BY <1>1, <1>3, <2>1, FirstIsLeast
<1>5. at \in DOMAIN es /\ HasMeta(es[at]) /\ es[at] \in EntriesOver(B, Q)
  BY <1>3, <1>4
<1> HIDE DEF at
<1>6. IsTitle(es[at], B)
  BY <1>5, MetaHolds
<1>7. /\ patch.name \in TitleNames /\ patch \in TitleEntries(N)
      /\ IsTitle(patch, N)
      /\ DOMAIN MetaOf(patch).contents \in SUBSET (Nat \ {0})
      /\ Len(MetaOf(patch).contents) \in Nat
  BY <1>2, MetaHolds
<1>8. PairedAt(es, patch) = Paired(patch, es[at])
  BY <1>1 DEF PairedAt, at
<1>9. First(PairedAt(es, patch)) \in Paired(patch, es[at])
  <2>1. Paired(patch, es[at]) \in SUBSET (Nat \ {0})
    BY <1>7 DEF Paired
  <2> QED
    BY <1>8, <2>1, FirstIsLeast
<1> QED
  BY <1>2, <1>6, <1>7, <1>8, <1>9 DEF at

\* The same when the base is among the entries of the patch.
LEMMA PatchHere ==
  ASSUME Loaded, NEW N, N \subseteq NcasOver(DOMAIN loads), NEW P,
         NEW es \in Seq(EntriesOver(N, P)), NEW patch \in EntriesOver(N, P),
         PairedAt(es, patch) # {}
  PROVE  /\ HasMeta(patch) /\ MetaOf(patch).kind = "Patch"
         /\ Len(MetaOf(patch).contents) \in Nat
         /\ DOMAIN MetaOf(patch).contents = 1 .. Len(MetaOf(patch).contents)
         /\ IsTitle(patch, N)
         /\ BaseAt(es, patch) \in DOMAIN es
         /\ HasMeta(es[BaseAt(es, patch)])
         /\ MetaOf(es[BaseAt(es, patch)]).id = MetaOf(patch).application
         /\ IsTitle(es[BaseAt(es, patch)], N)
         /\ PairedAt(es, patch) = Paired(patch, es[BaseAt(es, patch)])
<1> DEFINE base == es[BaseAt(es, patch)]
<1>1. BaseAt(es, patch) # 0 /\ PairedAt(es, patch) = Paired(patch, base)
  BY DEF PairedAt
<1>2. /\ MetaOf(patch).kind = "Patch" /\ HasMeta(patch)
      /\ BaseAt(es, patch) \in DOMAIN es /\ HasMeta(base)
      /\ MetaOf(base).id = MetaOf(patch).application
  BY <1>1, BaseFound
<1>3. base \in EntriesOver(N, P)
  BY <1>2, LenProperties
<1> HIDE DEF base
<1>4. /\ Len(MetaOf(patch).contents) \in Nat /\ IsTitle(patch, N)
      /\ DOMAIN MetaOf(patch).contents = 1 .. Len(MetaOf(patch).contents)
  BY <1>2, MetaHolds
<1>5. IsTitle(base, N)
  BY <1>2, <1>3, MetaHolds
<1> QED
  BY <1>1, <1>2, <1>4, <1>5 DEF base

\* What a patch does where it is: its NCAs gain sections.
LEMMA TrySelf ==
  ASSUME NEW s, NEW i, NEW patch
  PROVE  TryPatch(s, i, patch, TRUE) =
           IF PairedAt(s.es, patch) = {} THEN s
           ELSE [s EXCEPT !.ncas = Tied(s.ncas, patch, s.es[BaseAt(s.es, patch)])]
  BY DEF TryPatch, PairedAt, BaseAt

\* The NCAs of an entry, and of the patches among some entries.
NcasIn(e) == {s.nca : s \in Held(e)}
PatchNcas(es) == UNION {NcasIn(e) : e \in {f \in Range(es) : MetaOf(f).kind = "Patch"}}

\* A title is one of the NCAs that it holds, or of more.
LEMMA TitleOfItsNcas ==
  ASSUME NEW e, NEW N, IsTitle(e, N), NEW M, NcasIn(e) \subseteq M
  PROVE  IsTitle(e, M)
<1>1. PICK slots \in Titles(N) : e.fs = WrapperFs(slots)
  BY DEF IsTitle
<1>2. Held(e) = slots
  BY <1>1, FsDiffer DEF Held
<1>3. \A s \in slots : s \in Slots(N) /\ s.nca \in M
  BY <1>2 DEF NcasIn, Titles
<1>4. slots \in Titles(M)
  <2>1. \A s \in slots : s \in Slots(M)
    BY <1>3 DEF Slots
  <2> QED
    BY <2>1 DEF Titles
<1> QED
  BY <1>1, <1>4 DEF IsTitle

\* The patches of a partition, applied to itself one after the other.
SelfRun(es, known, f, N) ==
  /\ f[0] = known /\ f[Len(es)] = TryApplyUpdate(es, es, TRUE, known).ncas
  /\ \A i \in 1 .. Len(es) :
       f[i] = IF PairedAt(es, es[i]) = {} THEN f[i - 1]
              ELSE Tied(f[i - 1], es[i], es[BaseAt(es, es[i])])
  /\ \A i \in 0 .. Len(es) : Grown(known, f[i], PatchNcas(es), N)

LEMMA SelfRuns ==
  ASSUME Loaded, NEW N, N \subseteq NcasOver(DOMAIN loads), NEW P,
         NEW es \in Seq(EntriesOver(N, P)),
         NEW known, NcasTyped(known), N \subseteq DOMAIN known
  PROVE  /\ TryApplyUpdate(es, es, TRUE, known).es = es
         /\ \E f : SelfRun(es, known, f, N)
<1>u. PICK U : U = PatchNcas(es)
  OBVIOUS
<1> DEFINE len == Len(es)
           start == [es |-> es, us |-> es, ncas |-> known, applied |-> FALSE]
           try[i \in 0 .. len] == IF i = 0 THEN start ELSE TryPatch(try[i - 1], i, es[i], TRUE)
           Round(s, i) == TryPatch(s, i, es[i], TRUE)
           S == {s \in [es : {es}, us : {es}, ncas : States(known), applied : {FALSE}] :
                   Grown(known, s.ncas, U, N)}
<1>1. len \in Nat /\ DOMAIN es = 1 .. len /\ \A i \in 1 .. len : es[i] \in EntriesOver(N, P)
  BY LenProperties
<1>v. U \subseteq N
  <2> SUFFICES ASSUME NEW i \in DOMAIN es, NEW s \in Held(es[i]) PROVE s.nca \in N
    BY <1>u DEF PatchNcas, NcasIn, Range
  <2>1. es[i] \in EntriesOver(N, P)
    BY <1>1
  <2> QED
    BY <2>1, EntryHolds
<1>2. start \in S
  <2>1. Grown(known, known, U, N) /\ known \in States(known)
    BY GrownSame, GrownAreStates
  <2> QED
    BY <2>1
<1>3. ASSUME NEW s \in S, NEW i \in 1 .. len PROVE Round(s, i) \in S
  <2>1. s.es = es /\ Grown(known, s.ncas, U, N)
    OBVIOUS
  <2>2. s \in [es : {es}, us : {es}, ncas : States(known), applied : {FALSE}]
    OBVIOUS
  <2> HIDE DEF S
  <2>3. CASE PairedAt(es, es[i]) = {}
    <3>1. Round(s, i) = s
      BY <2>1, <2>3, TrySelf
    <3> HIDE DEF Round
    <3> QED
      BY <2>1, <2>2, <3>1 DEF S
  <2>4. CASE PairedAt(es, es[i]) # {}
    <3> DEFINE base == es[BaseAt(es, es[i])]
               ns == Tied(s.ncas, es[i], base)
    <3>1. /\ Len(MetaOf(es[i]).contents) \in Nat
          /\ IsTitle(es[i], U)
          /\ IsTitle(base, N)
      <4>1. es[i] \in EntriesOver(N, P)
        BY <1>1
      <4> HIDE DEF len, S, Round, start, try, ns
      <4>2. base = es[BaseAt(es, es[i])]
        OBVIOUS
      <4> HIDE DEF base
      <4>3. IsTitle(es[i], N) /\ IsTitle(base, N) /\ Len(MetaOf(es[i]).contents) \in Nat
        BY <4>1, <4>2, <2>4, PatchFound
      <4>4. NcasIn(es[i]) \subseteq U
        <5>1. MetaOf(es[i]).kind = "Patch"
          BY <2>4 DEF PairedAt, BaseAt
        <5>2. es[i] \in Range(es)
          BY <1>1 DEF len, Range
        <5> QED
          BY <1>u, <5>1, <5>2 DEF PatchNcas
      <4> QED
        BY <4>3, <4>4, TitleOfItsNcas
    <3>2. NcasTyped(s.ncas) /\ U \cup N \subseteq DOMAIN s.ncas
      BY <1>v, <2>1 DEF Grown
    <3> HIDE DEF base
    <3>3. Grown(s.ncas, ns, U, N)
      BY <3>1, <3>2, TiedGrows
    <3>4. Grown(known, ns, U, N)
      BY <2>1, <3>3, GrownOn
    <3>5. ns \in States(known)
      BY <3>4, GrownAreStates
    <3>6. Round(s, i) = [s EXCEPT !.ncas = ns]
      <4>1. PairedAt(s.es, es[i]) # {}
        BY <2>1, <2>4
      <4>2. Round(s, i) = [s EXCEPT !.ncas = Tied(s.ncas, es[i], s.es[BaseAt(s.es, es[i])])]
        BY <4>1, TrySelf
      <4>3. Tied(s.ncas, es[i], s.es[BaseAt(s.es, es[i])]) = ns
        BY <2>1 DEF base
      <4> HIDE DEF ns, Round
      <4> QED
        BY <4>2, <4>3
    <3> HIDE DEF ns, Round
    <3>7. Round(s, i) \in [es : {es}, us : {es}, ncas : States(known), applied : {FALSE}]
      BY <2>2, <3>5, <3>6
    <3>8. Round(s, i).ncas = ns
      BY <2>2, <3>6
    <3> QED
      BY <3>4, <3>7, <3>8 DEF S
  <2> QED
    BY <2>3, <2>4
<1> HIDE DEF S, len, start, Round
<1>4. try = [i \in 0 .. len |-> IF i = 0 THEN start ELSE Round(try[i - 1], i)]
  <2> DEFINE D == [i \in 0 .. len |-> S]
             step == [i \in 1 .. len |-> [s \in S |-> Round(s, i)]]
  <2>1. \A i \in 1 .. len : \A d \in D[i - 1] : step[i][d] \in D[i]
    <3> SUFFICES ASSUME NEW i \in 1 .. len, NEW d \in S PROVE Round(d, i) \in S
      BY <1>1
    <3> QED
      BY <1>3
  <2>2. start \in D[0]
    BY <1>1, <1>2
  <2>3. PICK f : IsCourse(f, len, start, step) /\ \A i \in 0 .. len : f[i] \in D[i]
    <3> HIDE DEF D, step, try
    <3>1. len \in Nat
      BY <1>1
    <3> QED
      BY <3>1, <2>1, <2>2, LoopRuns
  <2>4. \A i \in 0 .. len : i # 0 => step[i][f[i - 1]] = Round(f[i - 1], i)
    <3> SUFFICES ASSUME NEW i \in 0 .. len, i # 0
                 PROVE  step[i][f[i - 1]] = Round(f[i - 1], i)
      OBVIOUS
    <3>1. i - 1 \in 0 .. len /\ i \in 1 .. len
      BY <1>1
    <3>2. f[i - 1] \in S
      BY <2>3, <3>1
    <3> QED
      BY <3>1, <3>2
  <2>5. f = [i \in 0 .. len |-> IF i = 0 THEN start ELSE Round(f[i - 1], i)]
    <3> HIDE DEF step
    <3> QED
      BY <2>3, <2>4 DEF IsCourse
  <2> QED
    BY <2>5, Zenon DEF Round
<1> HIDE DEF try
<1>5. \A j \in 0 .. len : try[j] \in S
  <2> DEFINE good == {j \in 0 .. len : try[j] \in S}
  <2>1. 0 \in good
    BY <1>1, <1>2, <1>4
  <2>2. \A j \in 1 .. len : j - 1 \in good => j \in good
    <3> SUFFICES ASSUME NEW j \in 1 .. len, try[j - 1] \in S PROVE try[j] \in S
      OBVIOUS
    <3>1. try[j] = Round(try[j - 1], j)
      BY <1>1, <1>4
    <3> QED
      BY <1>3, <3>1
  <2> HIDE DEF good
  <2>4. \A j \in 0 .. len : j \in good
    BY <1>1, <2>1, <2>2, LoopKeeps
  <2> QED
    BY <2>4 DEF good
<1>6. TryApplyUpdate(es, es, TRUE, known) = try[len]
  BY Zenon DEF TryApplyUpdate, try, len, start
<1>7. \A j \in 0 .. len : try[j].es = es /\ Grown(known, try[j].ncas, U, N)
  BY <1>5 DEF S
<1>8. try[0].ncas = known
  BY <1>1, <1>4 DEF start
<1>9. ASSUME NEW j \in 1 .. len
      PROVE  try[j].ncas = IF PairedAt(es, es[j]) = {} THEN try[j - 1].ncas
                           ELSE Tied(try[j - 1].ncas, es[j], es[BaseAt(es, es[j])])
  <2>1. try[j] = TryPatch(try[j - 1], j, es[j], TRUE)
    BY <1>1, <1>4 DEF Round
  <2>2. try[j - 1] \in [es : {es}, us : {es}, ncas : States(known), applied : {FALSE}]
    <3>1. j - 1 \in 0 .. len
      BY <1>1
    <3>2. try[j - 1] \in S
      BY <1>5, <3>1
    <3> QED
      BY <3>2 DEF S
  <2>e. PICK s, ns : s = try[j - 1] /\ ns = Tied(s.ncas, es[j], es[BaseAt(es, es[j])])
    OBVIOUS
  <2>3. s.es = es
    BY <2>e, <2>2
  <2>4. PairedAt(s.es, es[j]) = PairedAt(es, es[j])
    BY <2>3
  <2>5. Tied(s.ncas, es[j], s.es[BaseAt(s.es, es[j])]) = ns
    BY <2>e, <2>3
  <2>6. TryPatch(s, j, es[j], TRUE) =
          IF PairedAt(es, es[j]) = {} THEN s ELSE [s EXCEPT !.ncas = ns]
    BY <2>4, <2>5, TrySelf
  <2>7. [s EXCEPT !.ncas = ns].ncas = ns
    BY <2>e, <2>2
  <2> QED
    BY <2>e, <2>1, <2>6, <2>7
<1> DEFINE f == [j \in 0 .. len |-> try[j].ncas]
<1>10. \A j \in 0 .. len : f[j] = try[j].ncas
  OBVIOUS
<1>11. \A j \in 1 .. len : j \in 0 .. len /\ j - 1 \in 0 .. len
  BY <1>1
<1> HIDE DEF f
<1>12. SelfRun(es, known, f, N)
  <2>1. 0 \in 0 .. len /\ len \in 0 .. len
    BY <1>1
  <2>2. f[0] = known /\ f[len] = TryApplyUpdate(es, es, TRUE, known).ncas
    BY <1>6, <1>8, <1>10, <2>1
  <2>3. \A i \in 1 .. len :
          f[i] = IF PairedAt(es, es[i]) = {} THEN f[i - 1]
                 ELSE Tied(f[i - 1], es[i], es[BaseAt(es, es[i])])
    BY <1>9, <1>10, <1>11
  <2>4. \A i \in 0 .. len : Grown(known, f[i], U, N)
    BY <1>7, <1>10
  <2> QED
    BY <1>u, <2>2, <2>3, <2>4 DEF SelfRun, len
<1>13. len \in 0 .. len
  BY <1>1
<1> QED
  BY <1>6, <1>7, <1>12, <1>13

\* Its entries stay as they are, and its patches gain sections.
LEMMA SelfUpdateHolds ==
  ASSUME Loaded, NEW N, N \subseteq NcasOver(DOMAIN loads), NEW P,
         NEW es \in Seq(EntriesOver(N, P)),
         NEW known, NcasTyped(known), N \subseteq DOMAIN known
  PROVE  /\ TryApplyUpdate(es, es, TRUE, known).es = es
         /\ Grown(known, TryApplyUpdate(es, es, TRUE, known).ncas, N, N)
<1>1. TryApplyUpdate(es, es, TRUE, known).es = es
  BY SelfRuns
<1>2. PICK f : SelfRun(es, known, f, N)
  BY SelfRuns
<1>3. Len(es) \in 0 .. Len(es) /\ \A i \in DOMAIN es : es[i] \in EntriesOver(N, P)
  BY LenProperties
<1>4. Grown(known, TryApplyUpdate(es, es, TRUE, known).ncas, PatchNcas(es), N)
  BY <1>2, <1>3 DEF SelfRun
<1>5. PatchNcas(es) \subseteq N
  <2> SUFFICES ASSUME NEW i \in DOMAIN es, NEW s \in Held(es[i]) PROVE s.nca \in N
    BY DEF PatchNcas, NcasIn, Range
  <2> QED
    BY <1>3, EntryHolds
<1> QED
  BY <1>1, <1>4, <1>5 DEF Grown

\* No NCA is held by two entries.
Apart(es) ==
  \A i, j \in DOMAIN es : \A s \in Held(es[i]), t \in Held(es[j]) : s.nca = t.nca => i = j

\* The base of a patch is no patch, so no round of the loop adds to its NCAs.
LEMMA BaseIsNoPatch ==
  ASSUME Loaded, NoPatchOfPatch, NEW N, N \subseteq NcasOver(DOMAIN loads), NEW P,
         NEW es \in Seq(EntriesOver(N, P)), Apart(es),
         NEW i \in DOMAIN es, PairedAt(es, es[i]) # {}
  PROVE  /\ NcasIn(es[i]) \subseteq PatchNcas(es) \cap N
         /\ NcasIn(es[BaseAt(es, es[i])]) \subseteq N \ PatchNcas(es)
<1>1. \A j \in DOMAIN es : es[j] \in EntriesOver(N, P)
  BY LenProperties
<1>2. \A j \in DOMAIN es : NcasIn(es[j]) \subseteq N
  <2> SUFFICES ASSUME NEW j \in DOMAIN es, NEW s \in Held(es[j]) PROVE s.nca \in N
    BY DEF NcasIn
  <2> QED
    BY <1>1, EntryHolds
<1>3. PICK at : at = BaseAt(es, es[i])
  OBVIOUS
<1>4. /\ at \in DOMAIN es /\ HasMeta(es[at]) /\ HasMeta(es[i])
      /\ MetaOf(es[i]).kind = "Patch" /\ MetaOf(es[at]).id = MetaOf(es[i]).application
  <2>1. es[i] \in EntriesOver(N, P)
    BY <1>1
  <2>2. /\ HasMeta(es[i]) /\ BaseAt(es, es[i]) \in DOMAIN es
        /\ HasMeta(es[BaseAt(es, es[i])]) /\ MetaOf(es[i]).kind = "Patch"
        /\ MetaOf(es[BaseAt(es, es[i])]).id = MetaOf(es[i]).application
    <3>p. PICK patch : patch = es[i]
      OBVIOUS
    <3>1. patch \in EntriesOver(N, P) /\ PairedAt(es, patch) # {}
      BY <2>1, <3>p
    <3>2. /\ HasMeta(patch) /\ BaseAt(es, patch) \in DOMAIN es
          /\ HasMeta(es[BaseAt(es, patch)]) /\ MetaOf(patch).kind = "Patch"
          /\ MetaOf(es[BaseAt(es, patch)]).id = MetaOf(patch).application
      BY <3>1, PatchHere
    <3> QED
      BY <3>p, <3>2
  <2> QED
    BY <1>3, <2>2
<1>5. \A j \in DOMAIN es : HasMeta(es[j]) =>
        \E f \in AllFiles : IsMetaFile(f) /\ MetaOf(es[j]) = f.meta
  BY <1>1, MetaHolds
<1>6. MetaOf(es[at]).kind # "Patch"
  <2>1. PICK f \in AllFiles : IsMetaFile(f) /\ MetaOf(es[i]) = f.meta
    BY <1>4, <1>5
  <2>2. PICK g \in AllFiles : IsMetaFile(g) /\ MetaOf(es[at]) = g.meta
    BY <1>4, <1>5
  <2> QED
    BY <1>4, <2>1, <2>2 DEF NoPatchOfPatch, AllFiles
<1>7. NcasIn(es[i]) \subseteq PatchNcas(es)
  BY <1>4 DEF PatchNcas, Range
<1>8. ASSUME NEW n \in NcasIn(es[at]), n \in PatchNcas(es) PROVE FALSE
  <2>1. PICK j \in DOMAIN es : MetaOf(es[j]).kind = "Patch" /\ n \in NcasIn(es[j])
    BY <1>8 DEF PatchNcas, Range
  <2>2. j = at
    BY <1>4, <1>8, <2>1 DEF Apart, NcasIn
  <2> QED
    BY <1>6, <2>1, <2>2
<1> QED
  BY <1>2, <1>3, <1>4, <1>7, <1>8

\* Each patch has what it can have of its base, after all entries.
LEMMA SelfCompletes ==
  ASSUME Loaded, NoPatchOfPatch, NEW N, N \subseteq NcasOver(DOMAIN loads), NEW P,
         NEW es \in Seq(EntriesOver(N, P)), Apart(es),
         NEW known, NcasTyped(known), N \subseteq DOMAIN known
  PROVE  \A i \in DOMAIN es : \A j \in PairedAt(es, es[i]) :
           Completed(TryApplyUpdate(es, es, TRUE, known).ncas,
                     PairAt(es[i], es[BaseAt(es, es[i])], j))
<1>1. PICK f : SelfRun(es, known, f, N)
  BY SelfRuns
<1>u. PICK U, len : U = PatchNcas(es) /\ len = Len(es)
  OBVIOUS
<1>2. len \in Nat /\ DOMAIN es = 1 .. len /\ \A i \in 1 .. len : es[i] \in EntriesOver(N, P)
  BY <1>u, LenProperties
<1> DEFINE Base(i) == es[BaseAt(es, es[i])]
           good == {k \in 0 .. len : \A i \in 1 .. len : i <= k =>
                      \A j \in PairedAt(es, es[i]) : Completed(f[k], PairAt(es[i], Base(i), j))}
<1>3. ASSUME NEW i \in 1 .. len, PairedAt(es, es[i]) # {}
      PROVE  /\ NcasIn(es[i]) \subseteq U \cap N /\ NcasIn(Base(i)) \subseteq N \ U
             /\ IsTitle(es[i], NcasIn(es[i])) /\ IsTitle(Base(i), NcasIn(Base(i)))
             /\ PairedAt(es, es[i]) = Paired(es[i], Base(i))
             /\ Len(MetaOf(es[i]).contents) \in Nat
             /\ DOMAIN MetaOf(es[i]).contents = 1 .. Len(MetaOf(es[i]).contents)
  <2>e. PICK base : base = es[BaseAt(es, es[i])]
    OBVIOUS
  <2>1. /\ IsTitle(es[i], N) /\ IsTitle(base, N)
        /\ PairedAt(es, es[i]) = Paired(es[i], base)
        /\ Len(MetaOf(es[i]).contents) \in Nat
        /\ DOMAIN MetaOf(es[i]).contents = 1 .. Len(MetaOf(es[i]).contents)
    <3> HIDE DEF Base, good
    <3>p. PICK patch : patch = es[i]
      OBVIOUS
    <3>1. patch \in EntriesOver(N, P) /\ PairedAt(es, patch) # {}
      BY <1>2, <1>3, <3>p
    <3>2. /\ IsTitle(patch, N) /\ IsTitle(es[BaseAt(es, patch)], N)
          /\ PairedAt(es, patch) = Paired(patch, es[BaseAt(es, patch)])
          /\ Len(MetaOf(patch).contents) \in Nat
          /\ DOMAIN MetaOf(patch).contents = 1 .. Len(MetaOf(patch).contents)
      BY <3>1, PatchHere
    <3> QED
      BY <2>e, <3>p, <3>2
  <2>2. NcasIn(es[i]) \subseteq U \cap N /\ NcasIn(base) \subseteq N \ U
    <3> HIDE DEF Base, good
    <3>1. i \in DOMAIN es /\ PairedAt(es, es[i]) # {}
      BY <1>2, <1>3
    <3>2. /\ NcasIn(es[i]) \subseteq PatchNcas(es) \cap N
          /\ NcasIn(es[BaseAt(es, es[i])]) \subseteq N \ PatchNcas(es)
      BY <3>1, BaseIsNoPatch
    <3> QED
      BY <1>u, <2>e, <3>2
  <2>3. IsTitle(es[i], NcasIn(es[i])) /\ IsTitle(base, NcasIn(base))
    BY <2>1, TitleOfItsNcas
  <2> QED
    BY <2>e, <2>1, <2>2, <2>3
<1>4. \A i \in 1 .. len : \A j \in PairedAt(es, es[i]) :
        /\ PairAt(es[i], Base(i), j).update \in U \cap N
        /\ PairAt(es[i], Base(i), j).base \in N \ U
  <2> SUFFICES ASSUME NEW i \in 1 .. len, NEW j \in PairedAt(es, es[i])
               PROVE  /\ PairAt(es[i], Base(i), j).update \in U \cap N
                      /\ PairAt(es[i], Base(i), j).base \in N \ U
    OBVIOUS
  <2> HIDE DEF Base
  <2>1. /\ NcasIn(es[i]) \subseteq U \cap N /\ NcasIn(Base(i)) \subseteq N \ U
        /\ IsTitle(es[i], NcasIn(es[i])) /\ IsTitle(Base(i), NcasIn(Base(i)))
        /\ j \in Paired(es[i], Base(i))
    BY <1>3
  <2>2. PairAt(es[i], Base(i), j).update \in NcasIn(es[i])
        /\ PairAt(es[i], Base(i), j).base \in NcasIn(Base(i))
    BY <2>1, PairHolds DEF PairAt
  <2> QED
    BY <2>1, <2>2
<1>5. \A k \in 0 .. len : NcasTyped(f[k]) /\ DOMAIN f[k] = DOMAIN known
  BY <1>1, <1>u DEF SelfRun, Grown
<1>6. 0 \in good
  BY <1>2
<1> HIDE DEF Base
<1>7. ASSUME NEW k \in 1 .. len, k - 1 \in good PROVE k \in good
  <2>1. f[k] = IF PairedAt(es, es[k]) = {} THEN f[k - 1] ELSE Tied(f[k - 1], es[k], Base(k))
    BY <1>1, <1>u DEF SelfRun, Base
  <2>2. NcasTyped(f[k - 1]) /\ DOMAIN f[k - 1] = DOMAIN known /\ k \in 0 .. len
    <3>1. k - 1 \in 0 .. len /\ k \in 0 .. len
      BY <1>2
    <3> QED
      BY <1>5, <3>1
  <2>3. PICK B : Grown(f[k - 1], f[k], U, B)
    <3>1. CASE PairedAt(es, es[k]) = {}
      BY <2>1, <2>2, <3>1, GrownSame
    <3>2. CASE PairedAt(es, es[k]) # {}
      <4>1. /\ NcasIn(es[k]) \subseteq U \cap N /\ NcasIn(Base(k)) \subseteq N \ U
            /\ IsTitle(es[k], NcasIn(es[k])) /\ IsTitle(Base(k), NcasIn(Base(k)))
            /\ Len(MetaOf(es[k]).contents) \in Nat
        BY <1>3, <3>2
      <4>2. IsTitle(es[k], U \cap N) /\ IsTitle(Base(k), N)
        BY <4>1, TitleOfItsNcas
      <4>3. Grown(f[k - 1], Tied(f[k - 1], es[k], Base(k)), U \cap N, N)
        <5>1. (U \cap N) \cup N \subseteq DOMAIN f[k - 1]
          BY <2>2
        <5> QED
          BY <2>2, <4>1, <4>2, <5>1, TiedGrows
      <4>4. Grown(f[k - 1], f[k], U \cap N, N)
        BY <2>1, <3>2, <4>3
      <4>5. Grown(f[k - 1], f[k], U, N)
        BY <4>4 DEF Grown
      <4> QED
        BY <4>5
    <3> QED
      BY <3>1, <3>2
  <2>4. ASSUME NEW i \in 1 .. len, i <= k, NEW j \in PairedAt(es, es[i])
        PROVE  Completed(f[k], PairAt(es[i], Base(i), j))
    <3>1. CASE i = k
      <4>1. /\ NcasIn(es[k]) \subseteq U \cap N /\ NcasIn(Base(k)) \subseteq N \ U
            /\ IsTitle(es[k], NcasIn(es[k])) /\ IsTitle(Base(k), NcasIn(Base(k)))
            /\ PairedAt(es, es[k]) = Paired(es[k], Base(k))
            /\ Len(MetaOf(es[k]).contents) \in Nat
            /\ DOMAIN MetaOf(es[k]).contents = 1 .. Len(MetaOf(es[k]).contents)
        BY <1>3, <2>4, <3>1
      <4>2. /\ NcasIn(es[k]) \cup NcasIn(Base(k)) \subseteq DOMAIN f[k - 1]
            /\ NcasIn(es[k]) \cap NcasIn(Base(k)) = {}
        BY <2>2, <4>1
      <4>3. \A m \in Paired(es[k], Base(k)) :
              Completed(Tied(f[k - 1], es[k], Base(k)), PairAt(es[k], Base(k), m))
        BY <2>2, <4>1, <4>2, TiedCompletes
      <4> QED
        BY <2>1, <2>4, <3>1, <4>1, <4>3
    <3>2. CASE i # k
      <4>1. i <= k - 1
        BY <1>2, <2>4, <3>2
      <4>2. Completed(f[k - 1], PairAt(es[i], Base(i), j))
        BY <1>7, <4>1
      <4>3. /\ PairAt(es[i], Base(i), j).update \in DOMAIN f[k - 1]
            /\ PairAt(es[i], Base(i), j).base \in DOMAIN f[k - 1] \ U
        BY <1>4, <2>2
      <4> QED
        BY <2>3, <4>2, <4>3, CompletedStays
    <3> QED
      BY <3>1, <3>2
  <2> QED
    BY <2>2, <2>4
<1> HIDE DEF good
<1>8. len \in good
  <2>1. len \in 0 .. len
    BY <1>2
  <2> QED
    BY <1>2, <1>6, <1>7, <2>1, LoopKeeps
<1>9. f[len] = TryApplyUpdate(es, es, TRUE, known).ncas
  BY <1>1, <1>u DEF SelfRun
<1>10. \A i \in 1 .. len : \A j \in PairedAt(es, es[i]) :
         Completed(f[len], PairAt(es[i], Base(i), j))
  BY <1>2, <1>8 DEF good
<1> QED
  BY <1>2, <1>9, <1>10 DEF Base

-----------------------------------------------------------------------------
\* An NCA is in one of two partitions, in one place.
InOne(es, us, n) == (Once(es, n) /\ Never(us, n)) \/ (Never(es, n) /\ Once(us, n))

\* Entries that are moved from a package (first us0, now us) over NCAs N to the end
\* of those of the base (first es0, now es), which are over B and packages Q.
Taking(es0, us0, B, N, Q, es, us) ==
  /\ es \in Seq(EntriesOver(B \cup N, Q)) /\ us \in Seq(EntriesOver(N, {}))
  /\ Len(es0) <= Len(es) /\ Len(us) = Len(us0)
  /\ \A m \in DOMAIN es0 : es[m] = es0[m]
  /\ \A m \in DOMAIN es \ DOMAIN es0 : es[m].name \in TitleNames
  /\ \A m \in DOMAIN us0 : us[m] \in {us0[m], Gone}
  /\ \A n \in N : Never(es0, n) /\ Once(us0, n) => InOne(es, us, n)
  /\ \A n : n \notin N => (Once(es0, n) => Once(es, n)) /\ (Never(es0, n) => Never(es, n))

\* An entry that does not hold an NCA changes nothing for it.
LEMMA AppendHolds ==
  ASSUME NEW S, NEW es \in Seq(S), NEW e \in S, NEW n, \A s \in Held(e) : s.nca # n
  PROVE  /\ Never(es, n) => Never(Append(es, e), n)
         /\ Once(es, n) => Once(Append(es, e), n)
<1> DEFINE more == Append(es, e)
           last == Len(es) + 1
<1>1. /\ Len(es) \in Nat /\ DOMAIN es = 1 .. Len(es) /\ DOMAIN more = 1 .. last
      /\ \A i \in DOMAIN es : more[i] = es[i]
      /\ more[last] = e
  BY AppendFacts
<1>2. \A i \in DOMAIN more : i \in DOMAIN es \/ i = last
  BY <1>1
<1> HIDE DEF more, last
<1>3. Never(es, n) => Never(more, n)
  BY <1>1, <1>2 DEF Never
<1>4. ASSUME Once(es, n) PROVE Once(more, n)
  <2>1. PICK i \in DOMAIN es : \E s \in Held(es[i]) :
          /\ s.nca = n
          /\ \A j \in DOMAIN es : \A t \in Held(es[j]) : t.nca = n => j = i /\ t = s
    BY <1>4 DEF Once
  <2>2. PICK s \in Held(es[i]) :
          /\ s.nca = n
          /\ \A j \in DOMAIN es : \A t \in Held(es[j]) : t.nca = n => j = i /\ t = s
    BY <2>1
  <2>3. i \in DOMAIN more /\ s \in Held(more[i])
    BY <1>1 DEF last
  <2>4. ASSUME NEW j \in DOMAIN more, NEW t \in Held(more[j]), t.nca = n PROVE j = i /\ t = s
    <3>1. j \in DOMAIN es
      BY <1>1, <1>2, <2>4
    <3>2. t \in Held(es[j])
      BY <1>1, <3>1
    <3> QED
      BY <2>2, <2>4, <3>1, <3>2
  <2> QED
    BY <2>2, <2>3, <2>4 DEF Once
<1> QED
  BY <1>3, <1>4 DEF more

\* An entry that is cleared takes what it held with it.
LEMMA WithoutHolds ==
  ASSUME NEW N, NEW P, NEW us \in Seq(EntriesOver(N, P)), NEW i \in DOMAIN us, NEW n
  PROVE  /\ Never(us, n) => Never(Without(us, i), n)
         /\ Once(us, n) /\ (\A s \in Held(us[i]) : s.nca # n) => Once(Without(us, i), n)
         /\ Once(us, n) /\ (\E s \in Held(us[i]) : s.nca = n) => Never(Without(us, i), n)
<1> DEFINE rest == Without(us, i)
<1>1. /\ DOMAIN rest = DOMAIN us
      /\ \A j \in DOMAIN us : rest[j] = IF j = i THEN Gone ELSE us[j]
  BY WithoutIsSeq
<1>2. Held(Gone) = {}
  BY GoneIsEntry
<1> HIDE DEF rest
<1>3. Never(us, n) => Never(rest, n)
  BY <1>1, <1>2 DEF Never
<1>4. ASSUME Once(us, n), \A s \in Held(us[i]) : s.nca # n PROVE Once(rest, n)
  <2>1. PICK m \in DOMAIN us : \E s \in Held(us[m]) :
          /\ s.nca = n
          /\ \A j \in DOMAIN us : \A t \in Held(us[j]) : t.nca = n => j = m /\ t = s
    BY <1>4 DEF Once
  <2>2. PICK s \in Held(us[m]) :
          /\ s.nca = n
          /\ \A j \in DOMAIN us : \A t \in Held(us[j]) : t.nca = n => j = m /\ t = s
    BY <2>1
  <2>3. m \in DOMAIN rest /\ s \in Held(rest[m])
    BY <1>1, <1>4, <2>2
  <2>4. \A j \in DOMAIN rest : \A t \in Held(rest[j]) : t.nca = n => j = m /\ t = s
    BY <1>1, <1>2, <2>2
  <2> QED
    BY <2>2, <2>3, <2>4 DEF Once
<1>5. ASSUME Once(us, n), \E s \in Held(us[i]) : s.nca = n PROVE Never(rest, n)
  <2>1. PICK m \in DOMAIN us : \E s \in Held(us[m]) :
          /\ s.nca = n
          /\ \A j \in DOMAIN us : \A t \in Held(us[j]) : t.nca = n => j = m /\ t = s
    BY <1>5 DEF Once
  <2>2. m = i
    BY <1>5, <2>1
  <2> QED
    BY <1>1, <1>2, <2>1, <2>2 DEF Never
<1> QED
  BY <1>3, <1>4, <1>5 DEF rest

\* What is held is held once in all, so it moves as a whole.
LEMMA TakeKeeps ==
  ASSUME NEW es0, NEW B, NEW N, NEW Q, NEW us0 \in Seq(EntriesOver(N, {})), Len(es0) \in Nat,
         DOMAIN es0 = 1 .. Len(es0),
         NEW es, NEW us, Taking(es0, us0, B, N, Q, es, us),
         NEW i \in DOMAIN us0, us[i] = us0[i], us0[i].name \in TitleNames
  PROVE  /\ Taking(es0, us0, B, N, Q, Append(es, us0[i]), Without(us, i))
         /\ \A m \in DOMAIN us0 : m # i => Without(us, i)[m] = us[m]
<1> DEFINE e == us0[i]
           E == EntriesOver(B \cup N, Q)
           more == Append(es, e)
           rest == Without(us, i)
           last == Len(es) + 1
<1>1. /\ es \in Seq(E) /\ us \in Seq(EntriesOver(N, {})) /\ Len(us) = Len(us0)
      /\ DOMAIN us = 1 .. Len(us) /\ DOMAIN us0 = 1 .. Len(us0)
      /\ e \in EntriesOver(N, {}) /\ i \in DOMAIN us
  BY LenProperties DEF Taking
<1>2. e \in E
  <2>1. EntriesOver(N, {}) \subseteq EntriesOver(B \cup N, Q)
    BY EntriesGrow
  <2> QED
    BY <1>1, <2>1
<1> HIDE DEF e, E
<1>3. /\ more \in Seq(E) /\ Len(more) = last /\ DOMAIN more = 1 .. last
      /\ Len(es) \in Nat /\ DOMAIN es = 1 .. Len(es)
      /\ \A m \in DOMAIN es : more[m] = es[m]
      /\ more[last] = e
  BY <1>1, <1>2, AppendFacts
<1>4. /\ rest \in Seq(EntriesOver(N, {})) /\ Len(rest) = Len(us) /\ DOMAIN rest = DOMAIN us
      /\ \A m \in DOMAIN us : rest[m] = IF m = i THEN Gone ELSE us[m]
  BY <1>1, WithoutIsSeq
<1>5. \A s \in Held(e) : s.nca \in N
  BY <1>1, EntryHolds
<1> HIDE DEF more, rest
<1>6. ASSUME NEW n, n \notin N
      PROVE  (Once(es, n) => Once(more, n)) /\ (Never(es, n) => Never(more, n))
  BY <1>1, <1>2, <1>5, <1>6, AppendHolds DEF more
<1>7. ASSUME NEW n \in N, InOne(es, us, n) PROVE InOne(more, rest, n)
  <2>1. CASE \E s \in Held(e) : s.nca = n
    <3>1. ~ Never(us, n)
      BY <1>1, <2>1 DEF Never, e
    <3>2. Never(es, n) /\ Once(us, n)
      BY <1>7, <3>1 DEF InOne
    <3>3. Never(rest, n)
      BY <1>1, <2>1, <3>2, WithoutHolds DEF e, rest
    <3>4. Once(more, n)
      <4>1. PICK s \in Held(e) : s.nca = n
        BY <2>1
      <4>2. \A t \in Held(e) : t.nca = n => t = s
        <5>1. PICK m \in DOMAIN us : \E x \in Held(us[m]) :
                /\ x.nca = n
                /\ \A j \in DOMAIN us : \A t \in Held(us[j]) : t.nca = n => j = m /\ t = x
          BY <3>2 DEF Once
        <5> QED
          BY <1>1, <4>1, <5>1 DEF e
      <4>3. \A j \in DOMAIN more : \A t \in Held(more[j]) : t.nca = n => j = last /\ t = s
        BY <1>3, <3>2, <4>2 DEF Never
      <4> QED
        BY <1>3, <4>1, <4>3 DEF Once
    <3> QED
      BY <3>3, <3>4 DEF InOne
  <2>2. CASE \A s \in Held(e) : s.nca # n
    <3>1. (Never(es, n) => Never(more, n)) /\ (Once(es, n) => Once(more, n))
      BY <1>1, <1>2, <2>2, AppendHolds DEF more
    <3>2. (Never(us, n) => Never(rest, n)) /\ (Once(us, n) => Once(rest, n))
      BY <1>1, <2>2, WithoutHolds DEF e, rest
    <3> QED
      BY <1>7, <3>1, <3>2 DEF InOne
  <2> QED
    BY <2>1, <2>2
<1>8. Len(es0) <= Len(more) /\ \A m \in DOMAIN es0 : more[m] = es0[m]
  BY <1>3 DEF Taking
<1>9. \A m \in DOMAIN more \ DOMAIN es0 : more[m].name \in TitleNames
  <2> SUFFICES ASSUME NEW m \in DOMAIN more \ DOMAIN es0 PROVE more[m].name \in TitleNames
    OBVIOUS
  <2>1. CASE m = last
    BY <1>3, <2>1 DEF e
  <2>2. CASE m # last
    <3>1. m \in DOMAIN es
      BY <1>3, <2>2
    <3> QED
      BY <1>3, <3>1 DEF Taking
  <2> QED
    BY <2>1, <2>2
<1>10. \A m \in DOMAIN us0 : rest[m] \in {us0[m], Gone} /\ (m # i => rest[m] = us[m])
  BY <1>1, <1>4 DEF Taking
<1>11. \A n \in N : Never(es0, n) /\ Once(us0, n) => InOne(more, rest, n)
  BY <1>7 DEF Taking
<1>12. \A n : n \notin N => (Once(es0, n) => Once(more, n)) /\ (Never(es0, n) => Never(more, n))
  BY <1>6 DEF Taking
<1> QED
  BY <1>1, <1>3, <1>4, <1>8, <1>9, <1>10, <1>11, <1>12 DEF Taking, E, more, rest, e

\* Nothing was taken yet.
LEMMA TakeNone ==
  ASSUME NEW B, NEW N, NEW Q, NEW es0 \in Seq(EntriesOver(B, Q)),
         NEW us0 \in Seq(EntriesOver(N, {}))
  PROVE  Taking(es0, us0, B, N, Q, es0, us0)
<1>1. EntriesOver(B, Q) \subseteq EntriesOver(B \cup N, Q)
  BY EntriesGrow
<1>2. es0 \in Seq(EntriesOver(B \cup N, Q)) /\ Len(es0) \in Nat
  <2>1. \A i \in 1 .. Len(es0) : es0[i] \in EntriesOver(B, Q)
    BY LenProperties
  <2>2. es0 \in [1 .. Len(es0) -> EntriesOver(B \cup N, Q)] /\ Len(es0) \in Nat
    BY <1>1, <2>1, SeqDef, LenProperties
  <2> QED
    BY <2>2, FunctionIsSeq
<1> QED
  BY <1>2 DEF Taking, InOne

\* What a patch does to another partition.
LEMMA TryOther ==
  ASSUME NEW s, NEW i, NEW patch
  PROVE  TryPatch(s, i, patch, FALSE) =
           IF PairedAt(s.es, patch) = {} THEN s
           ELSE [es |-> Append(s.es, patch), us |-> Without(s.us, i),
                 ncas |-> Tie(s.ncas, patch, s.es[BaseAt(s.es, patch)],
                              First(PairedAt(s.es, patch))),
                 applied |-> TRUE]
  BY DEF TryPatch, PairedAt, BaseAt

\* The patches of one partition, applied to another.
LEMMA UpdateHolds ==
  ASSUME Loaded, NEW N, N \subseteq NcasOver(DOMAIN loads),
         NEW B, B \subseteq NcasOver(DOMAIN loads), NEW Q,
         NEW es0 \in Seq(EntriesOver(B, Q)), NEW us0 \in Seq(EntriesOver(N, {})),
         NEW known, NcasTyped(known), N \cup B \subseteq DOMAIN known
  PROVE  LET s == TryApplyUpdate(es0, us0, FALSE, known)
         IN /\ Taking(es0, us0, B, N, Q, s.es, s.us)
            /\ Grown(known, s.ncas, N, B \cup N)
            /\ s.applied \in BOOLEAN
<1> DEFINE len == Len(us0)
           start == [es |-> es0, us |-> us0, ncas |-> known, applied |-> FALSE]
           try[i \in 0 .. len] == IF i = 0 THEN start ELSE TryPatch(try[i - 1], i, us0[i], FALSE)
           Round(s, i) == TryPatch(s, i, us0[i], FALSE)
           All == [es : Seq(EntriesOver(B \cup N, Q)), us : Seq(EntriesOver(N, {})),
                   ncas : States(known), applied : BOOLEAN]
           S(i) == {s \in All :
                      /\ Taking(es0, us0, B, N, Q, s.es, s.us)
                      /\ Grown(known, s.ncas, N, B \cup N)
                      /\ \A m \in DOMAIN us0 : m > i => s.us[m] = us0[m]}
<1>1. len \in Nat /\ DOMAIN us0 = 1 .. len /\ \A i \in 1 .. len : us0[i] \in EntriesOver(N, {})
      /\ Len(es0) \in Nat /\ DOMAIN es0 = 1 .. Len(es0)
  BY LenProperties
<1>2. start \in S(0)
  <2>1. Taking(es0, us0, B, N, Q, es0, us0)
    BY TakeNone
  <2>2. Grown(known, known, N, B \cup N) /\ known \in States(known)
    BY GrownSame, GrownAreStates
  <2>3. start \in All
    BY <2>1, <2>2 DEF Taking
  <2> QED
    BY <2>1, <2>2, <2>3
<1>3. ASSUME NEW i \in 1 .. len, NEW s \in S(i - 1) PROVE Round(s, i) \in S(i)
  <2>1. /\ s \in All /\ Taking(es0, us0, B, N, Q, s.es, s.us)
        /\ Grown(known, s.ncas, N, B \cup N)
        /\ \A m \in DOMAIN us0 : m > i - 1 => s.us[m] = us0[m]
    OBVIOUS
  <2>2. \A m \in DOMAIN us0 : m > i => m > i - 1 /\ m # i
    BY <1>1
  <2>3. CASE PairedAt(s.es, us0[i]) = {}
    <3>1. Round(s, i) = s
      BY <2>3, TryOther
    <3> HIDE DEF Round
    <3> QED
      BY <2>1, <2>2, <3>1
  <2>4. CASE PairedAt(s.es, us0[i]) # {}
    <3> DEFINE base == s.es[BaseAt(s.es, us0[i])]
               first == First(PairedAt(s.es, us0[i]))
               ns == Tie(s.ncas, us0[i], base, first)
               more == Append(s.es, us0[i])
               rest == Without(s.us, i)
    <3>1. Round(s, i) = [es |-> more, us |-> rest, ncas |-> ns, applied |-> TRUE]
      BY <2>4, TryOther
    <3>2. /\ us0[i].name \in TitleNames /\ IsTitle(us0[i], N) /\ IsTitle(base, B \cup N)
          /\ first \in Paired(us0[i], base)
      <4>1. us0[i] \in EntriesOver(N, {}) /\ s.es \in Seq(EntriesOver(B \cup N, Q))
        BY <1>1, <2>1 DEF Taking
      <4>2. B \cup N \subseteq NcasOver(DOMAIN loads)
        OBVIOUS
      <4>3. base = s.es[BaseAt(s.es, us0[i])]
        OBVIOUS
      <4> HIDE DEF base, S, Round, All, try, start, len
      <4>4. IsTitle(base, B \cup N)
        <5> DEFINE C == B \cup N
        <5>1. s.es \in Seq(EntriesOver(C, Q)) /\ C \subseteq NcasOver(DOMAIN loads)
          BY <4>1, <4>2
        <5> HIDE DEF C
        <5>2. IsTitle(base, C)
          BY <2>4, <4>1, <4>3, <5>1, PatchFound
        <5> QED
          BY <5>2 DEF C
      <4>6. us0[i].name \in TitleNames /\ IsTitle(us0[i], N)
        BY <2>4, <4>1, <4>2, <4>3, PatchFound
      <4>5. first \in Paired(us0[i], base)
        BY <2>4, <4>1, <4>2, <4>3, PatchFound
      <4> QED
        BY <4>4, <4>5, <4>6
    <3>3. Grown(s.ncas, ns, N, B \cup N)
      <4>1. NcasTyped(s.ncas) /\ N \cup (B \cup N) \subseteq DOMAIN s.ncas
        BY <2>1 DEF Grown
      <4> HIDE DEF base, first
      <4> QED
        BY <3>2, <4>1, TieGrows
    <3>4. Grown(known, ns, N, B \cup N) /\ ns \in States(known)
      <4>1. Grown(known, ns, N, B \cup N)
        BY <2>1, <3>3, GrownOn
      <4> HIDE DEF ns
      <4> QED
        BY <4>1, GrownAreStates
    <3>5. /\ Taking(es0, us0, B, N, Q, more, rest)
          /\ \A m \in DOMAIN us0 : m # i => rest[m] = s.us[m]
      <4>1. i \in DOMAIN us0 /\ i > i - 1
        BY <1>1
      <4>2. s.us[i] = us0[i]
        BY <2>1, <4>1
      <4>3. Len(es0) \in Nat /\ DOMAIN es0 = 1 .. Len(es0) /\ us0[i].name \in TitleNames
        BY <1>1, <3>2
      <4>4. Taking(es0, us0, B, N, Q, s.es, s.us) /\ i \in DOMAIN us0
        BY <2>1, <4>1
      <4>5. Taking(es0, us0, B, N, Q, more, rest)
        BY <4>2, <4>3, <4>4, TakeKeeps
      <4>6. \A m \in DOMAIN us0 : m # i => rest[m] = s.us[m]
        <5>1. s.us \in Seq(EntriesOver(N, {})) /\ DOMAIN s.us = DOMAIN us0
          BY <4>4, LenProperties DEF Taking
        <5> QED
          BY <5>1, WithoutIsSeq
      <4> QED
        BY <4>5, <4>6
    <3> HIDE DEF ns, more, rest, Round
    <3>6. Round(s, i) \in All
      BY <3>1, <3>4, <3>5 DEF Taking
    <3>7. Round(s, i).es = more /\ Round(s, i).us = rest /\ Round(s, i).ncas = ns
      BY <3>1
    <3>8. \A m \in DOMAIN us0 : m > i => rest[m] = us0[m]
      BY <2>1, <2>2, <3>5
    <3> HIDE DEF All
    <3> QED
      BY <3>4, <3>5, <3>6, <3>7, <3>8
  <2> QED
    BY <2>3, <2>4
<1> HIDE DEF S, len, start, Round
<1>4. try = [i \in 0 .. len |-> IF i = 0 THEN start ELSE Round(try[i - 1], i)]
  <2> DEFINE D == [i \in 0 .. len |-> S(i)]
             step == [i \in 1 .. len |-> [s \in S(i - 1) |-> Round(s, i)]]
  <2>1. \A i \in 1 .. len : \A d \in D[i - 1] : step[i][d] \in D[i]
    <3> SUFFICES ASSUME NEW i \in 1 .. len, NEW d \in S(i - 1) PROVE Round(d, i) \in S(i)
      BY <1>1
    <3> QED
      BY <1>3
  <2>2. start \in D[0]
    BY <1>1, <1>2
  <2>3. PICK f : IsCourse(f, len, start, step) /\ \A i \in 0 .. len : f[i] \in D[i]
    <3> HIDE DEF D, step, try
    <3>1. len \in Nat
      BY <1>1
    <3> QED
      BY <3>1, <2>1, <2>2, LoopRuns
  <2>4. \A i \in 0 .. len : i # 0 => step[i][f[i - 1]] = Round(f[i - 1], i)
    <3> SUFFICES ASSUME NEW i \in 0 .. len, i # 0 PROVE step[i][f[i - 1]] = Round(f[i - 1], i)
      OBVIOUS
    <3>1. i - 1 \in 0 .. len /\ i \in 1 .. len
      BY <1>1
    <3>2. f[i - 1] \in S(i - 1)
      BY <2>3, <3>1
    <3> QED
      BY <3>1, <3>2
  <2>5. f = [i \in 0 .. len |-> IF i = 0 THEN start ELSE Round(f[i - 1], i)]
    <3> HIDE DEF step
    <3> QED
      BY <2>3, <2>4 DEF IsCourse
  <2> QED
    BY <2>5, Zenon DEF Round
<1> HIDE DEF try
<1>5. try[len] \in S(len)
  <2> DEFINE good == {j \in 0 .. len : try[j] \in S(j)}
  <2>1. 0 \in good
    BY <1>1, <1>2, <1>4
  <2>2. \A j \in 1 .. len : j - 1 \in good => j \in good
    <3> SUFFICES ASSUME NEW j \in 1 .. len, try[j - 1] \in S(j - 1) PROVE try[j] \in S(j)
      OBVIOUS
    <3>1. try[j] = Round(try[j - 1], j)
      BY <1>1, <1>4
    <3> QED
      BY <1>3, <3>1
  <2>3. len \in 0 .. len
    BY <1>1
  <2> HIDE DEF good
  <2>4. len \in good
    BY <1>1, <2>1, <2>2, <2>3, LoopKeeps
  <2> QED
    BY <2>4 DEF good
<1>6. TryApplyUpdate(es0, us0, FALSE, known) = try[len]
  BY Zenon DEF TryApplyUpdate, try, len, start
<1> QED
  BY <1>5, <1>6 DEF S

\* The add-ons of one partition, applied to another.
LEMMA AddOnHolds ==
  ASSUME Loaded, NEW N, N \subseteq NcasOver(DOMAIN loads), NEW B, NEW Q,
         NEW es0 \in Seq(EntriesOver(B, Q)), NEW us0 \in Seq(EntriesOver(N, {}))
  PROVE  LET s == TryApplyAddOn(es0, us0)
         IN Taking(es0, us0, B, N, Q, s.es, s.us) /\ s.applied \in BOOLEAN
<1> DEFINE len == Len(us0)
           start == [es |-> es0, us |-> us0, applied |-> FALSE]
           try[i \in 0 .. len] == IF i = 0 THEN start ELSE TryAddOn(try[i - 1], i, us0[i])
           All == [es : Seq(EntriesOver(B \cup N, Q)), us : Seq(EntriesOver(N, {})),
                   applied : BOOLEAN]
           S(i) == {s \in All :
                      /\ Taking(es0, us0, B, N, Q, s.es, s.us)
                      /\ \A m \in DOMAIN us0 : m > i => s.us[m] = us0[m]}
<1>1. len \in Nat /\ DOMAIN us0 = 1 .. len /\ \A i \in 1 .. len : us0[i] \in EntriesOver(N, {})
      /\ Len(es0) \in Nat /\ DOMAIN es0 = 1 .. Len(es0)
  BY LenProperties
<1>2. start \in S(0)
  <2>1. Taking(es0, us0, B, N, Q, es0, us0)
    BY TakeNone
  <2>2. start \in All
    BY <2>1 DEF Taking
  <2> QED
    BY <2>1, <2>2
<1>3. ASSUME NEW i \in 1 .. len, NEW s \in S(i - 1) PROVE TryAddOn(s, i, us0[i]) \in S(i)
  <2> DEFINE more == Append(s.es, us0[i])
             rest == Without(s.us, i)
             moved == [es |-> more, us |-> rest, applied |-> TRUE]
  <2>1. /\ s \in All /\ Taking(es0, us0, B, N, Q, s.es, s.us)
        /\ \A m \in DOMAIN us0 : m > i - 1 => s.us[m] = us0[m]
    OBVIOUS
  <2>2. \A m \in DOMAIN us0 : m > i => m > i - 1 /\ m # i
    BY <1>1
  <2>3. \/ TryAddOn(s, i, us0[i]) = s
        \/ TryAddOn(s, i, us0[i]) = moved /\ MetaOf(us0[i]).kind = "AddOnContent"
    BY DEF TryAddOn
  <2>4. CASE TryAddOn(s, i, us0[i]) = s
    BY <2>1, <2>2, <2>4
  <2>5. CASE TryAddOn(s, i, us0[i]) = moved /\ MetaOf(us0[i]).kind = "AddOnContent"
    <3>1. HasMeta(us0[i])
      BY <2>5 DEF HasMeta, NoMeta
    <3>2. us0[i].name \in TitleNames
      BY <1>1, <3>1, MetaHolds
    <3>3. /\ Taking(es0, us0, B, N, Q, more, rest)
          /\ \A m \in DOMAIN us0 : m # i => rest[m] = s.us[m]
      <4>1. i \in DOMAIN us0 /\ i > i - 1
        BY <1>1
      <4>2. s.us[i] = us0[i]
        BY <2>1, <4>1
      <4>3. Len(es0) \in Nat /\ DOMAIN es0 = 1 .. Len(es0) /\ us0[i].name \in TitleNames
        BY <1>1, <3>2
      <4>4. Taking(es0, us0, B, N, Q, s.es, s.us) /\ i \in DOMAIN us0
        BY <2>1, <4>1
      <4>5. Taking(es0, us0, B, N, Q, more, rest)
        BY <4>2, <4>3, <4>4, TakeKeeps
      <4>6. \A m \in DOMAIN us0 : m # i => rest[m] = s.us[m]
        <5>1. s.us \in Seq(EntriesOver(N, {})) /\ DOMAIN s.us = DOMAIN us0
          BY <4>4, LenProperties DEF Taking
        <5> QED
          BY <5>1, WithoutIsSeq
      <4> QED
        BY <4>5, <4>6
    <3> HIDE DEF more, rest
    <3>4. moved \in All
      BY <3>3 DEF Taking
    <3> QED
      BY <2>1, <2>2, <2>5, <3>3, <3>4
  <2> QED
    BY <2>3, <2>4, <2>5
<1> HIDE DEF S, len, start
<1>4. try = [i \in 0 .. len |-> IF i = 0 THEN start ELSE TryAddOn(try[i - 1], i, us0[i])]
  <2> DEFINE D == [i \in 0 .. len |-> S(i)]
             step == [i \in 1 .. len |-> [s \in S(i - 1) |-> TryAddOn(s, i, us0[i])]]
  <2>1. \A i \in 1 .. len : \A d \in D[i - 1] : step[i][d] \in D[i]
    <3> SUFFICES ASSUME NEW i \in 1 .. len, NEW d \in S(i - 1)
                 PROVE  TryAddOn(d, i, us0[i]) \in S(i)
      BY <1>1
    <3> QED
      BY <1>3
  <2>2. start \in D[0]
    BY <1>1, <1>2
  <2>3. PICK f : IsCourse(f, len, start, step) /\ \A i \in 0 .. len : f[i] \in D[i]
    <3> HIDE DEF D, step, try
    <3>1. len \in Nat
      BY <1>1
    <3> QED
      BY <3>1, <2>1, <2>2, LoopRuns
  <2>4. \A i \in 0 .. len : i # 0 => step[i][f[i - 1]] = TryAddOn(f[i - 1], i, us0[i])
    <3> SUFFICES ASSUME NEW i \in 0 .. len, i # 0
                 PROVE  step[i][f[i - 1]] = TryAddOn(f[i - 1], i, us0[i])
      OBVIOUS
    <3>1. i - 1 \in 0 .. len /\ i \in 1 .. len
      BY <1>1
    <3>2. f[i - 1] \in S(i - 1)
      BY <2>3, <3>1
    <3> QED
      BY <3>1, <3>2
  <2>5. f = [i \in 0 .. len |-> IF i = 0 THEN start ELSE TryAddOn(f[i - 1], i, us0[i])]
    <3> HIDE DEF step
    <3> QED
      BY <2>3, <2>4 DEF IsCourse
  <2> QED
    BY <2>5, Zenon
<1> HIDE DEF try
<1>5. try[len] \in S(len)
  <2> DEFINE good == {j \in 0 .. len : try[j] \in S(j)}
  <2>1. 0 \in good
    BY <1>1, <1>2, <1>4
  <2>2. \A j \in 1 .. len : j - 1 \in good => j \in good
    <3> SUFFICES ASSUME NEW j \in 1 .. len, try[j - 1] \in S(j - 1) PROVE try[j] \in S(j)
      OBVIOUS
    <3>1. try[j] = TryAddOn(try[j - 1], j, us0[j])
      BY <1>1, <1>4
    <3> QED
      BY <1>3, <3>1
  <2>3. len \in 0 .. len
    BY <1>1
  <2> HIDE DEF good
  <2>4. len \in good
    BY <1>1, <2>1, <2>2, <2>3, LoopKeeps
  <2> QED
    BY <2>4 DEF good
<1>6. TryApplyAddOn(es0, us0) = try[len]
  BY Zenon DEF TryApplyAddOn, try, len, start
<1> QED
  BY <1>5, <1>6 DEF S

-----------------------------------------------------------------------------
\* tryParseTicket is a loop over the entries.
LEMMA ParseRuns ==
  ASSUME NEW k, NEW S, entries[k] \in Seq(S), NEW D,
         [index |-> 1, keys |-> titleKeys] \in D[0],
         \A j \in DOMAIN entries[k] : \A s \in D[j - 1] : ParseEntry(s, k, entries[k][j]) \in D[j]
  PROVE  \E s \in D[Len(entries[k])] : ParseTickets(k) = s.keys
<1> DEFINE es == entries[k]
           len == Len(es)
           start == [index |-> 1, keys |-> titleKeys]
           scan[j \in 0 .. len] == IF j = 0 THEN start ELSE ParseEntry(scan[j - 1], k, es[j])
<1>1. len \in Nat /\ DOMAIN es = 1 .. len
  BY LenProperties
<1>2. \A j \in 1 .. len : \A s \in D[j - 1] : ParseEntry(s, k, es[j]) \in D[j]
  BY <1>1
<1>3. start \in D[0]
  OBVIOUS
<1> HIDE DEF es, len, start
<1>4. scan = [j \in 0 .. len |-> IF j = 0 THEN start ELSE ParseEntry(scan[j - 1], k, es[j])]
  <2> DEFINE step == [j \in 1 .. len |-> [s \in D[j - 1] |-> ParseEntry(s, k, es[j])]]
  <2>1. \A j \in 1 .. len : \A d \in D[j - 1] : step[j][d] \in D[j]
    BY <1>2
  <2>2. PICK f : IsCourse(f, len, start, step) /\ \A j \in 0 .. len : f[j] \in D[j]
    <3> HIDE DEF step, scan
    <3> QED
      BY <1>1, <1>3, <2>1, LoopRuns
  <2>3. \A j \in 0 .. len : j # 0 => step[j][f[j - 1]] = ParseEntry(f[j - 1], k, es[j])
    <3> SUFFICES ASSUME NEW j \in 0 .. len, j # 0
                 PROVE  step[j][f[j - 1]] = ParseEntry(f[j - 1], k, es[j])
      OBVIOUS
    <3>1. j - 1 \in 0 .. len /\ j \in 1 .. len
      BY <1>1
    <3>2. f[j - 1] \in D[j - 1]
      BY <2>2, <3>1
    <3> QED
      BY <3>1, <3>2
  <2>4. f = [j \in 0 .. len |-> IF j = 0 THEN start ELSE ParseEntry(f[j - 1], k, es[j])]
    <3> HIDE DEF step
    <3> QED
      BY <2>2, <2>3 DEF IsCourse
  <2> QED
    BY <2>4, Zenon
<1> HIDE DEF scan
<1>5. scan[len] \in D[len]
  <2> DEFINE good == {j \in 0 .. len : scan[j] \in D[j]}
  <2>1. 0 \in good
    BY <1>1, <1>3, <1>4
  <2>2. \A j \in 1 .. len : j - 1 \in good => j \in good
    <3> SUFFICES ASSUME NEW j \in 1 .. len, scan[j - 1] \in D[j - 1] PROVE scan[j] \in D[j]
      OBVIOUS
    <3>1. scan[j] = ParseEntry(scan[j - 1], k, es[j])
      BY <1>1, <1>4
    <3> QED
      BY <1>2, <3>1
  <2>3. len \in 0 .. len
    BY <1>1
  <2> HIDE DEF good
  <2>4. len \in good
    BY <1>1, <2>1, <2>2, <2>3, LoopKeeps
  <2> QED
    BY <2>4 DEF good
<1>6. ParseTickets(k) = scan[len].keys
  BY Zenon DEF ParseTickets, scan, len, start, es
<1> QED
  BY <1>5, <1>6 DEF len, es

\* A key of a ticket is one that it can be.
LEMMA KeyAdded ==
  ASSUME NEW keys, keys \in [DOMAIN keys -> KeyStates], NEW f, IsFile(f), f.kind = "tik"
  PROVE  /\ AddTitleKey(keys, f) \in [DOMAIN keys -> KeyStates]
         /\ \A r \in DOMAIN keys :
              /\ f.form # "common" \/ f.rights # r => AddTitleKey(keys, f)[r] = keys[r]
              /\ f.form = "common" /\ f.rights = r => AddTitleKey(keys, f)[r] = f.key
  BY DEF AddTitleKey, IsFile

\* Whatever the index of the file has come to, the keys that are known stay known, and
\* a right that the package has no ticket for is as it was.
LEMMA TicketsHold ==
  ASSUME Loaded, NEW k \in DOMAIN loads, NEW N, NEW P,
         entries[k] \in Seq(EntriesOver(N, P)),
         \A i \in DOMAIN entries[k] :
           entries[k][i].name \in FileNames => i \in DOMAIN loads[k].files,
         titleKeys \in [DOMAIN titleKeys -> KeyStates]
  PROVE  /\ ParseTickets(k) \in [DOMAIN titleKeys -> KeyStates]
         /\ \A r \in DOMAIN titleKeys :
              TicketsFor(k, r) = {} => ParseTickets(k)[r] = titleKeys[r]
<1> DEFINE es == entries[k]
           files == loads[k].files
           All == [index : Nat, keys : [DOMAIN titleKeys -> KeyStates]]
           S(j) == {s \in All :
                      /\ 1 <= s.index /\ s.index <= j + 1
                      /\ \A r \in DOMAIN titleKeys :
                           TicketsFor(k, r) = {} => s.keys[r] = titleKeys[r]}
           D == [j \in 0 .. Len(es) |-> S(j)]
<1>1. /\ Len(files) \in Nat /\ DOMAIN files = 1 .. Len(files)
      /\ \A i \in DOMAIN files : IsFile(files[i])
  BY FilesLoaded
<1>2. /\ Len(es) \in Nat /\ DOMAIN es = 1 .. Len(es)
      /\ \A j \in DOMAIN es : es[j] \in EntriesOver(N, P)
  BY LenProperties
<1>3. [index |-> 1, keys |-> titleKeys] \in S(0)
  OBVIOUS
<1>4. ASSUME NEW j \in DOMAIN es, NEW s \in S(j - 1)
      PROVE  ParseEntry(s, k, es[j]) \in S(j)
  <2>1. /\ s \in All /\ 1 <= s.index /\ s.index <= j /\ j \in Nat
        /\ \A r \in DOMAIN titleKeys : TicketsFor(k, r) = {} => s.keys[r] = titleKeys[r]
    BY <1>2
  <2>2. CASE ~ (es[j].name # Cleared /\ es[j].name[1] = "tik")
    <3>1. ParseEntry(s, k, es[j]) = [s EXCEPT !.index = @ + 1]
      BY <2>2 DEF ParseEntry
    <3> QED
      BY <2>1, <3>1
  <2>3. CASE es[j].name # Cleared /\ es[j].name[1] = "tik"
    <3> DEFINE file == files[s.index]
    <3>1. es[j].name \in FileNames
      BY <1>2, <2>3, EntryKinds
    <3>2. s.index \in DOMAIN files
      BY <1>1, <2>1, <3>1
    <3>3. IsFile(file) /\ file \in Range(files)
      BY <1>1, <3>2 DEF Range
    <3>4. CASE file.kind = "tik" /\ file.form # "bad"
      <4>1. ParseEntry(s, k, es[j]) = [index |-> s.index + 1, keys |-> AddTitleKey(s.keys, file)]
        BY <2>3, <3>4 DEF ParseEntry
      <4>2. \A r : TicketsFor(k, r) = {} => file.form # "common" \/ file.rights # r
        BY <3>3, <3>4 DEF TicketsFor
      <4>3. s.keys \in [DOMAIN s.keys -> KeyStates] /\ DOMAIN s.keys = DOMAIN titleKeys
        BY <2>1
      <4> HIDE DEF file
      <4>4. /\ AddTitleKey(s.keys, file) \in [DOMAIN titleKeys -> KeyStates]
            /\ \A r \in DOMAIN titleKeys : file.form # "common" \/ file.rights # r =>
                 AddTitleKey(s.keys, file)[r] = s.keys[r]
        BY <3>3, <3>4, <4>3, KeyAdded
      <4> DEFINE keys == AddTitleKey(s.keys, file)
      <4>5. \A r \in DOMAIN titleKeys : TicketsFor(k, r) = {} => keys[r] = titleKeys[r]
        BY <2>1, <4>2, <4>4
      <4> HIDE DEF keys
      <4>6. keys \in [DOMAIN titleKeys -> KeyStates]
        BY <4>4 DEF keys
      <4> QED
        BY <2>1, <4>1, <4>5, <4>6 DEF keys
    <3>5. CASE ~ (file.kind = "tik" /\ file.form # "bad")
      <4>1. ParseEntry(s, k, es[j]) = s
        BY <2>3, <3>5 DEF ParseEntry
      <4> QED
        BY <2>1, <4>1
    <3> QED
      BY <3>4, <3>5
  <2> QED
    BY <2>2, <2>3
<1> HIDE DEF S
<1>5. \E s \in D[Len(es)] : ParseTickets(k) = s.keys
  <2>1. [index |-> 1, keys |-> titleKeys] \in D[0]
    BY <1>2, <1>3
  <2>2. \A j \in DOMAIN es : \A s \in D[j - 1] : ParseEntry(s, k, es[j]) \in D[j]
    BY <1>2, <1>4
  <2> HIDE DEF D
  <2> QED
    BY <2>1, <2>2, ParseRuns
<1>6. \E s \in S(Len(es)) : ParseTickets(k) = s.keys
  BY <1>2, <1>5
<1> QED
  BY <1>6 DEF S

\* The sound tickets of a new package have the last word on the rights they are for, if
\* one of them comes before any that is given up.
LEMMA OwnTicketsWin ==
  ASSUME Loaded, NEW k \in DOMAIN loads, entries[k] = Constructed(loads[k]),
         titleKeys \in [DOMAIN titleKeys -> KeyStates], NEW r \in DOMAIN titleKeys,
         ReadsTicket(k, r), \A f \in TicketsFor(k, r) : f.key = "right"
  PROVE  ParseTickets(k)[r] = "right"
<1> DEFINE es == entries[k]
           files == loads[k].files
           Clean(j) == \A i \in 1 .. j : files[i].kind = "tik" => files[i].form # "bad"
           Known(j) == \E i \in 1 .. j : files[i] \in TicketsFor(k, r) /\ Clean(i)
           All == [index : Nat, keys : [DOMAIN titleKeys -> KeyStates]]
           S(j) == {s \in All :
                      /\ 1 <= s.index /\ s.index <= j + 1
                      /\ Clean(j) => s.index = j + 1
                      /\ Known(j) => s.keys[r] = "right"}
           D == [j \in 0 .. Len(es) |-> S(j)]
<1>1. /\ Len(files) \in Nat /\ DOMAIN files = 1 .. Len(files)
      /\ \A i \in DOMAIN files : IsFile(files[i])
  BY FilesLoaded
<1>2. /\ es = [i \in 1 .. Len(files) |-> [name |-> <<files[i].kind, files[i].id>>, fs |-> NoFs]]
  BY <1>1 DEF Constructed
<1>3. es \in Seq(Range(es)) /\ Len(es) = Len(files) /\ DOMAIN es = 1 .. Len(files)
  <2>1. es \in [1 .. Len(files) -> Range(es)]
    BY <1>2 DEF Range
  <2> HIDE DEF es
  <2> QED
    BY <1>1, <2>1, FunctionIsSeq
<1>4. \A j \in DOMAIN es : es[j].name = <<files[j].kind, files[j].id>>
  BY <1>2, <1>3
<1>5. [index |-> 1, keys |-> titleKeys] \in S(0)
  OBVIOUS
<1> HIDE DEF es
<1>6. ASSUME NEW j \in DOMAIN es, NEW s \in S(j - 1)
      PROVE  ParseEntry(s, k, es[j]) \in S(j)
  <2> DEFINE file == files[s.index]
  <2>1. /\ s \in All /\ 1 <= s.index /\ s.index <= j /\ j \in Nat /\ j \in DOMAIN files
        /\ Clean(j - 1) => s.index = j
        /\ Known(j - 1) => s.keys[r] = "right"
    BY <1>1, <1>3
  <2>2. /\ Clean(j) => Clean(j - 1) /\ (files[j].kind = "tik" => files[j].form # "bad")
        /\ Known(j) => Known(j - 1) \/ (files[j] \in TicketsFor(k, r) /\ Clean(j))
    <3> HIDE DEF files
    <3> QED
      BY <2>1
  <2>3. es[j].name # Cleared /\ es[j].name[1] = files[j].kind
    <3> DEFINE f == files[j]
    <3>1. es[j].name = <<f.kind, f.id>>
      BY <1>4
    <3> HIDE DEF f
    <3>2. es[j].name # Cleared /\ es[j].name[1] = f.kind
      BY <3>1, NameParts
    <3> QED
      BY <3>2 DEF f
  <2>4. /\ s.index \in DOMAIN files /\ IsFile(file) /\ file \in Range(files)
        /\ files[j] \in Range(files)
    BY <1>1, <2>1 DEF Range
  <2>5. \A f \in Range(files) :
          f \in TicketsFor(k, r) <=> f.kind = "tik" /\ f.rights = r /\ f.form = "common"
    BY DEF TicketsFor
  <2> HIDE DEF Clean, Known
  <2>6. CASE files[j].kind # "tik"
    <3>1. ParseEntry(s, k, es[j]) = [s EXCEPT !.index = @ + 1]
      BY <2>3, <2>6 DEF ParseEntry
    <3>2. Known(j) => Known(j - 1)
      BY <2>2, <2>4, <2>5, <2>6
    <3> HIDE DEF file, files
    <3> QED
      BY <2>1, <2>2, <3>1, <3>2
  <2>7. CASE files[j].kind = "tik" /\ file.kind = "tik" /\ file.form # "bad"
    <3> DEFINE keys == AddTitleKey(s.keys, file)
    <3>1. ParseEntry(s, k, es[j]) = [index |-> s.index + 1, keys |-> keys]
      BY <2>1, <2>3, <2>7 DEF ParseEntry
    <3>2. s.keys \in [DOMAIN s.keys -> KeyStates] /\ DOMAIN s.keys = DOMAIN titleKeys
      BY <2>1
    <3>3. /\ keys \in [DOMAIN titleKeys -> KeyStates]
          /\ file.form # "common" \/ file.rights # r => keys[r] = s.keys[r]
          /\ file.form = "common" /\ file.rights = r => keys[r] = file.key
      <4>1. IsFile(file) /\ file.kind = "tik" /\ file.form # "bad"
        BY <2>4, <2>7
      <4> HIDE DEF file
      <4> QED
        BY <3>2, <4>1, KeyAdded
    <3>4. file \in TicketsFor(k, r) => keys[r] = "right"
      BY <2>4, <2>5, <3>3
    <3>5. file \notin TicketsFor(k, r) => keys[r] = s.keys[r]
      BY <2>4, <2>5, <2>7, <3>3
    <3>6. Known(j) => keys[r] = "right"
      BY <2>1, <2>2, <3>4, <3>5
    <3> HIDE DEF keys, file, files
    <3> QED
      BY <2>1, <2>2, <3>1, <3>3, <3>6
  <2>8. CASE files[j].kind = "tik" /\ ~ (file.kind = "tik" /\ file.form # "bad")
    <3>1. ParseEntry(s, k, es[j]) = s
      BY <2>3, <2>8 DEF ParseEntry
    <3>2. ~ Clean(j)
      BY <2>1, <2>2, <2>8
    <3> HIDE DEF file, files
    <3> QED
      BY <2>1, <2>2, <3>1, <3>2
  <2> QED
    BY <2>6, <2>7, <2>8
<1> HIDE DEF S
<1>7. \E s \in D[Len(es)] : ParseTickets(k) = s.keys
  <2>1. [index |-> 1, keys |-> titleKeys] \in D[0]
    BY <1>1, <1>3, <1>5
  <2>2. \A j \in DOMAIN es : \A s \in D[j - 1] : ParseEntry(s, k, es[j]) \in D[j]
    BY <1>1, <1>3, <1>6
  <2> HIDE DEF D
  <2> QED
    BY <1>3, <2>1, <2>2, ParseRuns DEF es
<1>8. \E s \in S(Len(es)) : ParseTickets(k) = s.keys
  BY <1>1, <1>3, <1>7
<1>9. PICK p \in 1 .. Len(es) : files[p] \in TicketsFor(k, r) /\ Clean(p)
  <2>1. PICK p \in DOMAIN files :
          /\ files[p] \in TicketsFor(k, r)
          /\ \A q \in 1 .. p - 1 : files[q].kind = "tik" => files[q].form # "bad"
    BY DEF ReadsTicket
  <2>2. p \in 1 .. Len(es) /\ p \in Nat
    BY <1>1, <1>3, <2>1
  <2>3. files[p].form # "bad"
    BY <2>1 DEF TicketsFor
  <2> HIDE DEF files
  <2>4. Clean(p)
    BY <2>1, <2>2, <2>3
  <2> QED
    BY <2>1, <2>2, <2>4
<1>10. Known(Len(es))
  BY <1>9
<1> HIDE DEF Known, Clean
<1> QED
  BY <1>8, <1>10 DEF S

-----------------------------------------------------------------------------
Last == Len(loads)

\* The packages that a partition with these entries has taken, and itself.
OwnedBy(es) == {1} \cup {e.fs.load : e \in {f \in Range(es) : f.fs.kind = "partition"}}

\* An NCA belongs to one package.
LEMMA NcasApart ==
  /\ \A k, n : n \in NcasOf(k) => n[1] = k
  /\ \A K, n : n \in NcasOver(K) <=> n[1] \in K /\ n \in NcasOf(n[1])
<1>1. \A k, n : n \in NcasOf(k) => n[1] = k
  BY DEF NcasOf
<1> QED
  BY <1>1 DEF NcasOver

\* Entries hold no NCA but those that they are over.
LEMMA HoldsNone ==
  ASSUME NEW N, NEW P, NEW es \in Seq(EntriesOver(N, P)), NEW n, n \notin N
  PROVE  Never(es, n)
<1>1. \A i \in DOMAIN es : es[i] \in EntriesOver(N, P)
  BY LenProperties
<1> QED
  BY <1>1, EntryHolds DEF Never

\* A package that was taken is the file system of some entry.
LEMMA OwnedFacts ==
  ASSUME NEW N, NEW P, NEW es \in Seq(EntriesOver(N, P))
  PROVE  OwnedBy(es) = {1} \cup {k \in P : \E i \in DOMAIN es : es[i].fs = PartitionFs(k)}
<1>1. \A i \in DOMAIN es : es[i] \in EntriesOver(N, P)
  BY LenProperties
<1>2. \A i \in DOMAIN es : es[i].fs.kind = "partition" =>
        \E k \in P : es[i].fs = PartitionFs(k) /\ es[i].fs.load = k
  <2> SUFFICES ASSUME NEW i \in DOMAIN es, es[i].fs.kind = "partition"
               PROVE  \E k \in P : es[i].fs = PartitionFs(k) /\ es[i].fs.load = k
    OBVIOUS
  <2> DEFINE e == es[i]
  <2>1. e \in EntriesOver(N, P)
    BY <1>1
  <2> HIDE DEF e
  <2>2. \/ e.fs = NoFs \/ \E n \in N : e.fs = NcaFs(n)
        \/ \E slots \in Titles(N) : e.fs = WrapperFs(slots)
        \/ \E k \in P : e.fs = PartitionFs(k)
    BY <2>1, EntryKinds
  <2>3. e.fs.kind = "partition"
    BY DEF e
  <2> QED
    BY <2>2, <2>3, FsDiffer DEF e
<1>3. \A i \in DOMAIN es : \A k : es[i].fs = PartitionFs(k) =>
        es[i].fs.kind = "partition" /\ es[i].fs.load = k
  BY FsDiffer
<1>4. OwnedBy(es) = {1} \cup {es[i].fs.load : i \in {j \in DOMAIN es : es[j].fs.kind = "partition"}}
  BY DEF OwnedBy, Range
<1> QED
  BY <1>2, <1>3, <1>4

\* What is known of new NCAs is what their constructors found.
LEMMA NewHolds ==
  ASSUME Loaded, NEW k \in DOMAIN loads, NcasTyped(ncas), NEW N, NEW keys,
         N = NewNcas(k), N \subseteq NcasOf(k)
  PROVE  /\ NcasTyped(WithNew(k, keys)) /\ DOMAIN WithNew(k, keys) = DOMAIN ncas \cup N
         /\ \A n \in N : /\ WithNew(k, keys)[n].base = NoNca
                         /\ WithNew(k, keys)[n].keyed = KeyFits(n, keys)
         /\ \A n \in DOMAIN ncas \ N : WithNew(k, keys)[n] = ncas[n]
<1> DEFINE found(n) == [sections |-> FileOf(n).plain, base |-> NoNca, keyed |-> KeyFits(n, keys)]
           ns == [n \in DOMAIN ncas \cup N |-> IF n \in N THEN found(n) ELSE ncas[n]]
<1>1. WithNew(k, keys) = ns
  BY DEF WithNew, NewNcas
<1>2. ASSUME NEW n \in N
      PROVE  found(n) \in [sections : SUBSET (FileOf(n).plain \cup FileOf(n).patched),
                           base : DOMAIN ns \cup {NoNca}, keyed : BOOLEAN]
  <2>1. KeyFits(n, keys) \in BOOLEAN
    BY Zenon DEF KeyFits
  <2> HIDE DEF ns
  <2> QED
    BY <2>1
<1>3. ASSUME NEW n \in DOMAIN ncas
      PROVE  ncas[n] \in [sections : SUBSET (FileOf(n).plain \cup FileOf(n).patched),
                          base : DOMAIN ns \cup {NoNca}, keyed : BOOLEAN]
  <2>1. ncas[n] \in [sections : SUBSET (FileOf(n).plain \cup FileOf(n).patched),
                     base : DOMAIN ncas \cup {NoNca}, keyed : BOOLEAN]
    BY DEF NcasTyped
  <2>2. DOMAIN ncas \subseteq DOMAIN ns
    OBVIOUS
  <2> HIDE DEF ns
  <2> QED
    BY <2>1, <2>2
<1>4. DOMAIN ns = DOMAIN ncas \cup N /\ ns = [n \in DOMAIN ns |-> ns[n]]
  OBVIOUS
<1>5. \A n \in DOMAIN ns : ns[n] = IF n \in N THEN found(n) ELSE ncas[n]
  OBVIOUS
<1>6. \A n \in N : found(n).base = NoNca /\ found(n).keyed = KeyFits(n, keys)
  OBVIOUS
<1> HIDE DEF found, ns
<1>7. \A n \in DOMAIN ns : \E l \in DOMAIN loads : n \in NcasOf(l)
  BY <1>4 DEF NcasTyped
<1>8. NcasTyped(ns)
  BY <1>2, <1>3, <1>4, <1>5, <1>7 DEF NcasTyped
<1> QED
  BY <1>1, <1>4, <1>5, <1>6, <1>8

-----------------------------------------------------------------------------
(* The invariant.  E and ns stand for the entries and what is known of NCAs, K  *)
(* for the packages that the base owns, R for those whose init() has been run.  *)

Pending == {"opened", "initialized"}

\* The packages that are alive are those of the tree and one that waits.
AliveInv(E, ph, K) ==
  /\ K \subseteq DOMAIN loads
  /\ DOMAIN E = K \cup (IF ph \in Pending THEN {Last} ELSE {})
  /\ ph \in Pending /\ Last # 1 => Last \notin K
  /\ ph = "opened" => E[Last] = Constructed(loads[Last])

\* What the entries of a package are over.
Reach(k, K) == IF k = 1 THEN NcasOver(K) ELSE NcasOf(k)
Parts(k, K) == IF k = 1 THEN K \ {1} ELSE {}
ArrangedInv(E, K, R) == \A k \in R : Arranged(k, E[k], Reach(k, K), Parts(k, K))

\* An NCA is in its own package or, of a package that was taken, in the base.
PlacesInv(E, K, R) ==
  \A k \in R : \A n \in NcasOf(k) :
    IF k \in K \ {1} THEN InOne(E[1], E[k], n) ELSE Once(E[k], n)

\* An NCA was given a base of its own package, or of one that lives as long.
Home(k, K) == IF k \in K THEN K ELSE {k}
KnownInv(ns, K, R) ==
  /\ \A k \in R : NcasOf(k) \subseteq DOMAIN ns
  /\ \A n \in DOMAIN ns : ns[n].base = NoNca \/ ns[n].base \in NcasOver(Home(n[1], K))

ReadyOf(E, ph) == IF ph = "opened" THEN DOMAIN E \ {Last} ELSE DOMAIN E

TreeFor(E, ns, ph, K, R) ==
  AliveInv(E, ph, K) /\ ArrangedInv(E, K, R) /\ PlacesInv(E, K, R) /\ KnownInv(ns, K, R)
Tree(E, ns, ph) == TreeFor(E, ns, ph, OwnedBy(E[1]), ReadyOf(E, ph))

LoadsInv ==
  /\ Loaded /\ Last \in Nat \ {0} /\ Last <= MaxLoads
  /\ purpose \in {"base", "update", "add-on"}
  /\ purpose = "base" <=> Last = 1
  /\ phase \in {"opened", "initialized", "applied", "mounted", "destroyed", "terminated"}
  /\ phase = "initialized" => purpose # "base"
  /\ titleKeys \in [DOMAIN titleKeys -> KeyStates] /\ Rights \subseteq DOMAIN titleKeys
  /\ NcasTyped(ncas)

\* An NCA whose key does not fit is of a package whose keys are not at hand.
KeysInv(ns) ==
  \A n \in DOMAIN ns :
    ~ ns[n].keyed => FileOf(n).rights # NoRights /\ ~ KeyAtHand(n[1], FileOf(n).rights)

Live == phase \in {"opened", "initialized", "applied", "mounted"}

MountInv ==
  LoadsInv /\ KeysInv(ncas) /\ MountsWithKeys /\ (Live => Tree(entries, ncas, phase))

\* What a step changes that opens no package.
LEMMA LoadsSame ==
  ASSUME loads' = loads
  PROVE  /\ Loaded' = Loaded /\ Last' = Last
         /\ \A n : FileOf(n)' = FileOf(n)
         /\ \A k : NcasOf(k)' = NcasOf(k)
         /\ \A ns : NcasTyped(ns)' <=> NcasTyped(ns)
         /\ \A E, ns, ph : Tree(E, ns, ph)' <=> Tree(E, ns, ph)
<1>1. Last' = Last /\ \A n : FileOf(n)' = FileOf(n)
  BY DEF Last, FileOf
<1>2. \A k : NcasOf(k)' = NcasOf(k)
  BY DEF NcasOf
<1>3. \A K : NcasOver(K)' = NcasOver(K)
  BY <1>2 DEF NcasOver
<1>4. \A ns : NcasTyped(ns)' <=> NcasTyped(ns)
  BY <1>1, <1>2 DEF NcasTyped
<1>5. \A k, es, N, P : Arranged(k, es, N, P)' <=> Arranged(k, es, N, P)
  BY DEF Arranged
<1>6. \A k, K : Reach(k, K)' = Reach(k, K)
  BY <1>2, <1>3 DEF Reach
<1>7. \A E, ph, K : AliveInv(E, ph, K)' <=> AliveInv(E, ph, K)
  BY <1>1 DEF AliveInv
<1>8. \A E, K, R : ArrangedInv(E, K, R)' <=> ArrangedInv(E, K, R)
  BY <1>5, <1>6 DEF ArrangedInv
<1>9. \A E, K, R : PlacesInv(E, K, R)' <=> PlacesInv(E, K, R)
  BY <1>2 DEF PlacesInv
<1>10. \A ns, K, R : KnownInv(ns, K, R)' <=> KnownInv(ns, K, R)
  BY <1>2, <1>3 DEF KnownInv
<1>11. \A E, ns, ph, K, R : TreeFor(E, ns, ph, K, R)' <=> TreeFor(E, ns, ph, K, R)
  BY <1>7, <1>8, <1>9, <1>10 DEF TreeFor
<1>12. \A E, ph : ReadyOf(E, ph)' = ReadyOf(E, ph)
  BY <1>1 DEF ReadyOf
<1>13. \A E, ns, ph : Tree(E, ns, ph)' <=> Tree(E, ns, ph)
  BY <1>11, <1>12 DEF Tree
<1>14. Loaded' = Loaded
  BY DEF Loaded
<1> QED
  BY <1>1, <1>2, <1>4, <1>13, <1>14

\* The properties that the invariant is for.
LEMMA TreeGives ==
  ASSUME LoadsInv, Live, Tree(entries, ncas, phase), phase # "opened"
  PROVE  /\ \A k \in Alive : Arranged(k, entries[k], Reach(k, Owned), Parts(k, Owned))
         /\ Owned \subseteq DOMAIN loads /\ Alive \subseteq DOMAIN loads
         /\ 1 \in Owned /\ 1 \in Alive
         /\ \A k \in Alive \ Owned : k = Last /\ phase \in Pending
         /\ PlacesInv(entries, Owned, Alive) /\ KnownInv(ncas, Owned, Alive)
<1>1. Owned = OwnedBy(entries[1])
  BY DEF Owned, OwnedBy
<1>2. TreeFor(entries, ncas, phase, Owned, Alive)
  BY <1>1 DEF Tree, ReadyOf, Alive
<1>3. 1 \in Owned
  BY DEF Owned
<1>4. Last \in DOMAIN loads
  BY LenProperties DEF LoadsInv, Loaded, Last
<1> QED
  BY <1>2, <1>3, <1>4 DEF TreeFor, AliveInv, ArrangedInv, Alive

LEMMA TypeFollows ==
  ASSUME MountInv
  PROVE  TypeOK
<1>1. LoadsInv /\ Loaded /\ NcasTyped(ncas)
  BY DEF MountInv, LoadsInv
<1>2. loads \in Seq(Packages) /\ Len(loads) <= MaxLoads
  BY <1>1 DEF LoadsInv, Loaded, Last
<1>3. ASSUME NEW n \in DOMAIN ncas
      PROVE  /\ n[2] \in DOMAIN loads[n[1]].files
             /\ ncas[n].sections \subseteq FileOf(n).plain \cup FileOf(n).patched
             /\ ncas[n].base \in DOMAIN ncas \cup {NoNca}
             /\ ncas[n].keyed \in BOOLEAN
  <2>1. PICK k \in DOMAIN loads : n \in NcasOf(k)
    BY <1>1 DEF NcasTyped
  <2>2. n[1] = k /\ n[2] \in DOMAIN loads[k].files
    BY <1>1, <2>1, NcaIsFile
  <2>3. ncas[n] \in [sections : SUBSET (FileOf(n).plain \cup FileOf(n).patched),
                     base : DOMAIN ncas \cup {NoNca}, keyed : BOOLEAN]
    BY <1>1 DEF NcasTyped
  <2> QED
    BY <2>2, <2>3
<1>4. \A r \in DOMAIN titleKeys : titleKeys[r] \in KeyStates
  BY <1>1 DEF LoadsInv
<1>5. ASSUME Settled PROVE \A k \in Alive : \A i \in DOMAIN entries[k] : ~ IsNca(entries[k][i])
  <2>1. Live /\ phase # "opened" /\ Tree(entries, ncas, phase)
    BY <1>5 DEF Settled, Live, MountInv
  <2>2. \A k \in Alive : Arranged(k, entries[k], Reach(k, Owned), Parts(k, Owned))
    BY <1>1, <2>1, TreeGives
  <2> QED
    BY <2>2 DEF Arranged
<1> QED
  BY <1>1, <1>2, <1>3, <1>4, <1>5 DEF TypeOK, LoadsInv

LEMMA NothingDanglesFollows ==
  ASSUME MountInv
  PROVE  NothingDangles
<1> SUFFICES ASSUME phase \in {"applied", "mounted"}
             PROVE  /\ Alive = Owned
                    /\ \A e \in Range(entries[1]) : \A s \in Held(e) :
                         s.nca[1] \in Owned /\ ncas[s.nca].base[1] \in Owned \cup {0}
  BY DEF NothingDangles
<1>1. LoadsInv /\ Live /\ Tree(entries, ncas, phase) /\ phase # "opened" /\ phase \notin Pending
  BY DEF MountInv, Live, Pending
<1>2. /\ Arranged(1, entries[1], Reach(1, Owned), Parts(1, Owned))
      /\ KnownInv(ncas, Owned, Alive) /\ 1 \in Owned /\ 1 \in Alive
  BY <1>1, TreeGives
<1>3. Alive = Owned
  <2>1. Owned = OwnedBy(entries[1])
    BY DEF Owned, OwnedBy
  <2> QED
    BY <1>1, <2>1 DEF Tree, TreeFor, AliveInv, Alive
<1>4. ASSUME NEW e \in Range(entries[1]), NEW s \in Held(e)
      PROVE  s.nca[1] \in Owned /\ ncas[s.nca].base[1] \in Owned \cup {0}
  <2>1. entries[1] \in Seq(EntriesOver(NcasOver(Owned), Owned \ {1}))
    BY <1>2 DEF Arranged, Reach, Parts
  <2>2. e \in EntriesOver(NcasOver(Owned), Owned \ {1})
    BY <2>1, LenProperties DEF Range
  <2>3. s.nca \in NcasOver(Owned)
    BY <2>2, EntryHolds
  <2>4. s.nca[1] \in Owned /\ s.nca \in NcasOf(s.nca[1])
    BY <2>3, NcasApart
  <2>5. s.nca \in DOMAIN ncas /\ Home(s.nca[1], Owned) = Owned
    BY <1>2, <1>3, <2>4 DEF KnownInv, Home
  <2>6. ncas[s.nca].base = NoNca \/ ncas[s.nca].base \in NcasOver(Owned)
    BY <1>2, <2>5 DEF KnownInv
  <2>7. NoNca[1] = 0
    BY DEF NoNca
  <2> QED
    BY <2>4, <2>6, <2>7, NcasApart
<1> QED
  BY <1>3, <1>4

\* An NCA that has one place in one of some packages, and none in the others.
LEMMA OnePlace ==
  ASSUME NEW k \in Alive, NEW n, Once(entries[k], n),
         \A j \in Alive \ {k} : Never(entries[j], n)
  PROVE  Cardinality(Places(n)) = 1
<1> PICK i \in DOMAIN entries[k] : \E s \in Held(entries[k][i]) :
      /\ s.nca = n
      /\ \A j \in DOMAIN entries[k] : \A t \in Held(entries[k][j]) :
           t.nca = n => j = i /\ t = s
  BY DEF Once
<1>1. PICK s \in Held(entries[k][i]) :
        /\ s.nca = n
        /\ \A j \in DOMAIN entries[k] : \A t \in Held(entries[k][j]) :
             t.nca = n => j = i /\ t = s
  OBVIOUS
<1>2. \A j \in Alive : \A m \in DOMAIN entries[j] : \A t \in Held(entries[j][m]) :
        t.nca = n => j = k /\ m = i /\ t = s
  BY <1>1 DEF Never
<1>3. Places(n) = {<<k, i, s>>}
  <2>1. ASSUME NEW p \in Places(n) PROVE p = <<k, i, s>>
    <3>1. \E j \in Alive : \E m \in DOMAIN entries[j] :
            p \in {<<j, m, t>> : t \in {u \in Held(entries[j][m]) : u.nca = n}}
      BY <2>1 DEF Places
    <3> QED
      BY <1>2, <3>1
  <2>2. <<k, i, s>> \in Places(n)
    <3>1. <<k, i, s>> \in {<<k, i, t>> : t \in {u \in Held(entries[k][i]) : u.nca = n}}
      BY <1>1
    <3> QED
      BY <1>1, <3>1 DEF Places
  <2> QED
    BY <2>1, <2>2
<1> QED
  BY <1>3, FS_Singleton

LEMMA ContentOnceFollows ==
  ASSUME MountInv
  PROVE  ContentOnce
<1> SUFFICES ASSUME Settled, NEW k \in Alive, NEW i \in DOMAIN loads[k].files,
                    loads[k].files[i].kind = "nca"
             PROVE  Cardinality(Places(<<k, i>>)) = 1
  BY DEF ContentOnce
<1> DEFINE n == <<k, i>>
<1>1. LoadsInv /\ Live /\ Tree(entries, ncas, phase) /\ phase # "opened"
  BY DEF MountInv, Settled, Live
<1>2. /\ \A j \in Alive : Arranged(j, entries[j], Reach(j, Owned), Parts(j, Owned))
      /\ PlacesInv(entries, Owned, Alive) /\ 1 \in Owned /\ 1 \in Alive
  BY <1>1, TreeGives
<1>3. n \in NcasOf(k)
  BY DEF NcasOf
<1> HIDE DEF n
<1>4. \A j \in Alive : n \notin Reach(j, Owned) => Never(entries[j], n)
  BY <1>2, HoldsNone DEF Arranged
<1>5. \A j \in Alive : j # 1 /\ j # k => n \notin Reach(j, Owned)
  BY <1>3, NcasApart DEF Reach
<1>6. CASE k \in Owned \ {1}
  <2>1. InOne(entries[1], entries[k], n)
    BY <1>2, <1>3, <1>6 DEF PlacesInv
  <2>2. \A j \in Alive : j # 1 /\ j # k => Never(entries[j], n)
    BY <1>4, <1>5
  <2>3. CASE Once(entries[1], n) /\ Never(entries[k], n)
    BY <1>2, <2>2, <2>3, OnePlace DEF n
  <2>4. CASE Never(entries[1], n) /\ Once(entries[k], n)
    BY <1>2, <2>2, <2>4, OnePlace DEF n
  <2> QED
    BY <2>1, <2>3, <2>4 DEF InOne
<1>7. CASE k \notin Owned \ {1}
  <2>1. Once(entries[k], n)
    BY <1>2, <1>3, <1>7 DEF PlacesInv
  <2>2. k # 1 => n \notin Reach(1, Owned)
    BY <1>3, <1>7, NcasApart DEF Reach
  <2>3. \A j \in Alive \ {k} : Never(entries[j], n)
    BY <1>2, <1>4, <1>5, <2>2
  <2> QED
    BY <2>1, <2>3, OnePlace DEF n
<1> QED
  BY <1>6, <1>7

-----------------------------------------------------------------------------
LEMMA InitHolds ==
  ASSUME Init
  PROVE  MountInv
<1> PICK base \in Bases : loads = <<base>> /\ entries = <<Constructed(base)>>
  BY DEF Init
<1>1. /\ ncas = <<>> /\ titleKeys \in KeyFiles /\ purpose = "base" /\ phase = "opened"
      /\ base \in Packages
  BY DEF Init, Packages
<1>2. Loaded /\ Last = 1 /\ DOMAIN loads = {1} /\ loads[1] = base /\ DOMAIN entries = {1}
      /\ entries[1] = Constructed(base)
  BY <1>1 DEF Loaded, Last
<1>3. NcasTyped(ncas) /\ DOMAIN ncas = {}
  BY <1>1 DEF NcasTyped
<1>4. titleKeys \in [DOMAIN titleKeys -> KeyStates] /\ Rights \subseteq DOMAIN titleKeys
  BY <1>1, MountAssumption DEF MountAssumption
<1>5. LoadsInv
  BY <1>1, <1>2, <1>3, <1>4, MountAssumption DEF LoadsInv, MountAssumption
<1>6. OwnedBy(entries[1]) = {1}
  <2>1. \A e \in Range(entries[1]) : e.fs = NoFs
    BY <1>2 DEF Constructed, Range
  <2>2. NoFs.kind # "partition"
    BY FsDiffer
  <2> QED
    BY <2>1, <2>2 DEF OwnedBy
<1>7. ReadyOf(entries, phase) = {}
  BY <1>1, <1>2 DEF ReadyOf
<1>8. TreeFor(entries, ncas, phase, {1}, {})
  BY <1>1, <1>2, <1>3 DEF TreeFor, AliveInv, ArrangedInv, PlacesInv, KnownInv, Pending
<1> QED
  BY <1>1, <1>3, <1>5, <1>6, <1>7, <1>8 DEF MountInv, KeysInv, MountsWithKeys, Tree

\* A key that is not at hand does not turn up later: only tickets change a key.
LEMMA KeyStays ==
  ASSUME DOMAIN loads \subseteq DOMAIN loads', \A l \in DOMAIN loads : loads'[l] = loads[l],
         external' = external, NEW k \in DOMAIN loads, NEW r,
         (\A l \in DOMAIN loads : TicketsFor(l, r) = {}) => titleKeys'[r] = titleKeys[r],
         KeyAtHand(k, r)'
  PROVE  KeyAtHand(k, r)
<1>1. \A l \in DOMAIN loads : TicketsFor(l, r)' = TicketsFor(l, r)
  BY DEF TicketsFor
<1>2. loads'[k] = loads[k] /\ TicketsFor(k, r)' = TicketsFor(k, r)
  BY <1>1
<1>3. (\A l \in DOMAIN loads' : TicketsFor(l, r)' = {}) =>
        \A l \in DOMAIN loads : TicketsFor(l, r) = {}
  BY <1>1
<1> HIDE DEF TicketsFor
<1>6. ReadsTicket(k, r)' => ReadsTicket(k, r)
  BY <1>2 DEF ReadsTicket
<1>4. CASE external # NoRights
  BY <1>4 DEF KeyAtHand
<1>5. CASE external = NoRights
  <2>1. \/ /\ ReadsTicket(k, r)'
           /\ \A f \in TicketsFor(k, r)' : f.key = "right"
        \/ /\ \A l \in DOMAIN loads' : TicketsFor(l, r)' = {}
           /\ titleKeys'[r] = "right"
    BY <1>5 DEF KeyAtHand
  <2> QED
    BY <1>2, <1>3, <1>5, <1>6, <2>1 DEF KeyAtHand
<1> QED
  BY <1>4, <1>5

\* What of the packages that were there stays when one is opened.
LEMMA OpenKeeps ==
  ASSUME Loaded, NEW package \in Packages, loads' = Append(loads, package)
  PROVE  /\ Loaded' /\ Last' = Last + 1 /\ Last \in Nat
         /\ DOMAIN loads = 1 .. Last /\ DOMAIN loads' = 1 .. Last + 1
         /\ loads'[Last + 1] = package
         /\ \A k \in DOMAIN loads :
              /\ loads'[k] = loads[k] /\ NcasOf(k)' = NcasOf(k)
              /\ \A n \in NcasOf(k) : FileOf(n)' = FileOf(n)
         /\ \A K \in SUBSET DOMAIN loads : NcasOver(K)' = NcasOver(K)
         /\ \A ns : NcasTyped(ns) => NcasTyped(ns)'
<1>1. loads \in Seq(Packages) /\ Last \in Nat /\ DOMAIN loads = 1 .. Last
  BY LenProperties DEF Loaded, Last
<1>2. /\ loads' \in Seq(Packages) /\ Last' = Last + 1 /\ DOMAIN loads' = 1 .. Last + 1
      /\ loads'[Last + 1] = package /\ \A k \in DOMAIN loads : loads'[k] = loads[k]
  BY <1>1, AppendProperties DEF Last
<1>3. Loaded'
  BY <1>2 DEF Loaded
<1>4. \A k \in DOMAIN loads : NcasOf(k)' = NcasOf(k)
  BY <1>2 DEF NcasOf
<1>5. \A k \in DOMAIN loads : \A n \in NcasOf(k) : FileOf(n)' = FileOf(n)
  BY <1>2, NcasApart DEF FileOf
<1>6. \A K \in SUBSET DOMAIN loads : NcasOver(K)' = NcasOver(K)
  <2> SUFFICES ASSUME NEW K \in SUBSET DOMAIN loads PROVE NcasOver(K)' = NcasOver(K)
    OBVIOUS
  <2>1. \A k \in K : NcasOf(k)' = NcasOf(k)
    BY <1>4
  <2> QED
    BY <2>1 DEF NcasOver
<1>7. ASSUME NEW ns, NcasTyped(ns) PROVE NcasTyped(ns)'
  <2>1. ns = [n \in DOMAIN ns |-> ns[n]]
    BY <1>7 DEF NcasTyped
  <2>2. ASSUME NEW n \in DOMAIN ns
        PROVE  /\ \E k \in DOMAIN loads' : n \in NcasOf(k)'
               /\ ns[n] \in [sections : SUBSET (FileOf(n)'.plain \cup FileOf(n)'.patched),
                             base : DOMAIN ns \cup {NoNca}, keyed : BOOLEAN]
    <3>1. PICK k \in DOMAIN loads : n \in NcasOf(k)
      BY <1>7 DEF NcasTyped
    <3>2. FileOf(n)' = FileOf(n) /\ NcasOf(k)' = NcasOf(k) /\ k \in DOMAIN loads'
      BY <1>1, <1>2, <1>4, <1>5, <3>1
    <3> QED
      BY <1>7, <3>1, <3>2 DEF NcasTyped
  <2> QED
    BY <2>1, <2>2 DEF NcasTyped
<1> QED
  BY <1>1, <1>2, <1>3, <1>4, <1>5, <1>6, <1>7

\* Opening a package leaves the tree alone.
LEMMA OpenHolds ==
  ASSUME MountInv, NEW package \in Packages, NEW use \in {"update", "add-on"}, Open(package, use)
  PROVE  MountInv'
<1>1. /\ LoadsInv /\ Loaded /\ NcasTyped(ncas) /\ Live /\ Tree(entries, ncas, phase)
      /\ phase = "applied" /\ phase # "opened" /\ phase \notin Pending
  BY DEF MountInv, LoadsInv, Live, Open, Pending
<1>2. /\ loads' = Append(loads, package) /\ Last < MaxLoads
      /\ entries' = [k \in Alive \cup {Last + 1} |->
                       IF k \in Alive THEN entries[k] ELSE Constructed(package)]
      /\ purpose' = use /\ phase' = "opened"
      /\ ncas' = ncas /\ titleKeys' = titleKeys /\ external' = external
  BY DEF Open, Last
<1>3. /\ Loaded' /\ Last' = Last + 1 /\ Last \in Nat
      /\ DOMAIN loads = 1 .. Last /\ DOMAIN loads' = 1 .. Last + 1
      /\ loads'[Last + 1] = package
      /\ \A k \in DOMAIN loads :
           /\ loads'[k] = loads[k] /\ NcasOf(k)' = NcasOf(k)
           /\ \A n \in NcasOf(k) : FileOf(n)' = FileOf(n)
      /\ \A K \in SUBSET DOMAIN loads : NcasOver(K)' = NcasOver(K)
      /\ NcasTyped(ncas)'
  <2>1. NcasTyped(ncas) => \A ns : ns = ncas => NcasTyped(ns)'
    BY <1>1, <1>2, OpenKeeps
  <2>2. NcasTyped(ncas)'
    BY <1>1, <1>2, <2>1
  <2> QED
    BY <1>1, <1>2, <2>2, OpenKeeps
<1>4. /\ \A k \in Alive : Arranged(k, entries[k], Reach(k, Owned), Parts(k, Owned))
      /\ Owned \subseteq DOMAIN loads /\ 1 \in Owned /\ 1 \in Alive
      /\ PlacesInv(entries, Owned, Alive) /\ KnownInv(ncas, Owned, Alive)
  BY <1>1, TreeGives
<1>5. Alive = Owned /\ Owned = OwnedBy(entries[1])
  <2>1. Owned = OwnedBy(entries[1])
    BY DEF Owned, OwnedBy
  <2> QED
    BY <1>1, <2>1 DEF Tree, TreeFor, AliveInv, Alive
<1>6. LoadsInv'
  <2>1. Last' # 1 /\ Last' \in Nat \ {0} /\ Last' <= MaxLoads /\ use # "base"
    BY <1>1, <1>2, <1>3, MountAssumption DEF LoadsInv, MountAssumption
  <2>2. titleKeys \in [DOMAIN titleKeys -> KeyStates] /\ Rights \subseteq DOMAIN titleKeys
    BY <1>1 DEF LoadsInv
  <2>3. NcasTyped(ncas)'
    BY <1>3
  <2>4. purpose' \in {"base", "update", "add-on"} /\ purpose' # "base" /\ phase' = "opened"
    BY <1>2, <2>1
  <2> QED
    BY <1>2, <1>3, <2>1, <2>2, <2>3, <2>4 DEF LoadsInv
<1>7. KeysInv(ncas)'
  <2> SUFFICES ASSUME NEW n \in DOMAIN ncas, ~ ncas[n].keyed
               PROVE  FileOf(n)'.rights # NoRights /\ ~ KeyAtHand(n[1], FileOf(n).rights)'
    BY <1>2 DEF KeysInv
  <2>1. PICK k \in DOMAIN loads : n \in NcasOf(k)
    BY <1>1 DEF NcasTyped
  <2>2. FileOf(n)' = FileOf(n) /\ n[1] = k /\ n[1]' = k
    BY <1>3, <2>1, NcasApart
  <2>3. FileOf(n).rights # NoRights /\ ~ KeyAtHand(k, FileOf(n).rights)
    BY <2>2 DEF KeysInv, MountInv
  <2> DEFINE r == FileOf(n).rights
  <2>4. DOMAIN loads \subseteq DOMAIN loads' /\ \A l \in DOMAIN loads : loads'[l] = loads[l]
    BY <1>3
  <2>5. PICK q : q = r
    OBVIOUS
  <2>6. ~ KeyAtHand(k, q)
    BY <2>3, <2>5
  <2>7. ~ KeyAtHand(k, q)'
    BY <1>2, <2>1, <2>4, <2>6, KeyStays
  <2> QED
    BY <2>2, <2>3, <2>5, <2>7
<1>8. Tree(entries, ncas, phase)'
  <2> PICK E, K : E = entries' /\ K = Owned
    OBVIOUS
  <2>1. /\ DOMAIN E = K \cup {Last + 1} /\ \A k \in K : E[k] = entries[k]
        /\ Last + 1 \notin K /\ E[Last + 1] = Constructed(package)
        /\ 1 \in K /\ K \in SUBSET DOMAIN loads
    BY <1>2, <1>3, <1>4, <1>5
  <2>2. OwnedBy(E[1]) = K
    BY <1>5, <2>1
  <2>3. ReadyOf(E, "opened")' = K
    BY <1>3, <2>1 DEF ReadyOf
  <2>4. AliveInv(E, "opened", K)'
    BY <1>3, <2>1 DEF AliveInv, Pending
  <2>5. \A k \in K : Reach(k, K)' = Reach(k, K)
    <3>1. \A k \in K : NcasOf(k)' = NcasOf(k)
      BY <1>3, <2>1
    <3>2. NcasOver(K)' = NcasOver(K)
      BY <1>3, <2>1
    <3> QED
      BY <3>1, <3>2 DEF Reach
  <2>6. ArrangedInv(E, K, K)'
    <3> SUFFICES ASSUME NEW k \in K PROVE Arranged(k, E[k], Reach(k, K), Parts(k, K))'
      BY DEF ArrangedInv
    <3>1. Arranged(k, E[k], Reach(k, K), Parts(k, K))
      BY <1>4, <1>5, <2>1
    <3>2. loads'[k] = loads[k] /\ Reach(k, K)' = Reach(k, K)
      BY <1>3, <2>1, <2>5
    <3> QED
      BY <3>1, <3>2 DEF Arranged
  <2>7. PlacesInv(E, K, K)'
    <3> SUFFICES ASSUME NEW k \in K, NEW n \in NcasOf(k)
                 PROVE  IF k \in K \ {1} THEN InOne(E[1], E[k], n) ELSE Once(E[k], n)
      <4>1. \A k \in K : NcasOf(k)' = NcasOf(k)
        BY <1>3, <2>1
      <4> QED
        BY <4>1 DEF PlacesInv
    <3> QED
      BY <1>4, <1>5, <2>1 DEF PlacesInv
  <2>8. KnownInv(ncas, K, K)'
    <3>1. \A k \in K : NcasOf(k)' \subseteq DOMAIN ncas
      BY <1>3, <1>4, <1>5, <2>1 DEF KnownInv
    <3>2. ASSUME NEW n \in DOMAIN ncas
          PROVE  ncas[n].base = NoNca \/ ncas[n].base \in NcasOver(Home(n[1], K))'
      <4>1. n[1] \in DOMAIN loads
        BY <1>1, NcasApart DEF NcasTyped
      <4>2. Home(n[1], K) \in SUBSET DOMAIN loads
        BY <2>1, <4>1 DEF Home
      <4>3. NcasOver(Home(n[1], K))' = NcasOver(Home(n[1], K))
        BY <1>3, <4>2
      <4> QED
        BY <1>4, <4>3 DEF KnownInv
    <3> QED
      BY <1>2, <3>1, <3>2 DEF KnownInv
  <2>9. TreeFor(E, ncas, "opened", K, K)'
    BY <2>4, <2>6, <2>7, <2>8 DEF TreeFor
  <2> QED
    BY <1>2, <2>2, <2>3, <2>9 DEF Tree
<1> QED
  BY <1>2, <1>6, <1>7, <1>8 DEF MountInv, MountsWithKeys

\* The entries of a package that was just opened.
LEMMA ConstructedIsSeq ==
  ASSUME Loaded, NEW k \in DOMAIN loads, NEW es, es = Constructed(loads[k])
  PROVE  /\ es \in Seq(EntriesOver({}, {}))
         /\ \A i \in DOMAIN es : i \in DOMAIN loads[k].files
<1> DEFINE files == loads[k].files
<1>1. /\ Len(files) \in Nat /\ DOMAIN files = 1 .. Len(files)
      /\ \A i \in DOMAIN files : files[i] \in AllFiles /\ IsFile(files[i])
  BY FilesLoaded
<1>2. es = [i \in 1 .. Len(files) |-> [name |-> <<files[i].kind, files[i].id>>, fs |-> NoFs]]
  BY <1>1 DEF Constructed
<1> HIDE DEF files
<1>3. ASSUME NEW i \in 1 .. Len(files)
      PROVE  [name |-> <<files[i].kind, files[i].id>>, fs |-> NoFs] \in EntriesOver({}, {})
  <2>1. <<files[i].kind, files[i].id>> \in FileNames
    BY <1>1 DEF IsFile, Ids, FileNames
  <2> QED
    BY <2>1 DEF EntriesOver, FileEntries
<1>4. es \in [1 .. Len(files) -> EntriesOver({}, {})] /\ DOMAIN es = DOMAIN files
  BY <1>1, <1>2, <1>3
<1> QED
  BY <1>1, <1>4, FunctionIsSeq DEF files

\* The rights that an NCA wants are among those that title.keys may name.
LEMMA RightsKnown ==
  ASSUME Loaded, NEW k \in DOMAIN loads, NEW n \in NcasOf(k), FileOf(n).rights # NoRights
  PROVE  FileOf(n).rights \in Rights
<1>1. FileOf(n).kind = "nca" /\ n[2] \in DOMAIN loads[k].files
      /\ FileOf(n) = loads[k].files[n[2]]
  BY NcaIsFile
<1>2. FileOf(n) \in Range(loads[k].files) /\ loads[k] \in Packages
  BY <1>1, FilesLoaded DEF Range
<1> QED
  BY <1>1, <1>2 DEF Rights

\* NCAs that could not be read before are still of packages whose keys are not at hand.
LEMMA KeysInvStays ==
  ASSUME LoadsInv, KeysInv(ncas), loads' = loads, external' = external,
         \A r \in Rights :
           (\A l \in DOMAIN loads : TicketsFor(l, r) = {}) => titleKeys'[r] = titleKeys[r]
  PROVE  \A n \in DOMAIN ncas :
           ~ ncas[n].keyed =>
             FileOf(n).rights # NoRights /\ ~ KeyAtHand(n[1], FileOf(n).rights)'
<1> SUFFICES ASSUME NEW n \in DOMAIN ncas, ~ ncas[n].keyed
             PROVE  FileOf(n).rights # NoRights /\ ~ KeyAtHand(n[1], FileOf(n).rights)'
  OBVIOUS
<1>1. PICK k \in DOMAIN loads : n \in NcasOf(k)
  BY DEF LoadsInv, NcasTyped
<1>2. n[1] = k /\ Loaded
  BY <1>1, NcasApart DEF LoadsInv
<1>3. PICK r : r = FileOf(n).rights
  OBVIOUS
<1>4. r # NoRights /\ ~ KeyAtHand(k, r)
  BY <1>2, <1>3 DEF KeysInv
<1>5. r \in Rights
  BY <1>1, <1>2, <1>3, <1>4, RightsKnown
<1>6. ~ KeyAtHand(k, r)'
  BY <1>4, <1>5, KeyStays
<1>7. FileOf(n)' = FileOf(n)
  BY LoadsSame
<1> QED
  BY <1>2, <1>3, <1>4, <1>6, <1>7

\* An NCA of a new package finds its key, or it is not at hand.
LEMMA NewKeys ==
  ASSUME LoadsInv, NEW k \in DOMAIN loads, entries[k] = Constructed(loads[k]),
         loads' = loads, external' = external, titleKeys' = ParseTickets(k),
         NEW n \in NcasOf(k), ~ KeyFits(n, titleKeys')
  PROVE  FileOf(n).rights # NoRights /\ ~ KeyAtHand(k, FileOf(n).rights)'
<1>1. PICK r : r = FileOf(n).rights
  OBVIOUS
<1>2. /\ r # NoRights
      /\ external # NoRights => r # external
      /\ external = NoRights => titleKeys'[r] # "right"
  BY <1>1 DEF KeyFits
<1>3. Loaded /\ titleKeys \in [DOMAIN titleKeys -> KeyStates] /\ r \in DOMAIN titleKeys
  BY <1>1, <1>2, RightsKnown DEF LoadsInv
<1>4. ASSUME external = NoRights
      PROVE  ~ (/\ ReadsTicket(k, r)
                /\ \A f \in TicketsFor(k, r) : f.key = "right")
  BY <1>2, <1>3, <1>4, OwnTicketsWin
<1>5. TicketsFor(k, r)' = TicketsFor(k, r) /\ ReadsTicket(k, r)' = ReadsTicket(k, r)
  BY DEF TicketsFor, ReadsTicket
<1>6. ~ KeyAtHand(k, r)'
  BY <1>2, <1>4, <1>5 DEF KeyAtHand
<1>7. FileOf(n)' = FileOf(n)
  BY LoadsSame
<1> QED
  BY <1>1, <1>2, <1>6, <1>7

\* The process comes to its end over a key that is not at hand.
LEMMA ThrowsOverKeys ==
  ASSUME LoadsInv, loads' = loads, NEW ns, Throws(ns), NcasTyped(ns),
         \A n \in DOMAIN ns :
           ~ ns[n].keyed =>
             FileOf(n).rights # NoRights /\ ~ KeyAtHand(n[1], FileOf(n).rights)'
  PROVE  MountsWithKeys'
<1>1. PICK n \in DOMAIN ns : ~ ns[n].keyed
  BY DEF Throws
<1>2. PICK k \in DOMAIN loads : n \in NcasOf(k)
  BY DEF NcasTyped
<1>3. n[1] = k /\ FileOf(n) \in Range(loads[k].files) /\ FileOf(n).kind = "nca"
  <2>1. n[1] = k /\ n[2] \in DOMAIN loads[k].files
        /\ FileOf(n) = loads[k].files[n[2]] /\ FileOf(n).kind = "nca"
    BY <1>2, NcaIsFile DEF LoadsInv
  <2> QED
    BY <2>1 DEF Range
<1>4. PICK f : f = FileOf(n)
  OBVIOUS
<1>5. f.rights # NoRights /\ ~ KeyAtHand(k, f.rights)'
  <2>1. FileOf(n)' = FileOf(n)
    BY LoadsSame
  <2> QED
    BY <1>1, <1>3, <1>4, <2>1
<1>6. k \in DOMAIN loads' /\ f \in Range(loads'[k].files) /\ f.kind = "nca"
  BY <1>3, <1>4
<1> QED
  BY <1>5, <1>6 DEF MountsWithKeys

\* init() of the last package that was opened.
LEMMA InitializeHolds ==
  ASSUME MountInv, Initialize
  PROVE  MountInv'
<1>k. PICK k, N, K : k = Last /\ N = NcasOf(k) /\ K = OwnedBy(entries[1])
  OBVIOUS
<1>t. PICK keys : keys = ParseTickets(k)
  OBVIOUS
<1>e. PICK es, known : es = Rearranged(Processed(k)) /\ known = WithNew(k, keys)
  OBVIOUS
<1>n. PICK ns : ns = TryApplyUpdate(es, es, TRUE, known).ncas
  OBVIOUS
<1>1. /\ LoadsInv /\ Loaded /\ NcasTyped(ncas) /\ KeysInv(ncas)
      /\ phase = "opened" /\ Tree(entries, ncas, phase)
      /\ titleKeys \in [DOMAIN titleKeys -> KeyStates] /\ Rights \subseteq DOMAIN titleKeys
      /\ k \in DOMAIN loads
  <2>1. phase = "opened" /\ Live
    BY DEF Initialize, Live
  <2>2. k \in DOMAIN loads
    BY <1>k, LenProperties DEF MountInv, LoadsInv, Loaded, Last
  <2> QED
    BY <2>1, <2>2 DEF MountInv, LoadsInv
<1>2. /\ loads' = loads /\ external' = external /\ purpose' = purpose /\ titleKeys' = keys
      /\ IF Throws(TryApplyUpdate(es, es, TRUE, known).ncas)
         THEN phase' = "terminated" /\ UNCHANGED <<entries, ncas>>
         ELSE /\ phase' = IF purpose = "base" THEN "applied" ELSE "initialized"
              /\ entries' = [entries EXCEPT ![k] = TryApplyUpdate(es, es, TRUE, known).es]
              /\ ncas' = TryApplyUpdate(es, es, TRUE, known).ncas
  BY <1>k, <1>t, <1>e DEF Initialize, InitFileSystem, Last
<1>3. /\ AliveInv(entries, "opened", K) /\ ArrangedInv(entries, K, DOMAIN entries \ {k})
      /\ PlacesInv(entries, K, DOMAIN entries \ {k}) /\ KnownInv(ncas, K, DOMAIN entries \ {k})
  BY <1>k, <1>1 DEF Tree, TreeFor, ReadyOf
<1>4. /\ entries[k] = Constructed(loads[k]) /\ k \in DOMAIN entries
      /\ K \subseteq DOMAIN loads /\ DOMAIN entries = K \cup {k} /\ 1 \in K
      /\ k # 1 => k \notin K
  BY <1>k, <1>3 DEF AliveInv, Pending, OwnedBy
<1>5. IsFresh(k, Processed(k)) /\ N = NewNcas(k)
  BY <1>k, <1>1, <1>4, ProcessedIsFresh
<1>6. Arranged(k, es, N, {}) /\ \A n \in N : Once(es, n)
  BY <1>k, <1>e, <1>1, <1>5, RearrangedHolds
<1>7. /\ keys \in [DOMAIN titleKeys -> KeyStates]
      /\ \A r \in DOMAIN titleKeys : TicketsFor(k, r) = {} => keys[r] = titleKeys[r]
  <2>1. entries[k] \in Seq(EntriesOver({}, {}))
        /\ \A i \in DOMAIN entries[k] : i \in DOMAIN loads[k].files
    BY <1>1, <1>4, ConstructedIsSeq
  <2> QED
    BY <1>t, <1>1, <2>1, TicketsHold
<1>8. /\ NcasTyped(known) /\ DOMAIN known = DOMAIN ncas \cup N
      /\ \A n \in N : known[n].base = NoNca /\ known[n].keyed = KeyFits(n, keys)
      /\ \A n \in DOMAIN ncas \ N : known[n] = ncas[n]
  <2>1. Loaded /\ k \in DOMAIN loads /\ NcasTyped(ncas)
    BY <1>1
  <2>2. N = NewNcas(k) /\ N \subseteq NcasOf(k)
    BY <1>k, <1>5
  <2>3. /\ NcasTyped(WithNew(k, keys)) /\ DOMAIN WithNew(k, keys) = DOMAIN ncas \cup N
        /\ \A n \in N : /\ WithNew(k, keys)[n].base = NoNca
                        /\ WithNew(k, keys)[n].keyed = KeyFits(n, keys)
        /\ \A n \in DOMAIN ncas \ N : WithNew(k, keys)[n] = ncas[n]
    BY <2>1, <2>2, NewHolds
  <2> QED
    BY <1>e, <2>3
<1>9. TryApplyUpdate(es, es, TRUE, known).es = es /\ Grown(known, ns, N, N)
  <2>1. N \subseteq NcasOver(DOMAIN loads) /\ N \subseteq DOMAIN known
    BY <1>k, <1>1, <1>8 DEF NcasOver
  <2>2. es \in Seq(EntriesOver(N, {}))
    BY <1>6 DEF Arranged
  <2>3. /\ TryApplyUpdate(es, es, TRUE, known).es = es
        /\ Grown(known, TryApplyUpdate(es, es, TRUE, known).ncas, N, N)
    <3>1. Loaded /\ NcasTyped(known)
      BY <1>1, <1>8
    <3> QED
      BY <2>1, <2>2, <3>1, SelfUpdateHolds
  <2> QED
    BY <1>n, <2>3
<1>10. \A n \in DOMAIN ncas :
         ~ ncas[n].keyed => FileOf(n).rights # NoRights /\ ~ KeyAtHand(n[1], FileOf(n).rights)'
  BY <1>1, <1>2, <1>7, KeysInvStays
<1>11. \A n \in DOMAIN ns :
         ~ ns[n].keyed => FileOf(n).rights # NoRights /\ ~ KeyAtHand(n[1], FileOf(n).rights)'
  <2> SUFFICES ASSUME NEW n \in DOMAIN ns, ~ ns[n].keyed
               PROVE  FileOf(n).rights # NoRights /\ ~ KeyAtHand(n[1], FileOf(n).rights)'
    OBVIOUS
  <2>1. n \in DOMAIN known /\ ~ known[n].keyed
    BY <1>9 DEF Grown
  <2>2. CASE n \in N
    <3>1. n[1] = k
      BY <1>k, <2>2, NcasApart
    <3>2. ~ KeyFits(n, titleKeys')
      BY <1>2, <1>8, <2>1, <2>2
    <3>3. FileOf(n).rights # NoRights /\ ~ KeyAtHand(k, FileOf(n).rights)'
      BY <1>k, <1>t, <1>1, <1>2, <1>4, <2>2, <3>2, NewKeys
    <3> QED
      BY <3>1, <3>3
  <2>3. CASE n \notin N
    BY <1>8, <1>10, <2>1, <2>3
  <2> QED
    BY <2>2, <2>3
<1>12. NcasTyped(ns) /\ DOMAIN ns = DOMAIN ncas \cup N
  BY <1>8, <1>9 DEF Grown
<1>13. \A n : FileOf(n)' = FileOf(n)
  BY <1>2, LoadsSame
<1>14. CASE Throws(ns)
  <2>1. phase' = "terminated" /\ entries' = entries /\ ncas' = ncas
    BY <1>n, <1>2, <1>14
  <2>2. KeysInv(ncas)'
    BY <1>10, <1>13, <2>1 DEF KeysInv
  <2>3. MountsWithKeys'
    BY <1>1, <1>2, <1>11, <1>12, <1>14, ThrowsOverKeys
  <2>4. LoadsInv'
    <3>1. Loaded' /\ Last' = Last /\ NcasTyped(ncas)'
      BY <1>1, <1>2, <2>1, LoadsSame
    <3> QED
      BY <1>1, <1>2, <1>7, <2>1, <3>1 DEF LoadsInv
  <2> QED
    BY <2>1, <2>2, <2>3, <2>4 DEF MountInv, Live
<1>15. CASE ~ Throws(ns)
  <2>e. PICK E, ph : E = [entries EXCEPT ![k] = es]
                   /\ ph = IF purpose = "base" THEN "applied" ELSE "initialized"
    OBVIOUS
  <2>1. phase' = ph /\ entries' = E /\ ncas' = ns
    BY <1>n, <2>e, <1>2, <1>9, <1>15
  <2>2. KeysInv(ncas)'
    BY <1>11, <1>13, <2>1 DEF KeysInv
  <2>3. LoadsInv'
    <3>1. Loaded' /\ Last' = Last /\ NcasTyped(ncas)'
      BY <1>2, <1>12, <2>1, LoadsSame, <1>1
    <3> QED
      BY <1>1, <1>2, <1>7, <2>1, <3>1 DEF LoadsInv
  <2>4. /\ DOMAIN E = K \cup {k} /\ E[k] = es
        /\ \A j \in K : j # k => E[j] = entries[j]
    BY <2>e, <1>4
  <2>5. \A n \in DOMAIN ns :
          \/ ns[n].base = NoNca
          \/ n \in N /\ ns[n].base \in N
          \/ n \in DOMAIN ncas \ N /\ ns[n].base = ncas[n].base
    <3>1. \A n \in DOMAIN known : ns[n].base = known[n].base \/ (n \in N /\ ns[n].base \in N)
      BY <1>9 DEF Grown
    <3> QED
      BY <1>8, <1>12, <3>1
  <2>6. Tree(E, ns, ph)
    <3>1. CASE k = 1
      <4>1. ph = "applied" /\ DOMAIN loads = {1}
        <5>1. purpose = "base" /\ Last = 1
          BY <1>k, <1>1, <3>1 DEF LoadsInv
        <5>2. DOMAIN loads = 1 .. Last
          BY <1>1, LenProperties DEF Loaded, Last
        <5> QED
          BY <2>e, <5>1, <5>2
      <4>2. OwnedBy(E[1]) = {1} /\ K = {1}
        <5>1. es \in Seq(EntriesOver(N, {}))
          BY <1>6 DEF Arranged
        <5>2. OwnedBy(es) = {1}
          BY <5>1, OwnedFacts
        <5> QED
          BY <1>k, <1>4, <2>4, <3>1, <4>1, <5>2
      <4>3. NcasOver({1}) = N
        BY <1>k, <3>1 DEF NcasOver
      <4>4. AliveInv(E, ph, {1}) /\ ReadyOf(E, ph) = {1}
        BY <2>4, <3>1, <4>1, <4>2 DEF AliveInv, ReadyOf, Pending
      <4>5. ArrangedInv(E, {1}, {1})
        BY <1>6, <2>4, <3>1, <4>3 DEF ArrangedInv, Reach, Parts
      <4>6. PlacesInv(E, {1}, {1})
        BY <1>k, <1>6, <2>4, <3>1 DEF PlacesInv
      <4>7. KnownInv(ns, {1}, {1})
        <5>1. \A n \in DOMAIN ns : n \in N /\ n[1] = 1
          BY <1>k, <1>12, <3>1, <4>1, NcasApart DEF NcasTyped
        <5>2. Home(1, {1}) = {1}
          BY DEF Home
        <5>3. NcasOf(1) = N
          BY <1>k, <3>1
        <5> QED
          BY <1>12, <2>5, <4>3, <5>1, <5>2, <5>3 DEF KnownInv
      <4> QED
        BY <4>2, <4>4, <4>5, <4>6, <4>7 DEF Tree, TreeFor
    <3>2. CASE k # 1
      <4>1. ph = "initialized" /\ k \notin K
        BY <1>k, <2>e, <1>1, <1>4, <3>2 DEF LoadsInv
      <4>2. OwnedBy(E[1]) = K /\ E[1] = entries[1] /\ ReadyOf(E, ph) = K \cup {k}
        BY <1>k, <1>4, <2>4, <3>2, <4>1 DEF ReadyOf
      <4>3. AliveInv(E, ph, K)
        BY <1>k, <1>4, <2>4, <4>1 DEF AliveInv, Pending
      <4>4. DOMAIN entries \ {k} = K
        BY <1>4, <4>1
      <4>5. ArrangedInv(E, K, K \cup {k})
        BY <1>k, <1>3, <1>6, <2>4, <3>2, <4>1, <4>4 DEF ArrangedInv, Reach, Parts
      <4>6. PlacesInv(E, K, K \cup {k})
        BY <1>k, <1>3, <1>6, <2>4, <4>1, <4>2, <4>4 DEF PlacesInv
      <4>7. KnownInv(ns, K, K \cup {k})
        <5>1. \A j \in K \cup {k} : NcasOf(j) \subseteq DOMAIN ns
          BY <1>k, <1>3, <1>12, <4>4 DEF KnownInv
        <5>2. \A n \in N : Home(n[1], K) = {k} /\ NcasOver({k}) = N
          BY <1>k, <4>1, NcasApart DEF Home, NcasOver
        <5>3. \A n \in DOMAIN ncas :
                ncas[n].base = NoNca \/ ncas[n].base \in NcasOver(Home(n[1], K))
          BY <1>3 DEF KnownInv
        <5>4. \A n \in DOMAIN ns : ns[n].base = NoNca \/ ns[n].base \in NcasOver(Home(n[1], K))
          BY <2>5, <5>2, <5>3
        <5> QED
          BY <5>1, <5>4 DEF KnownInv
      <4> QED
        BY <4>2, <4>3, <4>5, <4>6, <4>7 DEF Tree, TreeFor
    <3> QED
      BY <3>1, <3>2
  <2>7. Tree(entries, ncas, phase)'
    BY <1>2, <2>1, <2>6, LoadsSame
  <2>8. ph # "terminated"
    BY <2>e
  <2> QED
    BY <2>1, <2>2, <2>3, <2>7, <2>8 DEF MountInv, MountsWithKeys
<1> QED
  BY <1>14, <1>15

\* FUSE's init() of a partition reads and renames nothing: entries and NCAs are those
\* that Setup's left.
LEMMA SecondInit ==
  ASSUME MountInv, phase = "applied"
  PROVE  /\ entries[1] \in Seq(EntriesOver(NcasOver(Owned), Owned \ {1}))
         /\ Rearranged(Processed(1)) = entries[1]
         /\ \A keys : WithNew(1, keys) = ncas
         /\ Alive = Owned /\ Owned \subseteq DOMAIN loads /\ KnownInv(ncas, Owned, Alive)
         /\ PlacesInv(entries, Owned, Alive)
<1>k. PICK K, N, es : K = Owned /\ N = NcasOver(K) /\ es = entries[1]
  OBVIOUS
<1>1. /\ LoadsInv /\ Loaded /\ NcasTyped(ncas) /\ phase # "opened" /\ Live
      /\ Tree(entries, ncas, phase)
  BY DEF MountInv, LoadsInv, Live
<1>2. /\ Arranged(1, es, N, K \ {1}) /\ 1 \in DOMAIN loads /\ 1 \in Alive
      /\ K \subseteq DOMAIN loads /\ KnownInv(ncas, K, Alive) /\ PlacesInv(entries, K, Alive)
  BY <1>k, <1>1, TreeGives DEF Reach, Parts
<1>3. Alive = K
  <2>1. K = OwnedBy(entries[1])
    BY <1>k DEF Owned, OwnedBy
  <2> QED
    BY <1>1, <2>1 DEF Tree, TreeFor, AliveInv, Alive, Pending
<1>4. New(1) = {}
  BY <1>k, <1>2 DEF Arranged, New
<1>5. es \in Seq(EntriesOver(N, K \ {1})) /\ \A i \in DOMAIN es : ~ IsNca(es[i])
  BY <1>2 DEF Arranged
<1>6. Processed(1) = es
  <2>1. Processed(1) = [i \in DOMAIN es |-> es[i]]
    BY <1>k, <1>4 DEF Processed
  <2>2. es = [i \in DOMAIN es |-> es[i]]
    BY <1>5, SeqDef
  <2> QED
    BY <2>1, <2>2
<1>7. Rearranged(Processed(1)) = es
  BY <1>5, <1>6, ArrangedStays
<1>8. ASSUME NEW keys PROVE WithNew(1, keys) = ncas
  <2>1. WithNew(1, keys) = [n \in DOMAIN ncas |-> ncas[n]]
    BY <1>4 DEF WithNew
  <2> QED
    BY <1>1, <2>1 DEF NcasTyped
<1> QED
  BY <1>k, <1>2, <1>3, <1>5, <1>7, <1>8

\* FUSE's init() of a partition finds nothing new and leaves the tree as it is.
LEMMA MountPartitionHolds ==
  ASSUME MountInv, MountPartition
  PROVE  /\ MountInv'
         /\ phase' = "mounted" =>
              /\ entries'[1] = entries[1] /\ DOMAIN ncas' = DOMAIN ncas
              /\ \A n \in DOMAIN ncas : ncas[n].sections \subseteq ncas'[n].sections
<1>k. PICK K, N, es : K = Owned /\ N = NcasOver(K) /\ es = entries[1]
  OBVIOUS
<1>t. PICK keys : keys = ParseTickets(1)
  OBVIOUS
<1>n. PICK ns : ns = TryApplyUpdate(es, es, TRUE, ncas).ncas
  OBVIOUS
<1>1. /\ LoadsInv /\ Loaded /\ NcasTyped(ncas) /\ KeysInv(ncas)
      /\ phase = "applied" /\ phase # "opened" /\ Live /\ Tree(entries, ncas, phase)
      /\ titleKeys \in [DOMAIN titleKeys -> KeyStates] /\ Rights \subseteq DOMAIN titleKeys
  BY DEF MountPartition, MountInv, LoadsInv, Live
<1>2. /\ Arranged(1, es, N, K \ {1}) /\ 1 \in DOMAIN loads /\ 1 \in Alive
      /\ K \subseteq DOMAIN loads /\ KnownInv(ncas, K, Alive)
  BY <1>k, <1>1, TreeGives DEF Reach, Parts
<1>3. Alive = K /\ K = OwnedBy(entries[1])
  BY <1>k, <1>1, SecondInit DEF Owned, OwnedBy
<1>6. Rearranged(Processed(1)) = es /\ WithNew(1, keys) = ncas
  BY <1>k, <1>1, SecondInit
<1>8. /\ loads' = loads /\ external' = external /\ purpose' = purpose /\ titleKeys' = keys
      /\ IF Throws(TryApplyUpdate(es, es, TRUE, ncas).ncas)
         THEN phase' = "terminated" /\ UNCHANGED <<entries, ncas>>
         ELSE /\ phase' = "mounted"
              /\ entries' = [entries EXCEPT ![1] = TryApplyUpdate(es, es, TRUE, ncas).es]
              /\ ncas' = TryApplyUpdate(es, es, TRUE, ncas).ncas
  BY <1>t, <1>6 DEF MountPartition, InitFileSystem
<1>9. TryApplyUpdate(es, es, TRUE, ncas).es = es /\ Grown(ncas, ns, N, N)
  <2>1. N \subseteq NcasOver(DOMAIN loads) /\ N \subseteq DOMAIN ncas
    BY <1>k, <1>2, <1>3 DEF NcasOver, KnownInv
  <2>2. es \in Seq(EntriesOver(N, K \ {1}))
    BY <1>2 DEF Arranged
  <2>3. /\ TryApplyUpdate(es, es, TRUE, ncas).es = es
        /\ Grown(ncas, TryApplyUpdate(es, es, TRUE, ncas).ncas, N, N)
    BY <1>1, <2>1, <2>2, SelfUpdateHolds
  <2> QED
    BY <1>n, <2>3
<1>10. /\ keys \in [DOMAIN titleKeys -> KeyStates]
       /\ \A r \in DOMAIN titleKeys : TicketsFor(1, r) = {} => keys[r] = titleKeys[r]
  <2>1. /\ entries[1] \in Seq(EntriesOver(N, K \ {1}))
        /\ \A i \in DOMAIN entries[1] :
             entries[1][i].name \in FileNames => i \in DOMAIN loads[1].files
    BY <1>k, <1>2 DEF Arranged
  <2> QED
    BY <1>t, <1>1, <1>2, <2>1, TicketsHold
<1>11. \A n \in DOMAIN ncas :
         ~ ncas[n].keyed => FileOf(n).rights # NoRights /\ ~ KeyAtHand(n[1], FileOf(n).rights)'
  BY <1>1, <1>2, <1>8, <1>10, KeysInvStays
<1>12. NcasTyped(ns) /\ DOMAIN ns = DOMAIN ncas
       /\ \A n \in DOMAIN ncas : ns[n].keyed = ncas[n].keyed
  BY <1>9 DEF Grown
<1>13. \A n \in DOMAIN ns :
         ~ ns[n].keyed => FileOf(n).rights # NoRights /\ ~ KeyAtHand(n[1], FileOf(n).rights)'
  BY <1>11, <1>12
<1>14. Loaded' /\ Last' = Last /\ NcasTyped(ncas)' /\ \A n : FileOf(n)' = FileOf(n)
  <2>1. ncas' = ncas \/ ncas' = ns
    BY <1>n, <1>8
  <2> QED
    BY <1>1, <1>8, <1>12, <2>1, LoadsSame
<1>15. LoadsInv'
  <2>1. phase' \in {"terminated", "mounted"}
    BY <1>8
  <2> QED
    BY <1>1, <1>8, <1>10, <1>14, <2>1 DEF LoadsInv
<1>16. CASE Throws(ns)
  <2>1. phase' = "terminated" /\ entries' = entries /\ ncas' = ncas
    BY <1>n, <1>8, <1>16
  <2>2. KeysInv(ncas)'
    BY <1>11, <1>14, <2>1 DEF KeysInv
  <2>3. MountsWithKeys'
    BY <1>1, <1>8, <1>12, <1>13, <1>16, ThrowsOverKeys
  <2> QED
    BY <1>15, <2>1, <2>2, <2>3 DEF MountInv, Live
<1>17. CASE ~ Throws(ns)
  <2>e. PICK E : E = [entries EXCEPT ![1] = es]
    OBVIOUS
  <2>1. phase' = "mounted" /\ entries' = E /\ ncas' = ns
    BY <1>n, <2>e, <1>8, <1>9, <1>17
  <2>2. DOMAIN E = K /\ \A j \in K : E[j] = entries[j]
    BY <1>k, <2>e, <1>3 DEF Alive
  <2>3. KeysInv(ncas)'
    BY <1>13, <1>14, <2>1 DEF KeysInv
  <2>4. Tree(E, ns, "mounted")
    <3>1. /\ AliveInv(entries, "applied", K) /\ ArrangedInv(entries, K, K)
          /\ PlacesInv(entries, K, K) /\ KnownInv(ncas, K, K)
      BY <1>1, <1>3 DEF Tree, TreeFor, ReadyOf, Alive
    <3>2. 1 \in K
      BY <1>3 DEF OwnedBy
    <3>3. OwnedBy(E[1]) = K /\ ReadyOf(E, "mounted") = K
      BY <1>3, <2>2, <3>2 DEF ReadyOf
    <3>4. AliveInv(E, "mounted", K)
      BY <2>2, <3>1 DEF AliveInv, Pending
    <3>5. ArrangedInv(E, K, K) /\ PlacesInv(E, K, K)
      BY <2>2, <3>1, <3>2 DEF ArrangedInv, PlacesInv
    <3>6. KnownInv(ns, K, K)
      <4>1. \A n \in DOMAIN ncas : ns[n].base = ncas[n].base \/ (n \in N /\ ns[n].base \in N)
        BY <1>9 DEF Grown
      <4>2. \A n \in N : Home(n[1], K) = K
        BY <1>k, NcasApart DEF Home
      <4> QED
        BY <1>k, <1>12, <3>1, <4>1, <4>2 DEF KnownInv
    <3> QED
      BY <3>3, <3>4, <3>5, <3>6 DEF Tree, TreeFor
  <2>5. Tree(entries, ncas, phase)'
    BY <1>8, <2>1, <2>4, LoadsSame
  <2>6. /\ entries'[1] = entries[1] /\ DOMAIN ncas' = DOMAIN ncas
        /\ \A n \in DOMAIN ncas : ncas[n].sections \subseteq ncas'[n].sections
    <3>1. \A n \in DOMAIN ncas : ncas[n].sections \subseteq ns[n].sections
      BY <1>9 DEF Grown
    <3>2. 1 \in K
      BY <1>3 DEF OwnedBy
    <3> QED
      BY <1>12, <2>1, <2>2, <3>1, <3>2
  <2> QED
    BY <1>15, <2>1, <2>3, <2>5, <2>6 DEF MountInv, MountsWithKeys
<1> QED
  BY <1>8, <1>16, <1>17

-----------------------------------------------------------------------------
\* When a package waits: the base and the packages it owns, and the one that waits.
LEMMA WaitingHolds ==
  ASSUME MountInv, phase = "initialized", NEW k, k = Last, NEW K, K = Owned
  PROVE  /\ Loaded /\ NcasTyped(ncas) /\ k \in DOMAIN loads /\ K \subseteq DOMAIN loads
         /\ 1 \in K /\ k # 1 /\ k \notin K /\ Alive = K \cup {k} /\ K = OwnedBy(entries[1])
         /\ Arranged(1, entries[1], NcasOver(K), K \ {1})
         /\ Arranged(k, entries[k], NcasOf(k), {})
         /\ ArrangedInv(entries, K, Alive)
         /\ PlacesInv(entries, K, Alive) /\ KnownInv(ncas, K, Alive)
<1>1. /\ LoadsInv /\ Loaded /\ NcasTyped(ncas) /\ Live /\ Tree(entries, ncas, phase)
      /\ phase # "opened" /\ phase \in Pending /\ k # 1
  BY DEF MountInv, LoadsInv, Live, Pending
<1>2. k \in DOMAIN loads
  BY <1>1, LenProperties DEF LoadsInv, Loaded, Last
<1>3. K = OwnedBy(entries[1])
  BY DEF Owned, OwnedBy
<1>4. /\ AliveInv(entries, phase, K) /\ ArrangedInv(entries, K, Alive)
      /\ PlacesInv(entries, K, Alive) /\ KnownInv(ncas, K, Alive)
  BY <1>1, <1>3 DEF Tree, TreeFor, ReadyOf, Alive
<1>5. 1 \in K /\ K \subseteq DOMAIN loads /\ Alive = K \cup {k} /\ k \notin K
  BY <1>1, <1>3, <1>4 DEF AliveInv, OwnedBy, Alive
<1>6. /\ Arranged(1, entries[1], NcasOver(K), K \ {1})
      /\ Arranged(k, entries[k], NcasOf(k), {})
  BY <1>1, <1>4, <1>5 DEF ArrangedInv, Reach, Parts
<1> QED
  BY <1>1, <1>2, <1>3, <1>4, <1>5, <1>6

\* A package of which nothing was taken goes: the tree stays.
LEMMA DroppedHolds ==
  ASSUME MountInv, phase = "initialized"
  PROVE  Tree(Kept(entries[1], entries[Last], Last, FALSE), ncas, "applied")
<1>k. PICK k, K : k = Last /\ K = Owned
  OBVIOUS
<1>e. PICK E : E = Kept(entries[1], entries[k], k, FALSE)
  OBVIOUS
<1>1. /\ K \subseteq DOMAIN loads
      /\ 1 \in K /\ k # 1 /\ k \notin K /\ Alive = K \cup {k} /\ K = OwnedBy(entries[1])
      /\ ArrangedInv(entries, K, Alive) /\ PlacesInv(entries, K, Alive) /\ KnownInv(ncas, K, Alive)
  BY <1>k, WaitingHolds
<1>2. DOMAIN E = K /\ \A j \in K : E[j] = entries[j]
  BY <1>e, <1>1 DEF Kept
<1>3. OwnedBy(E[1]) = K /\ ReadyOf(E, "applied") = K
  BY <1>1, <1>2 DEF ReadyOf
<1>4. AliveInv(E, "applied", K)
  BY <1>1, <1>2 DEF AliveInv, Pending
<1>5. ArrangedInv(E, K, K) /\ PlacesInv(E, K, K) /\ KnownInv(ncas, K, K)
  BY <1>1, <1>2 DEF ArrangedInv, PlacesInv, KnownInv
<1> QED
  BY <1>k, <1>e, <1>3, <1>4, <1>5 DEF Tree, TreeFor

LEMMA SeqGrows ==
  ASSUME NEW A, NEW B, A \subseteq B, NEW s \in Seq(A)
  PROVE  s \in Seq(B)
  OBVIOUS

\* A package of which something was taken is one that the base owns.
LEMMA KeptHolds ==
  ASSUME MountInv, phase = "initialized", NEW es, NEW us, NEW ns,
         NEW k, k = Last, NEW K, K = Owned,
         Taking(entries[1], entries[k], NcasOver(K), NcasOf(k), K \ {1}, es, us),
         Grown(ncas, ns, NcasOf(k), NcasOver(K) \cup NcasOf(k))
  PROVE  Tree(Kept(es, us, k, TRUE), ns, "applied")
<1>e. PICK E, part, L : /\ E = Kept(es, us, k, TRUE) /\ L = K \cup {k}
                        /\ part = [name |-> Cleared, fs |-> PartitionFs(k)]
  OBVIOUS
<1>1. /\ Loaded /\ NcasTyped(ncas) /\ k \in DOMAIN loads /\ K \subseteq DOMAIN loads
      /\ 1 \in K /\ k # 1 /\ k \notin K /\ Alive = K \cup {k} /\ K = OwnedBy(entries[1])
      /\ Arranged(1, entries[1], NcasOver(K), K \ {1})
      /\ Arranged(k, entries[k], NcasOf(k), {})
      /\ ArrangedInv(entries, K, Alive)
      /\ PlacesInv(entries, K, Alive) /\ KnownInv(ncas, K, Alive)
  BY WaitingHolds
<1>2. /\ DOMAIN E = L /\ E[1] = Append(es, part) /\ E[k] = us
      /\ \A j \in K : j # 1 => E[j] = entries[j]
  BY <1>e, <1>1 DEF Kept
<1>3. NcasOver(L) = NcasOver(K) \cup NcasOf(k)
  BY <1>e DEF NcasOver
<1>4. part \in EntriesOver(NcasOver(L), L \ {1}) /\ Held(part) = {} /\ ~ IsNca(part)
      /\ part.name \notin FileNames /\ part.fs = PartitionFs(k)
  <2>1. part \in PartitionEntries(L \ {1})
    BY <1>e, <1>1 DEF PartitionEntries
  <2>2. part.name = Cleared /\ part.fs = PartitionFs(k)
    BY <1>e
  <2> QED
    BY <2>1, <2>2, FsDiffer, NamesDiffer DEF EntriesOver, IsNca, Held
<1>5. es \in Seq(EntriesOver(NcasOver(L), L \ {1}))
  <2>1. es \in Seq(EntriesOver(NcasOver(L), K \ {1}))
    BY <1>3 DEF Taking
  <2>2. EntriesOver(NcasOver(L), K \ {1}) \subseteq EntriesOver(NcasOver(L), L \ {1})
    <3>1. K \ {1} \subseteq L \ {1}
      BY <1>e
    <3> QED
      BY <3>1, EntriesGrow
  <2> QED
    BY <2>1, <2>2, SeqGrows
<1>6. /\ Append(es, part) \in Seq(EntriesOver(NcasOver(L), L \ {1}))
      /\ Len(es) \in Nat /\ DOMAIN es = 1 .. Len(es)
      /\ DOMAIN Append(es, part) = 1 .. Len(es) + 1
      /\ \A i \in DOMAIN es : Append(es, part)[i] = es[i]
      /\ Append(es, part)[Len(es) + 1] = part
  BY <1>4, <1>5, AppendFacts
<1>7. /\ \A i \in DOMAIN es : i \in DOMAIN entries[1] \/ es[i].name \in TitleNames
      /\ DOMAIN entries[1] \subseteq DOMAIN es /\ \A i \in DOMAIN entries[1] : es[i] = entries[1][i]
  <2>1. entries[1] \in Seq(EntriesOver(NcasOver(K), K \ {1})) /\ Len(entries[1]) <= Len(es)
    BY <1>1 DEF Arranged, Taking
  <2>2. DOMAIN entries[1] = 1 .. Len(entries[1]) /\ Len(entries[1]) \in Nat
    BY <2>1, LenProperties
  <2> QED
    BY <1>6, <2>1, <2>2 DEF Taking
<1>8. \A i \in DOMAIN Append(es, part) :
        \/ i \in DOMAIN entries[1] /\ Append(es, part)[i] = entries[1][i]
        \/ Append(es, part)[i].name \in TitleNames
        \/ Append(es, part)[i] = part
  BY <1>6, <1>7
<1>9. OwnedBy(E[1]) = L
  <2>1. OwnedBy(E[1])
          = {1} \cup {j \in L \ {1} : \E i \in DOMAIN E[1] : E[1][i].fs = PartitionFs(j)}
    <3>1. PICK all : all = Append(es, part)
      OBVIOUS
    <3>2. all \in Seq(EntriesOver(NcasOver(L), L \ {1}))
      BY <1>6, <3>1
    <3>3. OwnedBy(all)
            = {1} \cup {j \in L \ {1} : \E i \in DOMAIN all : all[i].fs = PartitionFs(j)}
      BY <3>2, OwnedFacts
    <3> QED
      BY <1>2, <3>1, <3>3
  <2>2. K
          = {1} \cup {j \in K \ {1} :
                      \E i \in DOMAIN entries[1] : entries[1][i].fs = PartitionFs(j)}
    <3>1. entries[1] \in Seq(EntriesOver(NcasOver(K), K \ {1}))
      BY <1>1 DEF Arranged
    <3> QED
      BY <1>1, <3>1, OwnedFacts
  <2>3. ASSUME NEW j \in L \ {1}
        PROVE  \E i \in DOMAIN E[1] : E[1][i].fs = PartitionFs(j)
    <3>1. CASE j = k
      BY <1>2, <1>4, <1>6, <3>1
    <3>2. CASE j \in K \ {1}
      <4>1. PICK i \in DOMAIN entries[1] : entries[1][i].fs = PartitionFs(j)
        BY <2>2, <3>2
      <4> QED
        BY <1>2, <1>6, <1>7, <4>1
    <3> QED
      BY <1>e, <3>1, <3>2
  <2>4. {j \in L \ {1} : \E i \in DOMAIN E[1] : E[1][i].fs = PartitionFs(j)} = L \ {1}
    BY <2>3
  <2>5. 1 \in L
    BY <1>e, <1>1
  <2> QED
    BY <2>1, <2>4, <2>5
<1>10. AliveInv(E, "applied", L) /\ ReadyOf(E, "applied") = L
  BY <1>e, <1>1, <1>2 DEF AliveInv, ReadyOf, Pending
<1>11. Arranged(1, E[1], NcasOver(L), L \ {1})
  <2>1. \A name \in TitleNames : name \notin FileNames /\ name # Cleared /\ name[1] # "nca"
    BY NamesDiffer
  <2>2. \A e : e.name \in TitleNames => ~ IsNca(e) /\ e.name \notin FileNames
    BY <2>1 DEF IsNca
  <2>3. /\ \A i \in DOMAIN entries[1] : ~ IsNca(entries[1][i])
        /\ \A i \in DOMAIN entries[1] :
             entries[1][i].name \in FileNames => i \in DOMAIN loads[1].files
    BY <1>1 DEF Arranged
  <2>4. PICK all : all = Append(es, part)
    OBVIOUS
  <2>5. \A i \in DOMAIN all :
          \/ i \in DOMAIN entries[1] /\ all[i] = entries[1][i]
          \/ all[i].name \in TitleNames
          \/ all[i] = part
    BY <1>8, <2>4
  <2>6. /\ \A i \in DOMAIN all : ~ IsNca(all[i])
        /\ \A i \in DOMAIN all : all[i].name \in FileNames => i \in DOMAIN loads[1].files
    BY <1>4, <2>2, <2>3, <2>5
  <2>7. all \in Seq(EntriesOver(NcasOver(L), L \ {1})) /\ E[1] = all
    BY <1>2, <1>6, <2>4
  <2> QED
    BY <2>6, <2>7 DEF Arranged
<1>12. us \in Seq(EntriesOver(NcasOf(k), {})) /\ DOMAIN us = DOMAIN entries[k]
       /\ \A i \in DOMAIN us : us[i] \in {entries[k][i], Gone}
  <2>1. /\ us \in Seq(EntriesOver(NcasOf(k), {})) /\ Len(us) = Len(entries[k])
        /\ entries[k] \in Seq(EntriesOver(NcasOf(k), {}))
    BY <1>1 DEF Taking, Arranged
  <2>2. DOMAIN us = DOMAIN entries[k]
    BY <2>1, LenProperties
  <2> QED
    BY <2>1, <2>2 DEF Taking
<1>13. Arranged(k, us, NcasOf(k), {})
  <2>1. Gone.name \notin FileNames /\ ~ IsNca(Gone)
    BY GoneIsEntry, NamesDiffer
  <2> QED
    BY <1>1, <1>12, <2>1 DEF Arranged
<1>14. ArrangedInv(E, L, L)
  BY <1>e, <1>1, <1>2, <1>11, <1>13 DEF ArrangedInv, Reach, Parts
<1>15. ASSUME NEW n PROVE /\ Once(es, n) => Once(E[1], n)
                          /\ Never(es, n) => Never(E[1], n)
  BY <1>2, <1>4, <1>5, AppendHolds
<1>16. ASSUME NEW j \in K, NEW n \in NcasOf(j)
       PROVE  IF j = 1 THEN Once(E[1], n) ELSE InOne(E[1], E[j], n)
  <2>1. n \notin NcasOf(k)
    BY <1>1, NcasApart
  <2>2. (Once(entries[1], n) => Once(es, n)) /\ (Never(entries[1], n) => Never(es, n))
    BY <2>1 DEF Taking
  <2>3. CASE j = 1
    <3>1. Once(entries[1], n)
      BY <1>1, <2>3 DEF PlacesInv
    <3> QED
      BY <1>15, <2>2, <2>3, <3>1
  <2>4. CASE j # 1
    <3>1. InOne(entries[1], entries[j], n) /\ E[j] = entries[j]
      BY <1>1, <1>2, <2>4 DEF PlacesInv
    <3> QED
      BY <1>15, <2>2, <2>4, <3>1 DEF InOne
  <2> QED
    BY <2>3, <2>4
<1>17. ASSUME NEW n \in NcasOf(k) PROVE InOne(E[1], E[k], n)
  <2>1. n \notin NcasOver(K)
    BY <1>1, NcasApart
  <2>2. Never(entries[1], n)
    BY <1>1, <2>1, HoldsNone DEF Arranged
  <2>3. Once(entries[k], n)
    BY <1>1 DEF PlacesInv
  <2>4. InOne(es, us, n)
    BY <2>2, <2>3 DEF Taking
  <2> QED
    BY <1>2, <1>15, <2>4 DEF InOne
<1>18. PlacesInv(E, L, L)
  BY <1>e, <1>1, <1>16, <1>17 DEF PlacesInv
<1>19. KnownInv(ns, L, L)
  <2>1. DOMAIN ns = DOMAIN ncas /\ \A n \in DOMAIN ncas :
          ns[n].base = ncas[n].base \/ (n \in NcasOf(k) /\ ns[n].base \in NcasOver(L))
    BY <1>3 DEF Grown
  <2>2. ASSUME NEW n \in DOMAIN ncas
        PROVE  NcasOver(Home(n[1], K)) \subseteq NcasOver(Home(n[1], L))
    BY <1>e DEF Home, NcasOver
  <2>3. \A n \in NcasOf(k) : Home(n[1], L) = L
    BY <1>e, NcasApart DEF Home
  <2> QED
    BY <1>e, <1>1, <2>1, <2>2, <2>3 DEF KnownInv
<1> QED
  BY <1>e, <1>9, <1>10, <1>14, <1>18, <1>19 DEF Tree, TreeFor

\* applyUpdate: what was taken lives on in the base, with the package it reads from.
LEMMA ApplyUpdateHolds ==
  ASSUME MountInv, ApplyUpdate
  PROVE  MountInv'
<1>k. PICK k, K, s : k = Last /\ K = Owned
                     /\ s = TryApplyUpdate(entries[1], entries[k], FALSE, ncas)
  OBVIOUS
<1>1. phase = "initialized" /\ LoadsInv /\ KeysInv(ncas)
  BY DEF ApplyUpdate, MountInv
<1>2. /\ Loaded /\ NcasTyped(ncas) /\ k \in DOMAIN loads /\ K \subseteq DOMAIN loads
      /\ Arranged(1, entries[1], NcasOver(K), K \ {1})
      /\ Arranged(k, entries[k], NcasOf(k), {})
      /\ KnownInv(ncas, K, Alive) /\ Alive = K \cup {k}
  BY <1>k, <1>1, WaitingHolds
<1>3. PICK ok : ok = (loads[k].form = "nsp" /\ s.applied)
  OBVIOUS
<1>4. /\ loads' = loads /\ titleKeys' = titleKeys /\ external' = external /\ purpose' = purpose
      /\ entries' = IF ok THEN Kept(s.es, s.us, k, TRUE) ELSE Kept(entries[1], entries[k], k, FALSE)
      /\ ncas' = IF ok THEN s.ncas ELSE ncas
      /\ phase' = IF ok /\ Throws(s.ncas) THEN "terminated" ELSE "applied"
  BY <1>k, <1>3 DEF ApplyUpdate, Last
<1>5. /\ Taking(entries[1], entries[k], NcasOver(K), NcasOf(k), K \ {1}, s.es, s.us)
      /\ Grown(ncas, s.ncas, NcasOf(k), NcasOver(K) \cup NcasOf(k))
  <2>n. PICK N, B : N = NcasOf(k) /\ B = NcasOver(K)
    OBVIOUS
  <2>1. N \subseteq NcasOver(DOMAIN loads) /\ B \subseteq NcasOver(DOMAIN loads)
    BY <2>n, <1>2 DEF NcasOver
  <2>2. N \cup B \subseteq DOMAIN ncas
    BY <2>n, <1>2 DEF KnownInv, NcasOver
  <2>3. entries[1] \in Seq(EntriesOver(B, K \ {1})) /\ entries[k] \in Seq(EntriesOver(N, {}))
    BY <2>n, <1>2 DEF Arranged
  <2>4. Loaded /\ NcasTyped(ncas)
    BY <1>2
  <2>5. LET t == TryApplyUpdate(entries[1], entries[k], FALSE, ncas)
        IN /\ Taking(entries[1], entries[k], B, N, K \ {1}, t.es, t.us)
           /\ Grown(ncas, t.ncas, N, B \cup N)
    BY <2>1, <2>2, <2>3, <2>4, UpdateHolds
  <2> QED
    BY <1>k, <2>n, <2>5
<1>6. PICK ns : ns = IF ok THEN s.ncas ELSE ncas
  OBVIOUS
<1>7. /\ NcasTyped(ns) /\ DOMAIN ns = DOMAIN ncas
      /\ \A n \in DOMAIN ncas : ns[n].keyed = ncas[n].keyed
  BY <1>2, <1>5, <1>6 DEF Grown
<1>8. \A n \in DOMAIN ns :
        ~ ns[n].keyed => FileOf(n).rights # NoRights /\ ~ KeyAtHand(n[1], FileOf(n).rights)'
  BY <1>1, <1>4, <1>7, KeysInvStays
<1>9. Loaded' /\ Last' = Last /\ NcasTyped(ncas)' /\ KeysInv(ncas)'
  <2>1. Loaded' = Loaded /\ Last' = Last /\ (NcasTyped(ns)' <=> NcasTyped(ns))
        /\ \A n : FileOf(n)' = FileOf(n)
    BY <1>4, LoadsSame
  <2>2. ncas' = ns
    BY <1>4, <1>6
  <2>3. KeysInv(ncas)'
    BY <1>8, <2>1, <2>2 DEF KeysInv
  <2> QED
    BY <1>2, <1>7, <2>1, <2>2, <2>3
<1>10. LoadsInv'
  BY <1>1, <1>4, <1>9 DEF LoadsInv
<1>11. CASE phase' = "terminated"
  <2>1. Throws(ns)
    BY <1>4, <1>6, <1>11
  <2>2. MountsWithKeys'
    BY <1>1, <1>4, <1>7, <1>8, <2>1, ThrowsOverKeys
  <2> QED
    BY <1>9, <1>10, <1>11, <2>2 DEF MountInv, Live
<1>12. CASE phase' # "terminated"
  <2>1. phase' = "applied"
    BY <1>4, <1>12
  <2>2. CASE ok
    <3>e. PICK E : E = Kept(s.es, s.us, k, TRUE)
      OBVIOUS
    <3>1. entries' = E /\ ncas' = s.ncas
      BY <3>e, <1>4, <2>2
    <3>2. Tree(E, s.ncas, "applied")
      BY <3>e, <1>k, <1>1, <1>5, KeptHolds
    <3>3. Tree(entries, ncas, phase)'
      <4>1. PICK ms : ms = s.ncas
        OBVIOUS
      <4> QED
        BY <1>4, <2>1, <3>1, <3>2, <4>1, LoadsSame
    <3> QED
      BY <1>9, <1>10, <2>1, <3>3 DEF MountInv, MountsWithKeys
  <2>3. CASE ~ ok
    <3>e. PICK E, ms : E = Kept(entries[1], entries[k], k, FALSE) /\ ms = ncas
      OBVIOUS
    <3>1. entries' = E /\ ncas' = ms
      BY <3>e, <1>4, <2>3
    <3>2. Tree(E, ms, "applied")
      BY <3>e, <1>k, <1>1, DroppedHolds
    <3>3. Tree(entries, ncas, phase)'
      BY <1>4, <2>1, <3>1, <3>2, LoadsSame
    <3> QED
      BY <1>9, <1>10, <2>1, <3>3 DEF MountInv, MountsWithKeys
  <2> QED
    BY <2>2, <2>3
<1> QED
  BY <1>11, <1>12

\* applyAddOnContent.
LEMMA ApplyAddOnHolds ==
  ASSUME MountInv, ApplyAddOn
  PROVE  MountInv'
<1>k. PICK k, K, s : k = Last /\ K = Owned /\ s = TryApplyAddOn(entries[1], entries[k])
  OBVIOUS
<1>1. phase = "initialized" /\ LoadsInv /\ KeysInv(ncas)
  BY DEF ApplyAddOn, MountInv
<1>2. /\ Loaded /\ NcasTyped(ncas) /\ k \in DOMAIN loads /\ K \subseteq DOMAIN loads
      /\ Arranged(1, entries[1], NcasOver(K), K \ {1})
      /\ Arranged(k, entries[k], NcasOf(k), {})
  BY <1>k, <1>1, WaitingHolds
<1>3. PICK ok : ok = (loads[k].form = "nsp" /\ s.applied)
  OBVIOUS
<1>4. /\ loads' = loads /\ titleKeys' = titleKeys /\ external' = external /\ purpose' = purpose
      /\ entries' = IF ok THEN Kept(s.es, s.us, k, TRUE) ELSE Kept(entries[1], entries[k], k, FALSE)
      /\ ncas' = ncas /\ phase' = "applied"
  BY <1>k, <1>3 DEF ApplyAddOn, Last
<1>5. Taking(entries[1], entries[k], NcasOver(K), NcasOf(k), K \ {1}, s.es, s.us)
  <2>n. PICK N, B : N = NcasOf(k) /\ B = NcasOver(K)
    OBVIOUS
  <2>1. Loaded /\ N \subseteq NcasOver(DOMAIN loads)
    BY <2>n, <1>2 DEF NcasOver
  <2>2. entries[1] \in Seq(EntriesOver(B, K \ {1})) /\ entries[k] \in Seq(EntriesOver(N, {}))
    BY <2>n, <1>2 DEF Arranged
  <2>3. LET t == TryApplyAddOn(entries[1], entries[k])
        IN Taking(entries[1], entries[k], B, N, K \ {1}, t.es, t.us)
    BY <2>1, <2>2, AddOnHolds
  <2> QED
    BY <1>k, <2>n, <2>3
<1>6. Grown(ncas, ncas, NcasOf(k), NcasOver(K) \cup NcasOf(k))
  BY <1>2, GrownSame
<1>7. \A n \in DOMAIN ncas :
        ~ ncas[n].keyed => FileOf(n).rights # NoRights /\ ~ KeyAtHand(n[1], FileOf(n).rights)'
  BY <1>1, <1>4, KeysInvStays
<1>8. Loaded' /\ Last' = Last /\ NcasTyped(ncas)' /\ KeysInv(ncas)'
  <2>1. Loaded' = Loaded /\ Last' = Last /\ \A n : FileOf(n)' = FileOf(n)
    BY <1>4, LoadsSame
  <2>2. NcasTyped(ncas)'
    BY <1>2, <1>4, LoadsSame
  <2>3. KeysInv(ncas)'
    BY <1>4, <1>7, <2>1 DEF KeysInv
  <2> QED
    BY <1>2, <2>1, <2>2, <2>3
<1>9. LoadsInv'
  BY <1>1, <1>4, <1>8 DEF LoadsInv
<1>e. PICK E, ms : /\ ms = ncas
                   /\ E = IF ok THEN Kept(s.es, s.us, k, TRUE)
                          ELSE Kept(entries[1], entries[k], k, FALSE)
  OBVIOUS
<1>10. Tree(E, ms, "applied")
  <2>1. CASE ok
    BY <1>k, <1>e, <1>1, <1>5, <1>6, <2>1, KeptHolds
  <2>2. CASE ~ ok
    BY <1>k, <1>e, <1>1, <2>2, DroppedHolds
  <2> QED
    BY <2>1, <2>2
<1>11. Tree(entries, ncas, phase)'
  BY <1>e, <1>4, <1>10, LoadsSame
<1> QED
  BY <1>4, <1>8, <1>9, <1>11 DEF MountInv, MountsWithKeys

\* A game card is mounted as it is.
LEMMA MountCardHolds ==
  ASSUME MountInv, MountCard
  PROVE  MountInv'
<1>e. PICK E, ms : E = entries /\ ms = ncas
  OBVIOUS
<1>1. /\ phase = "applied" /\ phase' = "mounted" /\ loads' = loads /\ entries' = entries
      /\ ncas' = ncas /\ titleKeys' = titleKeys /\ external' = external /\ purpose' = purpose
  BY DEF MountCard
<1>2. Loaded' = Loaded /\ Last' = Last /\ (NcasTyped(ncas)' <=> NcasTyped(ncas))
      /\ \A n : FileOf(n)' = FileOf(n)
  BY <1>1, LoadsSame
<1>3. LoadsInv'
  BY <1>1, <1>2 DEF MountInv, LoadsInv
<1>4. KeysInv(ncas)'
  <2>1. LoadsInv /\ KeysInv(ncas)
    BY DEF MountInv
  <2>2. \A n \in DOMAIN ncas :
          ~ ncas[n].keyed => FileOf(n).rights # NoRights /\ ~ KeyAtHand(n[1], FileOf(n).rights)'
    BY <1>1, <2>1, KeysInvStays
  <2> QED
    BY <1>1, <1>2, <2>2 DEF KeysInv
<1>5. Tree(E, ms, "mounted")
  <2>1. Tree(E, ms, "applied")
    BY <1>e, <1>1 DEF MountInv, Live
  <2>2. ReadyOf(E, "mounted") = ReadyOf(E, "applied")
    BY DEF ReadyOf
  <2>3. \A K : AliveInv(E, "applied", K) => AliveInv(E, "mounted", K)
    BY DEF AliveInv, Pending
  <2> QED
    BY <2>1, <2>2, <2>3 DEF Tree, TreeFor
<1>6. Tree(entries, ncas, phase)'
  BY <1>e, <1>1, <1>5, LoadsSame
<1> QED
  BY <1>1, <1>3, <1>4, <1>6 DEF MountInv, MountsWithKeys

LEMMA DestroyHolds ==
  ASSUME MountInv, Destroy
  PROVE  MountInv'
<1>1. /\ phase' = "destroyed" /\ loads' = loads
      /\ ncas' = ncas /\ titleKeys' = titleKeys /\ external' = external /\ purpose' = purpose
  BY DEF Destroy
<1>2. Loaded' = Loaded /\ Last' = Last /\ (NcasTyped(ncas)' <=> NcasTyped(ncas))
      /\ \A n : FileOf(n)' = FileOf(n)
  BY <1>1, LoadsSame
<1>3. LoadsInv'
  BY <1>1, <1>2 DEF MountInv, LoadsInv
<1>4. KeysInv(ncas)'
  <2>1. LoadsInv /\ KeysInv(ncas)
    BY DEF MountInv
  <2>2. \A n \in DOMAIN ncas :
          ~ ncas[n].keyed => FileOf(n).rights # NoRights /\ ~ KeyAtHand(n[1], FileOf(n).rights)'
    BY <1>1, <2>1, KeysInvStays
  <2> QED
    BY <1>1, <1>2, <2>2 DEF KeysInv
<1> QED
  BY <1>1, <1>3, <1>4 DEF MountInv, MountsWithKeys, Live

\* Every step keeps the invariant.
LEMMA StepHolds ==
  ASSUME MountInv, [Next]_vars
  PROVE  MountInv'
<1>1. CASE \E p \in Updates : Open(p, "update")
  BY <1>1, OpenHolds DEF Packages
<1>2. CASE \E p \in AddOns : Open(p, "add-on")
  BY <1>2, OpenHolds DEF Packages
<1>3. CASE Initialize
  BY <1>3, InitializeHolds
<1>4. CASE ApplyUpdate
  BY <1>4, ApplyUpdateHolds
<1>5. CASE ApplyAddOn
  BY <1>5, ApplyAddOnHolds
<1>6. CASE MountPartition
  BY <1>6, MountPartitionHolds
<1>7. CASE MountCard
  BY <1>7, MountCardHolds
<1>8. CASE Destroy
  BY <1>8, DestroyHolds
<1>9. CASE UNCHANGED vars
  <2>e. PICK E, ms : E = entries /\ ms = ncas
    OBVIOUS
  <2>1. /\ loads' = loads /\ entries' = entries /\ ncas' = ncas /\ titleKeys' = titleKeys
        /\ external' = external /\ purpose' = purpose /\ phase' = phase
    BY <1>9 DEF vars
  <2>2. Loaded' = Loaded /\ Last' = Last /\ (NcasTyped(ncas)' <=> NcasTyped(ncas))
        /\ \A n : FileOf(n)' = FileOf(n)
    BY <2>1, LoadsSame
  <2>3. LoadsInv'
    BY <2>1, <2>2 DEF MountInv, LoadsInv
  <2>4. KeysInv(ncas)'
    <3>1. LoadsInv /\ KeysInv(ncas)
      BY DEF MountInv
    <3>2. \A n \in DOMAIN ncas :
            ~ ncas[n].keyed => FileOf(n).rights # NoRights /\ ~ KeyAtHand(n[1], FileOf(n).rights)'
      BY <2>1, <3>1, KeysInvStays
    <3> QED
      BY <2>1, <2>2, <3>2 DEF KeysInv
  <2>5. MountsWithKeys'
    <3>1. \A l, r : TicketsFor(l, r)' = TicketsFor(l, r)
      BY <2>1 DEF TicketsFor
    <3>2. \A l, r : KeyAtHand(l, r)' <=> KeyAtHand(l, r)
      BY <2>1, <3>1 DEF KeyAtHand, ReadsTicket
    <3> QED
      BY <2>1, <3>2 DEF MountInv, MountsWithKeys
  <2>6. Live' => Tree(entries, ncas, phase)'
    <3>1. Live => Tree(E, ms, phase)
      BY <2>e DEF MountInv
    <3>2. Live' <=> Live
      BY <2>1 DEF Live
    <3>3. PICK ph : ph = phase
      OBVIOUS
    <3>4. Tree(E, ms, ph)' <=> Tree(E, ms, ph)
      BY <2>1, LoadsSame
    <3> QED
      BY <2>e, <2>1, <3>1, <3>2, <3>3, <3>4
  <2> QED
    BY <2>3, <2>4, <2>5, <2>6 DEF MountInv
<1> QED
  BY <1>1, <1>2, <1>3, <1>4, <1>5, <1>6, <1>7, <1>8, <1>9 DEF Next

\* The invariant holds of every behaviour.
THEOREM MountInvariant == Spec => []MountInv
<1>1. Init => MountInv
  BY InitHolds
<1>2. MountInv /\ [Next]_vars => MountInv'
  BY StepHolds
<1> QED
  BY <1>1, <1>2, PTL DEF Spec

\* Types, and no entry of a package whose init() was run goes by the name of an NCA's
\* file, whatever the packages hold: rearrangeNCAs renames or moves them all.
THEOREM MountTypeOK == Spec => []TypeOK
<1>1. MountInv => TypeOK
  BY TypeFollows
<1> QED
  BY <1>1, MountInvariant, PTL

\* What the tree of any base, with any updates and add-ons, reads from is owned by it:
\* mEntries keeps each package that applyUpdate or applyAddOnContent took from.
THEOREM MountNothingDangles == Spec => []NothingDangles
<1>1. MountInv => NothingDangles
  BY NothingDanglesFollows
<1> QED
  BY <1>1, MountInvariant, PTL

\* rearrangeNCAs, tryApplyUpdate and tryApplyAddOnContent lose no NCA and double none,
\* in whatever order metas name them and packages are applied.
THEOREM MountContentOnce == Spec => []ContentOnce
<1>1. MountInv => ContentOnce
  BY ContentOnceFollows
<1> QED
  BY <1>1, MountInvariant, PTL

\* The process is ended by an NCA only over a key that was not at hand: what
\* tryParseTicket reads from a package's own tickets outdoes what was known.
THEOREM MountMountsWithKeys == Spec => []MountsWithKeys
<1>1. MountInv => MountsWithKeys
  BY DEF MountInv
<1> QED
  BY <1>1, MountInvariant, PTL

\* FUSE's init() after Setup's moves, renames and takes away nothing.
THEOREM MountInitAgain == Spec => InitAgainKeepsTree
<1> DEFINE Keeps ==
      phase' = "mounted" =>
        /\ entries'[1] = entries[1]
        /\ DOMAIN ncas' = DOMAIN ncas
        /\ \A n \in DOMAIN ncas : ncas[n].sections \subseteq ncas'[n].sections
<1>1. MountInv /\ [Next]_vars => [Keeps]_vars
  <2> SUFFICES ASSUME MountInv, Next, phase' = "mounted"
               PROVE  Keeps
    OBVIOUS
  <2>1. CASE MountPartition
    BY <2>1, MountPartitionHolds
  <2>2. CASE MountCard
    BY <2>2 DEF MountCard
  <2> QED
    BY <2>1, <2>2 DEF Next, Open, Initialize, InitFileSystem, ApplyUpdate, ApplyAddOn, Destroy
<1> QED
  BY <1>1, MountInvariant, PTL DEF Spec, InitAgainKeepsTree

-----------------------------------------------------------------------------
\* Each patch among some entries has what it can have of its base there.
Whole(es, ns) ==
  \A i \in DOMAIN es : \A j \in PairedAt(es, es[i]) :
    Completed(ns, PairAt(es[i], es[BaseAt(es, es[i])], j))

LEMMA WholeIsWhole == Whole(entries[1], ncas) <=> WholePatches
<1>0. WholePatches => Whole(entries[1], ncas)
  BY DEF WholePatches, Whole, PairedAt, BaseAt, PairAt, Completed, Range
<1> SUFFICES ASSUME Whole(entries[1], ncas),
                    NEW i \in DOMAIN entries[1], MetaOf(entries[1][i]).kind = "Patch",
                    NEW at, at = TitleEntry(entries[1], MetaOf(entries[1][i]).application),
                    at # 0, NEW j \in Paired(entries[1][i], entries[1][at])
             PROVE  Completed(ncas, Pair(entries[1][i], entries[1][at],
                                         MetaOf(entries[1][i]).contents[j]))
  BY <1>0, Zenon DEF WholePatches, Completed, Range
<1>1. at = BaseAt(entries[1], entries[1][i])
  BY DEF BaseAt
<1>2. j \in PairedAt(entries[1], entries[1][i])
  BY <1>1 DEF PairedAt
<1> QED
  BY <1>1, <1>2 DEF Whole, PairAt

LEMMA WholeIsWholeNext == Whole(entries[1], ncas)' <=> WholePatches'
  BY WholeIsWhole, PTL

LEMMA WholeSame ==
  ASSUME loads' = loads, NEW es, NEW ns
  PROVE  Whole(es, ns)' <=> Whole(es, ns)
<1>1. \A n : FileOf(n)' = FileOf(n)
  BY LoadsSame
<1>2. \A e : MetaOf(e)' = MetaOf(e) /\ (HasMeta(e)' <=> HasMeta(e))
  BY <1>1 DEF MetaOf, HasMeta
<1>3. \A id : TitleEntry(es, id)' = TitleEntry(es, id)
  BY <1>2 DEF TitleEntry
<1>4. \A e, id : NcaOf(e, id)' = NcaOf(e, id)
  BY <1>1 DEF NcaOf
<1>5. \A patch, base, info : Pair(patch, base, info)' = Pair(patch, base, info)
  BY <1>2, <1>4 DEF Pair
<1>6. \A patch, base : Paired(patch, base)' = Paired(patch, base)
  BY <1>2, <1>5 DEF Paired
<1>7. \A patch : BaseAt(es, patch)' = BaseAt(es, patch)
  BY <1>2, <1>3 DEF BaseAt
<1>8. \A patch : PairedAt(es, patch)' = PairedAt(es, patch)
  BY <1>6, <1>7 DEF PairedAt
<1>9. \A patch, base, j : PairAt(patch, base, j)' = PairAt(patch, base, j)
  BY <1>2, <1>5 DEF PairAt
<1>10. \A pair : Completed(ns, pair)' <=> Completed(ns, pair)
  BY <1>1 DEF Completed
<1> QED
  BY <1>7, <1>8, <1>9, <1>10 DEF Whole

\* FUSE's init() leaves no patch of a partition that lacks what its base has.
LEMMA MountPartitionCompletes ==
  ASSUME NoPatchOfPatch, MountInv, MountPartition, phase' = "mounted"
  PROVE  WholePatches'
<1>k. PICK K, N, es, known : K = Owned /\ N = NcasOver(K) /\ es = entries[1] /\ known = ncas
  OBVIOUS
<1>n. PICK ns : ns = TryApplyUpdate(es, es, TRUE, known).ncas
  OBVIOUS
<1>1. Loaded /\ NcasTyped(known) /\ phase = "applied"
  BY <1>k DEF MountPartition, MountInv, LoadsInv
<1>2. /\ es \in Seq(EntriesOver(N, K \ {1}))
      /\ Rearranged(Processed(1)) = es /\ \A keys : WithNew(1, keys) = known
      /\ Alive = K /\ K \subseteq DOMAIN loads /\ KnownInv(known, K, K)
      /\ PlacesInv(entries, K, K)
  BY <1>k, <1>1, SecondInit
<1>3. N \subseteq NcasOver(DOMAIN loads) /\ N \subseteq DOMAIN known
  BY <1>k, <1>2 DEF NcasOver, KnownInv
<1>4. Apart(es)
  <2>1. \A n \in N : Once(es, n) \/ Never(es, n)
    <3> SUFFICES ASSUME NEW k \in K, NEW n \in NcasOf(k) PROVE Once(es, n) \/ Never(es, n)
      BY <1>k DEF NcasOver
    <3>1. CASE k = 1
      BY <1>k, <1>2, <3>1 DEF PlacesInv
    <3>2. CASE k # 1
      BY <1>k, <1>2, <3>2 DEF PlacesInv, InOne
    <3> QED
      BY <3>1, <3>2
  <2>2. ASSUME NEW i \in DOMAIN es, NEW j \in DOMAIN es, NEW s \in Held(es[i]),
               NEW t \in Held(es[j]), s.nca = t.nca
        PROVE  i = j
    <3>1. es[i] \in EntriesOver(N, K \ {1})
      BY <1>2, LenProperties
    <3>2. s.nca \in N
      BY <3>1, EntryHolds
    <3>3. Once(es, s.nca)
      BY <2>1, <3>2 DEF Never
    <3> QED
      BY <2>2, <3>3 DEF Once
  <2> QED
    BY <2>2 DEF Apart
<1>5. TryApplyUpdate(es, es, TRUE, known).es = es
  BY <1>1, <1>2, <1>3, SelfUpdateHolds
<1>6. Whole(es, ns)
  <2>1. \A i \in DOMAIN es : \A j \in PairedAt(es, es[i]) :
          Completed(TryApplyUpdate(es, es, TRUE, known).ncas,
                    PairAt(es[i], es[BaseAt(es, es[i])], j))
    BY <1>1, <1>2, <1>3, <1>4, SelfCompletes
  <2> QED
    BY <1>n, <2>1 DEF Whole
<1>7. loads' = loads /\ entries' = [entries EXCEPT ![1] = es] /\ ncas' = ns
  <2>t. PICK keys : keys = ParseTickets(1)
    OBVIOUS
  <2>1. WithNew(1, keys) = known
    BY <1>2
  <2>2. /\ loads' = loads
        /\ IF Throws(ns) THEN phase' = "terminated" /\ UNCHANGED <<entries, ncas>>
           ELSE /\ phase' = "mounted"
                /\ entries' = [entries EXCEPT ![1] = TryApplyUpdate(es, es, TRUE, known).es]
                /\ ncas' = ns
    BY <1>2, <1>n, <2>t, <2>1 DEF MountPartition, InitFileSystem
  <2> QED
    BY <1>5, <2>2
<1>8. entries'[1] = es
  <2>1. 1 \in DOMAIN entries
    BY <1>k, <1>2 DEF Alive, Owned
  <2> QED
    BY <1>7, <2>1
<1>9. Whole(es, ns)'
  BY <1>6, <1>7, WholeSame
<1>10. Whole(entries[1], ncas)'
  BY <1>7, <1>8, <1>9
<1> QED
  BY <1>10, WholeIsWholeNext

\* Unless some patch is for a patch, all contents of every patch in the tree are patched
\* when a partition is mounted: FUSE's init() ties what tryApplyUpdate left untied.
THEOREM MountPatchIsWhole ==
  ASSUME NoPatchOfPatch
  PROVE  Spec => []PatchIsWhole
<1>1. Init => PatchIsWhole
  BY DEF Init, PatchIsWhole
<1>2. MountInv /\ PatchIsWhole /\ [Next]_vars => PatchIsWhole'
  <2> SUFFICES ASSUME MountInv, PatchIsWhole, [Next]_vars, phase' = "mounted",
                      loads'[1].form = "nsp"
               PROVE  WholePatches'
    BY DEF PatchIsWhole
  <2>1. CASE MountPartition
    BY <2>1, MountPartitionCompletes
  <2>2. CASE MountCard
    BY <2>2 DEF MountCard
  <2>3. CASE UNCHANGED vars
    <3>1. WholePatches
      BY <2>3 DEF vars, PatchIsWhole
    <3>e. PICK E, ns : E = entries /\ ns = ncas
      OBVIOUS
    <3>2. loads' = loads /\ entries' = E /\ ncas' = ns
      BY <2>3, <3>e DEF vars
    <3>3. Whole(E[1], ns)
      BY <3>e, <3>1, WholeIsWhole
    <3>4. Whole(E[1], ns)'
      BY <3>2, <3>3, WholeSame
    <3>5. Whole(entries[1], ncas)'
      BY <3>2, <3>4
    <3> QED
      BY <3>5, WholeIsWholeNext
  <2> QED
    BY <2>1, <2>2, <2>3
       DEF Next, Open, Initialize, InitFileSystem, ApplyUpdate, ApplyAddOn, Destroy
<1> QED
  BY <1>1, <1>2, MountInvariant, PTL DEF Spec

-----------------------------------------------------------------------------
\* The logger.

Pushing == {"lock", "enqueue"}
Flushing == {"flush", "drain", "file", "sync", "flushed"}
Exiting == {"shutdown", "join"} \cup Flushing
Done == {"sync", "flushed", "ended"}

ThreadInv(t) ==
  /\ pc[t] \in Pushing => sent[t] >= 1
  /\ pc[t] \in Exiting => exiter = t
  /\ pc[t] \in {"waits", "ended"} => exiter # Nobody
  /\ pc[t] \in Flushing => worker \in {"exited", "gone"}

\* The message in the worker's hands is under the mutex, for good if the worker exits
\* or was left behind; and a worker that joins itself is the one that exits.
HandInv ==
  /\ msg # <<>> => mMutex = Worker /\ worker \in {"print", "joining", "waits", "gone"}
  /\ worker = "joining" => exiter = Worker

\* What was accepted before exit was called is written when flush() is done.
WrittenInv ==
  \A t \in Threads : pc[t] \in Done /\ exiter # Worker /\ ~ again => Len(printed) >= atExit

\* What was accepted later was being pushed: a thread of which such a message comes
\* finds the logger shut down when it pushes again.
LateInv ==
  exiter # Nobody =>
    /\ mShutdown
    /\ \A i \in atExit + 1 .. Len(accepted) : pc[accepted[i][1]] \notin Pushing
    /\ \A i, j \in atExit + 1 .. Len(accepted) : accepted[i][1] = accepted[j][1] => i = j

LoggerInv ==
  /\ LogTypeOK
  /\ WrittenInOrder
  /\ HandInv
  /\ WrittenInv
  /\ LateInv
  /\ \A t \in Threads : ThreadInv(t)

-----------------------------------------------------------------------------
(* The three places where a message can be, and how it moves between them. *)

LEMMA EnqueueKeepsOrder ==
  ASSUME NEW p \in Seq(Messages), NEW m \in Seq(Messages), NEW q \in Seq(Messages),
         NEW e \in Messages
  PROVE  Append(p \o m \o q, e) = p \o m \o Append(q, e)
  <1>1. p \o m \in Seq(Messages) /\ p \o m \o q \in Seq(Messages)
    BY ConcatProperties
  <1>2. Append(p \o m \o q, e) = (p \o m \o q) \o <<e>>
    BY <1>1, AppendIsConcat
  <1>3. (p \o m \o q) \o <<e>> = p \o m \o (q \o <<e>>)
    BY <1>1, ConcatAssociative
  <1>4. Append(q, e) = q \o <<e>>
    BY AppendIsConcat
  <1>5. QED
    BY <1>2, <1>3, <1>4

LEMMA PopKeepsOrder ==
  ASSUME NEW S, NEW p \in Seq(S), NEW q \in Seq(S), q # <<>>
  PROVE  p \o <<>> \o q = p \o <<Head(q)>> \o Tail(q)
  <1>1. Head(q) \in S /\ Tail(q) \in Seq(S) /\ <<Head(q)>> \in Seq(S)
    BY HeadTailProperties
  <1>2. q = <<Head(q)>> \o Tail(q)
    BY <1>1
  <1>3. p \o <<>> = p
    BY ConcatEmptySeq
  <1>4. QED
    BY <1>1, <1>2, <1>3, ConcatAssociative

LEMMA PrintKeepsOrder ==
  ASSUME NEW S, NEW p \in Seq(S), NEW m \in Seq(S), NEW q \in Seq(S)
  PROVE  /\ p \o m \in Seq(S)
         /\ Len(p \o m) = Len(p) + Len(m)
         /\ p \o m \o q = (p \o m) \o <<>> \o q
  BY ConcatProperties, ConcatEmptySeq

-----------------------------------------------------------------------------
\* Of the steps that move no message: the order of the messages stays as it is, and so
\* does what was accepted late if no thread begins to push.
LEMMA OrderUnmoved ==
  ASSUME WrittenInOrder, UNCHANGED queueVars
  PROVE  WrittenInOrder'
  BY DEF WrittenInOrder, queueVars

LEMMA LateThreads ==
  ASSUME LoggerInv
  PROVE  \A i \in atExit + 1 .. Len(accepted) : accepted[i][1] \in Threads
  <1>1. atExit \in Nat /\ accepted \in Seq(Messages) /\ Len(accepted) \in Nat
    BY LenProperties DEF LoggerInv, LogTypeOK
  <1>2. \A i \in 1 .. Len(accepted) : accepted[i] \in Messages
    BY <1>1, ElementOfSeq
  <1>3. QED
    BY <1>1, <1>2 DEF Messages

LEMMA LateUnmoved ==
  ASSUME LoggerInv, UNCHANGED <<accepted, exitVars>>,
         \A t \in Threads : pc'[t] \in Pushing => pc[t] \in Pushing
  PROVE  LateInv'
  <1>1. UNCHANGED <<accepted, atExit, exiter, mShutdown>>
    BY DEF exitVars
  <1>2. \A i \in atExit + 1 .. Len(accepted) : accepted[i][1] \in Threads
    BY LateThreads
  <1>3. QED
    BY <1>1, <1>2 DEF LoggerInv, LateInv

\* A step that moves no message, changes the places of a thread at most and keeps what
\* LogTypeOK and ThreadInv say of it.
LEMMA QuietStep ==
  ASSUME LoggerInv, LogTypeOK', UNCHANGED <<queueVars, exitVars>>,
         HandInv', \A t \in Threads : ThreadInv(t)',
         \A t \in Threads : pc'[t] \in Pushing => pc[t] \in Pushing,
         \A t \in Threads : pc'[t] \in Done => \/ \E u \in Threads : pc[u] \in Done
                                              \/ exiter = Worker \/ again
  PROVE  LoggerInv'
  <1>1. WrittenInOrder' /\ LateInv'
    BY OrderUnmoved, LateUnmoved DEF LoggerInv, queueVars
  <1>2. WrittenInv'
    BY DEF LoggerInv, WrittenInv, queueVars, exitVars
  <1>3. QED
    BY <1>1, <1>2 DEF LoggerInv

LEMMA InitLoggerInv == LogInit => LoggerInv
  <1>1. SUFFICES ASSUME LogInit PROVE LoggerInv
    OBVIOUS
  <1>2. LogTypeOK
    <2>1. <<>> \in Seq(Messages) /\ Len(accepted) = 0
      BY <1>1 DEF LogInit
    <2>2. pc \in [Threads -> CallPhases \cup ExitPhases] /\ sent \in [Threads -> 0 .. MaxMessages]
      BY <1>1, LoggerAssumption DEF LogInit, CallPhases
    <2>3. atExit \in 0 .. Len(accepted)
      BY <1>1, <2>1 DEF LogInit
    <2>4. \A t \in Threads : pc[t] = "idle"
      BY <1>1 DEF LogInit
    <2>5. QED
      BY <1>1, <2>1, <2>2, <2>3, <2>4, LoggerAssumption DEF LogInit, LogTypeOK, WorkerPhases
  <1>3. WrittenInOrder
    BY <1>1 DEF LogInit, WrittenInOrder
  <1>4. QED
    BY <1>1, <1>2, <1>3
       DEF LogInit, LoggerInv, HandInv, WrittenInv, LateInv, ThreadInv, Pushing, Flushing,
           Exiting, Done

\* A thread begins to push before exit is called only.
LEMMA PushInv ==
  ASSUME LoggerInv, NEW t \in Threads, Push(t)
  PROVE  LoggerInv'
  <1>1. UNCHANGED <<queueVars, exitVars>> /\ mMutex' = mMutex /\ worker' = worker
    BY DEF Push
  <1>2. LogTypeOK'
    BY LoggerAssumption
       DEF Push, Goto, LoggerInv, LogTypeOK, CallPhases, ExitPhases, queueVars, exitVars, fileVars
  <1>3. WrittenInOrder' /\ HandInv'
    BY <1>1, OrderUnmoved DEF LoggerInv, HandInv, queueVars, exitVars
  <1>4. \A u \in Threads : u # t => pc'[u] = pc[u] /\ sent'[u] = sent[u]
    BY DEF Push, Goto, LoggerInv, LogTypeOK
  <1>5. /\ pc[t] = "idle" /\ pc'[t] \in {"idle", "lock"} /\ sent'[t] >= 1
        /\ mShutdown => pc'[t] = "idle"
    BY LoggerAssumption DEF Push, Goto, LoggerInv, LogTypeOK
  <1>6. WrittenInv' /\ \A u \in Threads : ThreadInv(u)'
    BY <1>1, <1>4, <1>5
       DEF LoggerInv, WrittenInv, ThreadInv, Pushing, Flushing, Exiting, Done, queueVars, exitVars
  <1>7. LateInv'
    <2>1. CASE exiter = Nobody
      BY <1>1, <2>1 DEF LateInv, exitVars
    <2>2. CASE exiter # Nobody
      <3>1. \A u \in Threads : pc'[u] \in Pushing => pc[u] \in Pushing
        BY <1>4, <1>5, <2>2 DEF LoggerInv, LateInv, Pushing
      <3>2. QED
        BY <1>1, <3>1, LateUnmoved DEF queueVars
    <2>3. QED
      BY <2>1, <2>2
  <1>8. QED
    BY <1>2, <1>3, <1>6, <1>7 DEF LoggerInv

LEMMA LockInv ==
  ASSUME LoggerInv, NEW t \in Threads, Lock(t)
  PROVE  LoggerInv'
  <1>1. UNCHANGED <<queueVars, exitVars, worker, sent>>
    BY DEF Lock
  <1>2. LogTypeOK'
    BY LoggerAssumption
       DEF Lock, Goto, LoggerInv, LogTypeOK, CallPhases, ExitPhases, queueVars, exitVars, fileVars
  <1>3. \A u \in Threads : pc'[u] = IF u = t THEN "enqueue" ELSE pc[u]
    BY DEF Lock, Goto, LoggerInv, LogTypeOK
  <1>4. mMutex = Nobody /\ pc[t] = "lock"
    BY DEF Lock
  <1>5. HandInv'
    BY <1>1, <1>4, LoggerAssumption DEF LoggerInv, HandInv, queueVars, exitVars
  <1>6. \A u \in Threads : ThreadInv(u)'
    BY <1>1, <1>3, <1>4 DEF LoggerInv, ThreadInv, Pushing, Flushing, Exiting, exitVars
  <1>7. /\ \A u \in Threads : pc'[u] \in Pushing => pc[u] \in Pushing
        /\ \A u \in Threads : pc'[u] \in Done => pc[u] \in Done
    BY <1>3, <1>4 DEF Pushing, Done
  <1>8. QED
    BY <1>1, <1>2, <1>5, <1>6, <1>7, QuietStep

LEMMA EnqueueInv ==
  ASSUME LoggerInv, NEW t \in Threads, Enqueue(t)
  PROVE  LoggerInv'
  <1>1. mMutex = t /\ sent[t] \in 1 .. MaxMessages /\ pc[t] = "enqueue"
    BY LoggerAssumption DEF Enqueue, LoggerInv, LogTypeOK, ThreadInv, Pushing
  <1>2. <<t, sent[t]>> \in Messages
    BY <1>1 DEF Messages
  <1>3. /\ mQueue' \in Seq(Messages)
        /\ accepted' \in Seq(Messages) /\ Len(accepted') = Len(accepted) + 1
    BY <1>2, AppendProperties DEF Enqueue, LoggerInv, LogTypeOK
  <1>4. /\ UNCHANGED <<exitVars, worker, msg, sent, printed>>
        /\ \A u \in Threads : pc'[u] = IF u = t THEN "notify" ELSE pc[u]
    BY DEF Enqueue, Goto, LoggerInv, LogTypeOK
  <1>5. LogTypeOK'
    BY <1>1, <1>3, LoggerAssumption
       DEF Enqueue, Goto, LoggerInv, LogTypeOK, CallPhases, ExitPhases, exitVars, fileVars
  <1>6. WrittenInOrder'
    <2>1. /\ mQueue \in Seq(Messages) /\ msg \in Seq(Messages) /\ printed \in Seq(Messages)
          /\ accepted = printed \o msg \o mQueue
      BY DEF LoggerInv, LogTypeOK, WrittenInOrder
    <2>2. Append(accepted, <<t, sent[t]>>) = printed \o msg \o Append(mQueue, <<t, sent[t]>>)
      BY <1>2, <2>1, EnqueueKeepsOrder, Zenon
    <2>3. /\ accepted' = Append(accepted, <<t, sent[t]>>)
          /\ mQueue' = Append(mQueue, <<t, sent[t]>>)
          /\ printed' = printed /\ msg' = msg
      BY DEF Enqueue
    <2>4. QED
      BY <2>2, <2>3, Zenon DEF WrittenInOrder
  <1>7. HandInv'
    BY <1>1, <1>4, LoggerAssumption DEF LoggerInv, HandInv, exitVars
  <1>8. WrittenInv' /\ \A u \in Threads : ThreadInv(u)'
    BY <1>1, <1>4
       DEF LoggerInv, WrittenInv, ThreadInv, Pushing, Flushing, Exiting, Done, exitVars
  <1>9. LateInv'
    <2>1. SUFFICES ASSUME exiter # Nobody PROVE LateInv'
      BY <1>4 DEF LateInv, exitVars
    <2>2. DEFINE n == Len(accepted)
    <2>3. /\ mShutdown /\ atExit \in Nat /\ n \in Nat
          /\ \A i \in atExit + 1 .. n : pc[accepted[i][1]] \notin Pushing
          /\ \A i, j \in atExit + 1 .. n : accepted[i][1] = accepted[j][1] => i = j
      <3>1. LateInv
        BY DEF LoggerInv
      <3>2. accepted \in Seq(Messages) /\ atExit \in 0 .. Len(accepted)
        BY DEF LoggerInv, LogTypeOK
      <3>3. /\ mShutdown
            /\ \A i \in atExit + 1 .. n : pc[accepted[i][1]] \notin Pushing
            /\ \A i, j \in atExit + 1 .. n : accepted[i][1] = accepted[j][1] => i = j
        BY <2>1, <3>1 DEF LateInv
      <3>4. n \in Nat /\ atExit \in Nat
        BY <3>2, LenProperties
      <3> HIDE DEF n
      <3> QED
        BY <3>3, <3>4
    <2>4. /\ \A i \in 1 .. n : accepted'[i] = accepted[i] /\ accepted[i] \in Messages
          /\ accepted'[n + 1] = <<t, sent[t]>>
      <3>1. accepted \in Seq(Messages) /\ accepted' = Append(accepted, <<t, sent[t]>>)
        BY DEF Enqueue, LoggerInv, LogTypeOK
      <3>2. QED
        BY <1>2, <3>1, AppendProperties, ElementOfSeq
    <2> HIDE DEF n
    <2>5. \A i \in atExit + 1 .. n : accepted'[i] = accepted[i] /\ accepted[i][1] \in Threads \ {t}
      BY <1>1, <2>3, <2>4 DEF Messages, Pushing
    <2>6. \A i \in atExit + 1 .. n + 1 : i = n + 1 \/ i \in atExit + 1 .. n
      BY <2>3
    <2>7. \A i \in atExit + 1 .. n + 1 : pc'[accepted'[i][1]] \notin Pushing
      BY <1>4, <2>3, <2>4, <2>5, <2>6 DEF Pushing
    <2>8. \A i, j \in atExit + 1 .. n + 1 : accepted'[i][1] = accepted'[j][1] => i = j
      BY <2>3, <2>4, <2>5, <2>6
    <2>9. Len(accepted') = n + 1 /\ atExit' = atExit /\ mShutdown' = mShutdown
      BY <1>3, <1>4 DEF exitVars, n
    <2>10. QED
      BY <2>3, <2>7, <2>8, <2>9 DEF LateInv
  <1>10. QED
    BY <1>5, <1>6, <1>7, <1>8, <1>9 DEF LoggerInv

LEMMA NotifyInv ==
  ASSUME LoggerInv, NEW t \in Threads, Notify(t) \/ ShutdownNotify(t)
  PROVE  LoggerInv'
  <1>1. /\ UNCHANGED <<queueVars, fileVars, exitVars, mMutex, sent, serving>>
        /\ worker' = IF worker = "waiting" THEN "relock" ELSE worker
    BY DEF Notify, ShutdownNotify, NotifyOne
  <1>2. \/ /\ pc[t] = "notify"
           /\ \A u \in Threads : pc'[u] = IF u = t THEN "idle" ELSE pc[u]
        \/ /\ pc[t] = "shutdown"
           /\ \A u \in Threads : pc'[u] = IF u = t THEN "join" ELSE pc[u]
    BY DEF Notify, ShutdownNotify, Goto, LoggerInv, LogTypeOK
  <1>3. pc' \in [Threads -> CallPhases \cup ExitPhases]
    BY DEF Notify, ShutdownNotify, Goto, LoggerInv, LogTypeOK, CallPhases, ExitPhases
  <1>4. LogTypeOK'
    BY <1>1, <1>2, <1>3, LoggerAssumption
       DEF LoggerInv, LogTypeOK, WorkerPhases, queueVars, exitVars, fileVars
  <1>5. HandInv' /\ \A u \in Threads : ThreadInv(u)'
    BY <1>1, <1>2
       DEF LoggerInv, HandInv, ThreadInv, Pushing, Flushing, Exiting, queueVars, exitVars
  <1>6. /\ \A u \in Threads : pc'[u] \in Pushing => pc[u] \in Pushing
        /\ \A u \in Threads : pc'[u] \in Done => pc[u] \in Done
    BY <1>2 DEF Pushing, Done
  <1>7. QED
    BY <1>1, <1>4, <1>5, <1>6, QuietStep

LEMMA LogFileInv ==
  ASSUME LoggerInv, SetLogFile \/ OpenFile
  PROVE  LoggerInv'
  <1>1. UNCHANGED <<queueVars, exitVars, mMutex, worker, sent, serving>>
    BY DEF SetLogFile, OpenFile
  <1>2. \/ /\ pc[Main] = "idle" /\ mLogFileMutex' = Main
           /\ \A u \in Threads : pc'[u] = IF u = Main THEN "open" ELSE pc[u]
        \/ /\ pc[Main] = "open" /\ mLogFileMutex' = Nobody
           /\ \A u \in Threads : pc'[u] = IF u = Main THEN "idle" ELSE pc[u]
    BY DEF SetLogFile, OpenFile, Goto, LoggerInv, LogTypeOK
  <1>3. pc' \in [Threads -> CallPhases \cup ExitPhases] /\ mLogFile' \in BOOLEAN
    BY DEF SetLogFile, OpenFile, Goto, LoggerInv, LogTypeOK, CallPhases, ExitPhases
  <1>4. \A u \in Threads : pc[u] = "open" => u = Main
    BY LoggerAssumption DEF LoggerInv, LogTypeOK
  <1>5. LogTypeOK'
    BY <1>1, <1>2, <1>3, <1>4, LoggerAssumption DEF LoggerInv, LogTypeOK, queueVars, exitVars
  <1>6. HandInv' /\ \A u \in Threads : ThreadInv(u)'
    BY <1>1, <1>2, LoggerAssumption
       DEF LoggerInv, HandInv, ThreadInv, Pushing, Flushing, Exiting, queueVars, exitVars
  <1>7. /\ \A u \in Threads : pc'[u] \in Pushing => pc[u] \in Pushing
        /\ \A u \in Threads : pc'[u] \in Done => pc[u] \in Done
    BY <1>2, LoggerAssumption DEF Pushing, Done
  <1>8. QED
    BY <1>1, <1>5, <1>6, <1>7, QuietStep

-----------------------------------------------------------------------------
\* The worker's steps that move no message.
WorkerMoves ==
  \/ WorkerCheck \/ WorkerLock \/ WorkerTest \/ WorkerBlock \/ WorkerBreak \/ WorkerWrite
  \/ SpuriousWakeup

LEMMA WorkerMovesInv ==
  ASSUME LoggerInv, WorkerMoves
  PROVE  LoggerInv'
  <1>1. UNCHANGED <<queueVars, fileVars, exitVars, pc, sent, serving>>
    BY DEF WorkerMoves, WorkerCheck, WorkerLock, WorkerTest, WorkerBlock, WorkerBreak,
           WorkerWrite, SpuriousWakeup
  <1>2. /\ worker \notin {"print", "joining", "waits", "exited", "gone"}
        /\ worker' \in WorkerPhases \ {"print", "joining", "waits", "gone"}
        /\ \/ /\ worker' \in {"test", "block", "body"}
              /\ mMutex' = Worker /\ mMutex \in {Worker, Nobody}
           \/ /\ worker' \notin {"test", "block", "body", "file"}
              /\ \/ mMutex' = mMutex /\ mMutex # Worker
                 \/ mMutex' = Nobody /\ mMutex = Worker
    BY LoggerAssumption
       DEF WorkerMoves, WorkerCheck, WorkerLock, WorkerTest, WorkerBlock, WorkerBreak,
           WorkerWrite, SpuriousWakeup, LoggerInv, LogTypeOK, WorkerPhases
  <1>3. LogTypeOK'
    BY <1>1, <1>2, LoggerAssumption
       DEF LoggerInv, LogTypeOK, WorkerPhases, queueVars, exitVars, fileVars
  <1>4. HandInv' /\ \A t \in Threads : ThreadInv(t)'
    BY <1>1, <1>2 DEF LoggerInv, HandInv, ThreadInv, queueVars, exitVars
  <1>5. QED
    BY <1>1, <1>3, <1>4, QuietStep

LEMMA WorkerPopInv ==
  ASSUME LoggerInv, WorkerPop
  PROVE  LoggerInv'
  <1>1. mMutex = Worker /\ msg = <<>>
    BY DEF WorkerPop, LoggerInv, LogTypeOK, HandInv
  <1>2. /\ Head(mQueue) \in Messages /\ Tail(mQueue) \in Seq(Messages)
        /\ <<Head(mQueue)>> \in Seq(Messages)
    BY HeadTailProperties DEF WorkerPop, LoggerInv, LogTypeOK
  <1>3. LogTypeOK'
    BY <1>1, <1>2, LoggerAssumption
       DEF WorkerPop, LoggerInv, LogTypeOK, WorkerPhases, exitVars, fileVars
  <1>4. WrittenInOrder'
    BY <1>1, PopKeepsOrder DEF WorkerPop, LoggerInv, LogTypeOK, WrittenInOrder
  <1>5. HandInv'
    BY <1>1 DEF WorkerPop, HandInv
  <1>6. UNCHANGED <<exitVars, pc, sent, printed, accepted>> /\ worker = "body"
    BY DEF WorkerPop
  <1>7. WrittenInv' /\ LateInv' /\ \A t \in Threads : ThreadInv(t)'
    BY <1>6 DEF LoggerInv, WrittenInv, LateInv, ThreadInv, exitVars
  <1>8. QED
    BY <1>3, <1>4, <1>5, <1>7 DEF LoggerInv

LEMMA WorkerPrintInv ==
  ASSUME LoggerInv, WorkerPrint
  PROVE  LoggerInv'
  <1>1. mMutex = Worker
    BY DEF WorkerPrint, LoggerInv, LogTypeOK
  <1>2. /\ printed' \in Seq(Messages) /\ Len(printed') >= Len(printed)
        /\ printed \o msg \o mQueue = printed' \o <<>> \o mQueue
    BY PrintKeepsOrder DEF WorkerPrint, LoggerInv, LogTypeOK
  <1>3. LogTypeOK'
    BY <1>1, <1>2, LoggerAssumption
       DEF WorkerPrint, LoggerInv, LogTypeOK, WorkerPhases, exitVars, fileVars
  <1>4. WrittenInOrder'
    BY <1>2 DEF WorkerPrint, LoggerInv, WrittenInOrder
  <1>5. HandInv'
    BY DEF WorkerPrint, HandInv
  <1>6. UNCHANGED <<exitVars, pc, sent, accepted>> /\ worker = "print"
    BY DEF WorkerPrint
  <1>7. WrittenInv'
    BY <1>2, <1>6 DEF LoggerInv, LogTypeOK, WrittenInv, exitVars
  <1>8. LateInv' /\ \A t \in Threads : ThreadInv(t)'
    BY <1>6 DEF LoggerInv, LateInv, ThreadInv, exitVars
  <1>9. QED
    BY <1>3, <1>4, <1>5, <1>7, <1>8 DEF LoggerInv

\* The fork leaves the worker behind, whatever it is at.
LEMMA ServeInv ==
  ASSUME LoggerInv, Serve
  PROVE  LoggerInv'
  <1>1. /\ UNCHANGED <<queueVars, fileVars, exitVars, mMutex, pc, sent>>
        /\ serving' = TRUE /\ worker' \in {worker, "gone"}
    BY DEF Serve
  <1>2. LogTypeOK'
    BY <1>1 DEF LoggerInv, LogTypeOK, queueVars, exitVars, fileVars, WorkerPhases
  <1>3. HandInv' /\ \A t \in Threads : ThreadInv(t)'
    BY <1>1 DEF LoggerInv, HandInv, ThreadInv, queueVars, exitVars
  <1>4. QED
    BY <1>1, <1>2, <1>3, QuietStep

-----------------------------------------------------------------------------
\* Before exit is called for the first time nobody is in it, and what was accepted is
\* all that will have to be written.
LEMMA ExitByInv ==
  ASSUME LoggerInv, NEW e \in Threads \cup {Worker}, ExitBy(e)
  PROVE  /\ \A u \in Threads : pc[u] \in CallPhases
         /\ exiter' = e /\ mShutdown' = TRUE /\ atExit' = Len(accepted)
         /\ UNCHANGED <<queueVars, fileVars, again, mMutex, sent, serving>>
         /\ atExit' \in 0 .. Len(accepted)
         /\ WrittenInOrder' /\ LateInv'
  <1>1. \A u \in Threads : pc[u] \in CallPhases
    BY LoggerAssumption
       DEF ExitBy, LoggerInv, LogTypeOK, ThreadInv, CallPhases, ExitPhases, Exiting, Flushing
  <1>2. /\ exiter' = e /\ mShutdown' = TRUE /\ atExit' = Len(accepted)
        /\ UNCHANGED <<queueVars, fileVars, again, mMutex, sent, serving>>
    BY DEF ExitBy
  <1>3. Len(accepted) \in Nat /\ accepted' = accepted
    BY <1>2, LenProperties DEF LoggerInv, LogTypeOK, queueVars
  <1>4. WrittenInOrder'
    BY <1>2, OrderUnmoved DEF LoggerInv
  <1>5. LateInv'
    <2>1. atExit' + 1 .. Len(accepted') = {}
      BY <1>2, <1>3
    <2>2. QED
      BY <1>2, <2>1 DEF LateInv
  <1>6. QED
    BY <1>1, <1>2, <1>3, <1>4, <1>5

LEMMA ExitInv ==
  ASSUME LoggerInv, NEW t \in Threads, Exit(t)
  PROVE  LoggerInv'
  <1>1. /\ \A u \in Threads : pc[u] \in CallPhases
        /\ exiter' = t /\ mShutdown' = TRUE
        /\ UNCHANGED <<queueVars, fileVars, again, mMutex, sent, serving>>
        /\ atExit' \in 0 .. Len(accepted)
        /\ WrittenInOrder' /\ LateInv'
    BY ExitByInv DEF Exit
  <1>2. /\ \A u \in Threads : pc'[u] = IF u = t THEN "shutdown" ELSE pc[u]
        /\ worker' = worker
    BY DEF Exit, Goto, LoggerInv, LogTypeOK
  <1>3. pc' \in [Threads -> CallPhases \cup ExitPhases]
    BY DEF Exit, Goto, LoggerInv, LogTypeOK, ExitPhases
  <1>4. LogTypeOK'
    BY <1>1, <1>2, <1>3, LoggerAssumption DEF LoggerInv, LogTypeOK, queueVars, fileVars
  <1>5. HandInv'
    BY <1>1, <1>2, LoggerAssumption DEF Exit, ExitBy, LoggerInv, HandInv, queueVars
  <1>6. WrittenInv' /\ \A u \in Threads : ThreadInv(u)'
    BY <1>1, <1>2, LoggerAssumption
       DEF LoggerInv, WrittenInv, ThreadInv, CallPhases, Pushing, Flushing, Exiting, Done
  <1>7. QED
    BY <1>1, <1>4, <1>5, <1>6 DEF LoggerInv

LEMMA ExitOnWorkerInv ==
  ASSUME LoggerInv, ExitOnWorker
  PROVE  LoggerInv'
  <1>1. /\ \A u \in Threads : pc[u] \in CallPhases
        /\ exiter' = Worker /\ mShutdown' = TRUE
        /\ UNCHANGED <<queueVars, fileVars, again, mMutex, sent, serving>>
        /\ atExit' \in 0 .. Len(accepted)
        /\ WrittenInOrder' /\ LateInv'
    BY ExitByInv DEF ExitOnWorker
  <1>2. worker' = "joining" /\ pc' = pc
    BY DEF ExitOnWorker
  <1>3. LogTypeOK'
    BY <1>1, <1>2 DEF LoggerInv, LogTypeOK, WorkerPhases, queueVars, fileVars
  <1>4. HandInv'
    BY <1>1, <1>2 DEF LoggerInv, HandInv, queueVars
  <1>5. WrittenInv' /\ \A u \in Threads : ThreadInv(u)'
    BY <1>1, <1>2
       DEF LoggerInv, WrittenInv, ThreadInv, CallPhases, Pushing, Flushing, Exiting
  <1>6. QED
    BY <1>1, <1>3, <1>4, <1>5 DEF LoggerInv

LEMMA JoinInv ==
  ASSUME LoggerInv, NEW t \in Threads, Join(t)
  PROVE  LoggerInv'
  <1>1. UNCHANGED <<queueVars, fileVars, exitVars, mMutex, worker, sent, serving>>
    BY DEF Join
  <1>2. /\ pc[t] = "join" /\ worker \in {"exited", "gone"}
        /\ \A u \in Threads : pc'[u] = IF u = t THEN "flush" ELSE pc[u]
    BY DEF Join, Goto, LoggerInv, LogTypeOK
  <1>3. LogTypeOK'
    BY LoggerAssumption
       DEF Join, Goto, LoggerInv, LogTypeOK, CallPhases, ExitPhases, queueVars, exitVars, fileVars
  <1>4. HandInv' /\ \A u \in Threads : ThreadInv(u)'
    BY <1>1, <1>2
       DEF LoggerInv, HandInv, ThreadInv, Pushing, Flushing, Exiting, queueVars, exitVars
  <1>5. /\ \A u \in Threads : pc'[u] \in Pushing => pc[u] \in Pushing
        /\ \A u \in Threads : pc'[u] \in Done => pc[u] \in Done
    BY <1>2 DEF Pushing, Done
  <1>6. QED
    BY <1>1, <1>3, <1>4, <1>5, QuietStep

-----------------------------------------------------------------------------
\* flush().  Whoever has the mutex to flush finds no message in the worker's hands.
LEMMA FlushMovesInv ==
  ASSUME LoggerInv, NEW t \in Threads, FlushLock(t) \/ FlushWrite(t) \/ FlushFile(t)
  PROVE  LoggerInv'
  <1>1. UNCHANGED <<queueVars, fileVars, exitVars, worker, sent, serving>>
    BY DEF FlushLock, FlushWrite, FlushFile
  <1>2. \/ /\ pc[t] = "flush" /\ mMutex = Nobody /\ mMutex' = t
           /\ \A u \in Threads : pc'[u] = IF u = t THEN "drain" ELSE pc[u]
        \/ /\ pc[t] = "file" /\ mMutex' = mMutex
           /\ \A u \in Threads : pc'[u] = IF u = t THEN "drain" ELSE pc[u]
        \/ /\ pc[t] = "sync" /\ mMutex' = mMutex
           /\ \A u \in Threads : pc'[u] = IF u = t THEN "flushed" ELSE pc[u]
    BY DEF FlushLock, FlushWrite, FlushFile, Goto, LoggerInv, LogTypeOK
  <1>3. pc' \in [Threads -> CallPhases \cup ExitPhases]
    BY DEF FlushLock, FlushWrite, FlushFile, Goto, LoggerInv, LogTypeOK, ExitPhases
  <1>4. worker \in {"exited", "gone"}
    BY <1>2 DEF LoggerInv, ThreadInv, Flushing
  <1>5. LogTypeOK'
    BY <1>1, <1>2, <1>3, <1>4, LoggerAssumption
       DEF LoggerInv, LogTypeOK, queueVars, exitVars, fileVars
  <1>6. HandInv' /\ \A u \in Threads : ThreadInv(u)'
    BY <1>1, <1>2, LoggerAssumption
       DEF LoggerInv, HandInv, ThreadInv, Pushing, Flushing, Exiting, queueVars, exitVars
  <1>7. /\ \A u \in Threads : pc'[u] \in Pushing => pc[u] \in Pushing
        /\ \A u \in Threads : pc'[u] \in Done => pc[u] \in Done
    BY <1>2 DEF Pushing, Done
  <1>8. QED
    BY <1>1, <1>5, <1>6, <1>7, QuietStep

LEMMA FlushPrintInv ==
  ASSUME LoggerInv, NEW t \in Threads, FlushPrint(t)
  PROVE  LoggerInv'
  <1>1. mMutex = t /\ msg = <<>> /\ pc[t] = "drain"
    BY LoggerAssumption DEF FlushPrint, LoggerInv, LogTypeOK, HandInv
  <1>2. /\ Head(mQueue) \in Messages /\ Tail(mQueue) \in Seq(Messages)
        /\ <<Head(mQueue)>> \in Seq(Messages)
    BY HeadTailProperties DEF FlushPrint, LoggerInv, LogTypeOK
  <1>3. /\ printed' = printed \o <<Head(mQueue)>> /\ printed' \in Seq(Messages)
        /\ Len(printed') = Len(printed) + 1
    BY <1>2, AppendIsConcat, AppendProperties DEF FlushPrint, LoggerInv, LogTypeOK
  <1>4. /\ UNCHANGED <<exitVars, mMutex, worker, msg, sent, accepted>> /\ mQueue' = Tail(mQueue)
        /\ \A u \in Threads : pc'[u] = IF u = t THEN "file" ELSE pc[u]
    BY DEF FlushPrint, Goto, LoggerInv, LogTypeOK
  <1>5. LogTypeOK'
    BY <1>1, <1>2, <1>3, LoggerAssumption
       DEF FlushPrint, Goto, LoggerInv, LogTypeOK, CallPhases, ExitPhases, exitVars, fileVars
  <1>6. WrittenInOrder'
    <2>1. printed \in Seq(Messages) /\ mQueue \in Seq(Messages) /\ mQueue # <<>>
      BY DEF FlushPrint, LoggerInv, LogTypeOK
    <2>2. printed \o <<>> \o mQueue = printed \o <<Head(mQueue)>> \o Tail(mQueue)
      BY <2>1, PopKeepsOrder
    <2>3. printed' \o <<>> = printed'
      BY <1>3, ConcatEmptySeq
    <2>4. QED
      BY <1>1, <1>3, <1>4, <2>2, <2>3 DEF LoggerInv, WrittenInOrder
  <1>7. HandInv'
    BY <1>1, <1>4 DEF LoggerInv, HandInv, exitVars
  <1>8. WrittenInv'
    <2>1. Len(printed) \in Nat /\ atExit \in Nat
      BY LenProperties DEF LoggerInv, LogTypeOK
    <2>2. Len(printed) >= atExit => Len(printed') >= atExit
      BY <1>3, <2>1
    <2>3. \A u \in Threads : pc'[u] \in Done => pc[u] \in Done
      BY <1>4 DEF Done
    <2>4. atExit' = atExit /\ exiter' = exiter /\ again' = again
      BY <1>4 DEF exitVars
    <2>5. QED
      BY <2>2, <2>3, <2>4 DEF LoggerInv, WrittenInv
  <1>9. LateInv'
    <2>1. \A u \in Threads : pc'[u] \in Pushing => pc[u] \in Pushing
      BY <1>4 DEF Pushing
    <2>2. QED
      BY <1>4, <2>1, LateUnmoved
  <1>10. \A u \in Threads : ThreadInv(u)'
    BY <1>1, <1>4 DEF LoggerInv, ThreadInv, Pushing, Flushing, Exiting, exitVars
  <1>11. QED
    BY <1>5, <1>6, <1>7, <1>8, <1>9, <1>10 DEF LoggerInv

\* flush() leaves the queue when it is empty: then all that was accepted is printed.
LEMMA FlushUnlockInv ==
  ASSUME LoggerInv, NEW t \in Threads, FlushUnlock(t)
  PROVE  LoggerInv'
  <1>1. mMutex = t /\ msg = <<>> /\ mQueue = <<>> /\ pc[t] = "drain"
    BY LoggerAssumption DEF FlushUnlock, LoggerInv, LogTypeOK, HandInv
  <1>2. accepted = printed
    BY <1>1, ConcatEmptySeq DEF LoggerInv, LogTypeOK, WrittenInOrder
  <1>3. /\ UNCHANGED <<queueVars, fileVars, exitVars, worker, sent, serving>> /\ mMutex' = Nobody
        /\ \A u \in Threads : pc'[u] = IF u = t THEN "sync" ELSE pc[u]
    BY DEF FlushUnlock, Goto, LoggerInv, LogTypeOK
  <1>4. pc' \in [Threads -> CallPhases \cup ExitPhases]
    BY DEF FlushUnlock, Goto, LoggerInv, LogTypeOK, ExitPhases
  <1>5. worker \in {"exited", "gone"}
    BY <1>1 DEF LoggerInv, ThreadInv, Flushing
  <1>6. LogTypeOK'
    BY <1>1, <1>3, <1>4, <1>5, LoggerAssumption
       DEF LoggerInv, LogTypeOK, queueVars, exitVars, fileVars
  <1>7. WrittenInOrder' /\ HandInv'
    BY <1>1, <1>3, OrderUnmoved DEF LoggerInv, HandInv, queueVars, exitVars
  <1>8. WrittenInv'
    <2>1. atExit <= Len(accepted)
      BY LenProperties DEF LoggerInv, LogTypeOK
    <2>2. Len(printed') >= atExit'
      BY <1>2, <1>3, <2>1, LenProperties DEF LoggerInv, LogTypeOK, queueVars, exitVars
    <2>3. QED
      BY <2>2 DEF WrittenInv
  <1>9. \A u \in Threads : ThreadInv(u)'
    BY <1>1, <1>3 DEF LoggerInv, ThreadInv, Pushing, Flushing, Exiting, exitVars
  <1>10. LateInv'
    <2>1. \A u \in Threads : pc'[u] \in Pushing => pc[u] \in Pushing
      BY <1>3 DEF Pushing
    <2>2. QED
      BY <1>3, <2>1, LateUnmoved DEF queueVars
  <1>11. QED
    BY <1>6, <1>7, <1>8, <1>9, <1>10 DEF LoggerInv

\* The end of the process: regular, by the worker's exit, or by a second exit.
LEMMA EndsInv ==
  ASSUME LoggerInv, LogTypeOK', ProcessEnds, exiter # Nobody,
         UNCHANGED <<queueVars, fileVars, mShutdown, exiter, atExit, mMutex, sent, serving>>,
         \/ \E t \in Threads : pc[t] \in Done /\ again' = again
         \/ exiter = Worker
         \/ again'
  PROVE  LoggerInv'
  <1>1. worker' = "gone" /\ \A u \in Threads : pc'[u] = "ended"
    BY DEF ProcessEnds
  <1>2. WrittenInOrder' /\ HandInv'
    BY <1>1, OrderUnmoved DEF LoggerInv, HandInv, queueVars
  <1>3. WrittenInv'
    BY <1>1 DEF LoggerInv, WrittenInv, queueVars
  <1>4. LateInv'
    <2>1. \A i \in atExit + 1 .. Len(accepted) : accepted[i][1] \in Threads
      BY LateThreads
    <2>2. QED
      BY <1>1, <2>1 DEF LoggerInv, LateInv, Pushing, queueVars
  <1>5. \A u \in Threads : ThreadInv(u)'
    BY <1>1 DEF LoggerInv, ThreadInv, Pushing, Flushing, Exiting
  <1>6. QED
    BY <1>2, <1>3, <1>4, <1>5 DEF LoggerInv

LEMMA EndInv ==
  ASSUME LoggerInv, JoinItself \/ \E t \in Threads : End(t)
  PROVE  LoggerInv'
  <1>1. UNCHANGED <<queueVars, fileVars, exitVars, mMutex, sent, serving>> /\ ProcessEnds
    BY DEF JoinItself, End
  <1>2. LogTypeOK'
    BY <1>1
       DEF ProcessEnds, LoggerInv, LogTypeOK, ExitPhases, WorkerPhases, queueVars, exitVars, fileVars
  <1>3. exiter # Nobody /\ (exiter = Worker \/ \E t \in Threads : pc[t] \in Done)
    BY LoggerAssumption DEF JoinItself, End, LoggerInv, HandInv, ThreadInv, Flushing, Exiting, Done
  <1>4. QED
    BY <1>1, <1>2, <1>3, EndsInv DEF exitVars

LEMMA SecondExitInv ==
  ASSUME LoggerInv, SecondExitOnWorker \/ \E t \in Threads : SecondExit(t)
  PROVE  LoggerInv'
  <1>1. /\ exiter # Nobody /\ again' = TRUE
        /\ UNCHANGED <<queueVars, fileVars, mShutdown, exiter, atExit, mMutex, sent, serving>>
    BY DEF SecondExitOnWorker, SecondExit, ExitAgain
  <1>2. CASE ProcessEnds
    <2>1. LogTypeOK'
      BY <1>1, <1>2
         DEF ProcessEnds, LoggerInv, LogTypeOK, ExitPhases, WorkerPhases, queueVars, fileVars
    <2>2. QED
      BY <1>1, <1>2, <2>1, EndsInv
  <1>3. ASSUME worker' = "waits", pc' = pc, WorkerRuns
        PROVE  LoggerInv'
    <2>1. LogTypeOK'
      BY <1>1, <1>3 DEF LoggerInv, LogTypeOK, WorkerPhases, queueVars, fileVars
    <2>2. WrittenInOrder' /\ HandInv'
      BY <1>1, <1>3, OrderUnmoved DEF LoggerInv, HandInv, queueVars
    <2>3. WrittenInv' /\ LateInv' /\ \A u \in Threads : ThreadInv(u)'
      BY <1>1, <1>3 DEF LoggerInv, WrittenInv, LateInv, ThreadInv, WorkerRuns, queueVars
    <2>4. QED
      BY <2>1, <2>2, <2>3 DEF LoggerInv
  <1>4. ASSUME NEW t \in Threads, t # exiter, Goto(t, "waits"), worker' = worker
        PROVE  LoggerInv'
    <2>1. \A u \in Threads : pc'[u] = IF u = t THEN "waits" ELSE pc[u]
      BY <1>4 DEF Goto, LoggerInv, LogTypeOK
    <2>2. LogTypeOK'
      BY <1>1, <1>4
         DEF Goto, LoggerInv, LogTypeOK, CallPhases, ExitPhases, queueVars, fileVars
    <2>3. WrittenInOrder' /\ HandInv'
      BY <1>1, <1>4, OrderUnmoved DEF LoggerInv, HandInv, queueVars
    <2>4. WrittenInv' /\ \A u \in Threads : ThreadInv(u)'
      BY <1>1, <1>4, <2>1
         DEF LoggerInv, WrittenInv, ThreadInv, Pushing, Flushing, Exiting, queueVars
    <2>5. LateInv'
      <3>1. \A i \in atExit + 1 .. Len(accepted) : accepted[i][1] \in Threads
        BY LateThreads
      <3>2. \A u \in Threads : pc'[u] \in Pushing => pc[u] \in Pushing
        BY <2>1 DEF Pushing
      <3>3. QED
        BY <1>1, <3>1, <3>2 DEF LoggerInv, LateInv, queueVars
    <2>6. QED
      BY <2>2, <2>3, <2>4, <2>5 DEF LoggerInv
  <1>5. QED
    BY <1>2, <1>3, <1>4 DEF SecondExitOnWorker, SecondExit

-----------------------------------------------------------------------------
LEMMA NextLoggerInv == LoggerInv /\ [LogNext]_logVars => LoggerInv'
  <1>1. SUFFICES ASSUME LoggerInv, [LogNext]_logVars PROVE LoggerInv'
    OBVIOUS
  <1>2. CASE WorkerStep \/ SpuriousWakeup
    BY <1>1, <1>2, WorkerMovesInv, WorkerPopInv, WorkerPrintInv, EndInv DEF WorkerStep, WorkerMoves
  <1>3. CASE Serve \/ SetLogFile \/ OpenFile \/ ExitOnWorker \/ SecondExitOnWorker
    BY <1>1, <1>3, ServeInv, LogFileInv, ExitOnWorkerInv, SecondExitInv
  <1>4. ASSUME NEW t \in Threads,
               Push(t) \/ PushStep(t) \/ Exit(t) \/ ExitStep(t) \/ SecondExit(t)
        PROVE  LoggerInv'
    <2>1. CASE Push(t) \/ PushStep(t) \/ Exit(t) \/ SecondExit(t)
      BY <1>1, <2>1, PushInv, LockInv, EnqueueInv, NotifyInv, ExitInv, SecondExitInv DEF PushStep
    <2>2. CASE ExitStep(t)
      BY <1>1, <2>2, NotifyInv, JoinInv, FlushMovesInv, FlushPrintInv, FlushUnlockInv, EndInv
         DEF ExitStep
    <2>3. QED
      BY <1>4, <2>1, <2>2
  <1>5. CASE UNCHANGED logVars
    BY <1>1, <1>5
       DEF logVars, queueVars, exitVars, fileVars, LoggerInv, LogTypeOK, WrittenInOrder,
           HandInv, WrittenInv, LateInv, ThreadInv
  <1>6. QED
    BY <1>1, <1>2, <1>3, <1>4, <1>5 DEF LogNext

\* The inductive invariant holds throughout.
THEOREM LoggerInvariant == LogSpec => []LoggerInv
  BY InitLoggerInv, NextLoggerInv, PTL DEF LogSpec

\* Type correctness: the queue is touched by the holder of the mutex only, across
\* exits, signals and the fork.
THEOREM LoggerTypeCorrect == LogSpec => []LogTypeOK
  <1>1. LoggerInv => LogTypeOK
    BY DEF LoggerInv
  <1>2. QED
    BY <1>1, LoggerInvariant, PTL

\* Every message is written once, in the order of the pushes.
THEOREM LogWrittenInOrder == LogSpec => []WrittenInOrder
  <1>1. LoggerInv => WrittenInOrder
    BY DEF LoggerInv
  <1>2. QED
    BY <1>1, LoggerInvariant, PTL

\* What was accepted before exit was called is written when flush() is done, and of
\* what was accepted later there is one message of a thread at most; unless exit ran
\* on the worker or a second time, which may pass over flush().
THEOREM LogNothingLostAtExit == LogSpec => []NothingLostAtExit
  <1>1. LoggerInv => NothingLostAtExit
    BY LoggerAssumption
       DEF LoggerInv, NothingLostAtExit, WrittenInv, LateInv, ThreadInv, Done, Flushing, Exiting
  <1>2. QED
    BY <1>1, LoggerInvariant, PTL
=============================================================================
