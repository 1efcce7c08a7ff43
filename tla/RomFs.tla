-------------------------------- MODULE RomFs --------------------------------
(***************************************************************************)
(* formats::RomFileSystem over its four tables: lookup of paths through    *)
(* the hash chains (EntryMap, findRecursive), directories read through the *)
(* sibling lists (readImpl), and directories read in pages, each resumed   *)
(* from the name that ended the last one (forEachEntry).                   *)
(*                                                                         *)
(* The tables never change once they are in memory, and what the lookup    *)
(* caches add is RomFileTable's subject.  A table maps positions to        *)
(* entries; an entry has the fields parent, name, chain (the next of its   *)
(* bucket) and sibling, and, in the table of directories, dir and file,    *)
(* its first children.  A read at another position fails.  A name is a     *)
(* sequence, for its length counts; a path is a sequence of names.  What   *)
(* is asked of an image m is an operator with m as its first parameter.    *)
(***************************************************************************)
EXTENDS Integers, Sequences, FiniteSets, Functions

CONSTANTS
  CalcHash(_, _),   \* the hash of a parent and a name
  MaxPath,          \* cMaxPath, the longest name that a lookup accepts
  Images,           \* [dirs, files |-> table, dirBuckets, fileBuckets |-> positions]
  MaxRoom           \* bound of the model: entries that fit into a page

\* A name as it is listed: the buffer has room for one byte less than a lookup
\* accepts.
Listed(name) == SubSeq(name, 1, IF Len(name) < MaxPath THEN Len(name) ELSE MaxPath - 1)

ListedNames(table) == {Listed(table[p].name) : p \in DOMAIN table}

\* What is listed, with the directory where it is and the name that it has there.
Listings(table, type) ==
  {<<type, p, table[p].parent, Listed(table[p].name)>> : p \in DOMAIN table}

IsTable(table) ==
  /\ IsFiniteSet(DOMAIN table) /\ DOMAIN table \subseteq Nat
  /\ \A p \in DOMAIN table : table[p].name \in Seq(Nat)

\* There are buckets, or the hash is divided by zero; and what is listed in one
\* directory has distinct names, or the name that ends a page does not tell
\* where the next one begins.
ASSUME RomFsAssumption ==
  /\ MaxPath \in Nat \ {0} /\ MaxRoom \in Nat \ {0}
  /\ \A m \in Images :
       /\ IsTable(m.dirs) /\ IsTable(m.files)
       /\ m.dirBuckets \in Seq(Int) /\ m.dirBuckets # <<>>
       /\ m.fileBuckets \in Seq(Int) /\ m.fileBuckets # <<>>
       /\ \A p \in DOMAIN m.dirs \cup {0}, name \in ListedNames(m.dirs) \cup ListedNames(m.files) :
            CalcHash(p, name) \in Nat
       /\ \A x, y \in Listings(m.dirs, "directory") \cup Listings(m.files, "file") :
            x[3] = y[3] /\ x[4] = y[4] => x = y

VARIABLES
  image,     \* the tables
  dir,       \* the directory that is open, or NoDirectory
  pages,     \* the entries delivered by its pages
  phase      \* "closed", "paging", "finished" or "hung"

vars == <<image, dir, pages, phase>>

End == -1           \* 0xffffffff, the end of every list
None == -1          \* nothing found
Loops == -2         \* the walk does not come to an end
Root == <<>>

-----------------------------------------------------------------------------
Chains(table) == [p \in DOMAIN table |-> table[p].chain]
SiblingsIn(table) == [p \in DOMAIN table |-> table[p].sibling]

\* The first `Cardinality(DOMAIN next) + 1` positions of a list: one more than
\* it can have without coming back to one.
Follow(next, first) ==
  LET at[i \in 0 .. Cardinality(DOMAIN next)] ==
        IF i = 0 THEN first
        ELSE IF at[i - 1] \in DOMAIN next THEN next[at[i - 1]] ELSE End
  IN at

\* The first of the steps at which a walk ends; Loops if there is none.
FirstEnd(ends) ==
  IF ends = {} THEN Loops ELSE CHOOSE i \in ends : \A j \in ends : i <= j

\* A mutant: an entry whose chain leads to itself is not noticed.
FoundUnguarded(table, at, parent, name) ==
  LET Usable(i) == at[i] \in DOMAIN table /\ Len(table[at[i]].name) \in 1 .. MaxPath
      Matches(i) == table[at[i]].parent = parent /\ table[at[i]].name = name
      last == FirstEnd({i \in DOMAIN at : ~ Usable(i) \/ Matches(i)})
  IN IF last = Loops THEN Loops
     ELSE IF Usable(last) /\ Matches(last) THEN at[last] ELSE None

\* A mutant: the parent is not compared.
FoundByName(table, at, parent, name) ==
  LET Usable(i) == at[i] \in DOMAIN table /\ Len(table[at[i]].name) \in 1 .. MaxPath
      Matches(i) == table[at[i]].name = name
      last == FirstEnd({i \in DOMAIN at :
                          ~ Usable(i) \/ Matches(i) \/ at[i] = table[at[i]].chain})
  IN IF last = Loops THEN Loops
     ELSE IF Usable(last) /\ Matches(last) THEN at[last] ELSE None

\* The entry along a chain with this parent and name.  The walk gives up on an
\* entry that cannot be read, whose name is too long or empty, or whose chain
\* leads to itself.
Found(table, at, parent, name) ==
  LET Usable(i) == at[i] \in DOMAIN table /\ Len(table[at[i]].name) \in 1 .. MaxPath
      Matches(i) == table[at[i]].parent = parent /\ table[at[i]].name = name
      last == FirstEnd({i \in DOMAIN at :
                          ~ Usable(i) \/ Matches(i) \/ at[i] = table[at[i]].chain})
  IN IF last = Loops THEN Loops
     ELSE IF Usable(last) /\ Matches(last) THEN at[last] ELSE None

\* The chain of the bucket for a parent and a name.
BucketOf(table, buckets, parent, name) ==
  Follow(Chains(table), buckets[(CalcHash(parent, name) % Len(buckets)) + 1])

\* EntryMap::find.
Find(table, buckets, parent, name) ==
  Found(table, BucketOf(table, buckets, parent, name), parent, name)

\* One component of findRecursive.
FindIn(table, buckets, parent, name) ==
  IF parent \in {None, Loops} THEN parent ELSE Find(table, buckets, parent, name)

\* findRecursive from the root, through the table of directories: where the first
\* k components of a path lead.
Descent(m, path) ==
  LET at[k \in 0 .. Len(path)] ==
        IF k = 0 THEN 0 ELSE FindIn(m.dirs, m.dirBuckets, at[k - 1], path[k])
  IN at

\* findDirectory and findFile: the last component of a file is looked for in the
\* table of files.
FindDirectory(m, path) ==
  IF path = Root THEN None ELSE Descent(m, path)[Len(path)]

FindFile(m, path) ==
  IF path = Root THEN None
  ELSE FindIn(m.files, m.fileBuckets, Descent(m, path)[Len(path) - 1], path[Len(path)])

\* What a caller makes of a lookup.  One that runs around a circle does not return.
Outcome(found, table) ==
  IF found \in DOMAIN table THEN "yes" ELSE IF found = Loops THEN "hangs" ELSE "no"

\* getAttributes: what is at a path, or "none".  A file hides a directory, and is
\* looked for first: a directory's attributes wait for the lookup of a file.
TypeOf(m, path) ==
  LET file == Outcome(FindFile(m, path), m.files)
      directory == Outcome(FindDirectory(m, path), m.dirs)
  IN IF path = Root THEN "directory"
     ELSE IF file = "yes" THEN "file"
     ELSE IF file = "no" /\ directory = "yes" THEN "directory"
     ELSE IF file = "no" /\ directory = "no" THEN "none"
     ELSE "hangs"

\* access for reading: "yes", "no" or "hangs".
Accessible(m, path) ==
  LET file == Outcome(FindFile(m, path), m.files)
  IN IF path = Root THEN "yes"
     ELSE IF file = "no" THEN Outcome(FindDirectory(m, path), m.dirs) ELSE file

\* openFile for reading, and openDirectory: "yes", "no" or "hangs".
Opens(m, path, type) ==
  IF type = "file" THEN Outcome(FindFile(m, path), m.files)
  ELSE IF path = Root THEN "yes"
  ELSE Outcome(FindDirectory(m, path), m.dirs)

-----------------------------------------------------------------------------
NoDirectory == [path |-> Root, dir |-> End, file |-> End]

\* The position of a directory; that of the root is not looked up.
Home(m, path) == IF path = Root THEN 0 ELSE FindDirectory(m, path)

\* A Directory: the path it was opened with and the heads of its lists.
\* getRoot does not ask whether the root could be read, and
\* takes zeros for its heads if not.
DirectoryAt(m, path) ==
  IF Home(m, path) \in DOMAIN m.dirs
  THEN LET entry == m.dirs[Home(m, path)]
       IN [path |-> path, dir |-> entry.dir, file |-> entry.file]
  ELSE [path |-> path, dir |-> 0, file |-> 0]

\* The step of a walk along siblings at which it comes to what cannot be read.
LengthOf(table, at) == FirstEnd({i \in DOMAIN at : at[i] \notin DOMAIN table})

\* A mutant: the name is not cut.
ListUncut(table, at, type) ==
  LET count == LengthOf(table, at)
      n == IF count = Loops THEN 0 ELSE count
  IN [entries |-> [i \in 1 .. n |-> [name |-> table[at[i - 1]].name, type |-> type]],
      outcome |-> IF count = Loops THEN "loops" ELSE IF at[count] = End THEN "ends" ELSE "breaks"]

\* The entries along a sibling list as far as they can be read, and whether the
\* list ends as it should, breaks off or never ends.
List(table, at, type) ==
  LET count == LengthOf(table, at)
      n == IF count = Loops THEN 0 ELSE count
  IN [entries |-> [i \in 1 .. n |-> [name |-> Listed(table[at[i - 1]].name), type |-> type]],
      outcome |-> IF count = Loops THEN "loops" ELSE IF at[count] = End THEN "ends" ELSE "breaks"]

\* The siblings from a position on.
Siblings(table, first, type) == List(table, Follow(SiblingsIn(table), first), type)

\* What there is room for of two lists, and the number of those that are left
\* behind the offset, room or not.
Window(dirs, files, max, offset) ==
  LET all == dirs.entries \o files.entries
      left == IF offset < Len(all) THEN Len(all) - offset ELSE 0
  IN IF dirs.outcome # "ends" \/ files.outcome # "ends"
     THEN [ok |-> FALSE, entries |-> <<>>, count |-> 0]
     ELSE [ok |-> TRUE, count |-> left,
           entries |-> SubSeq(all, offset + 1, offset + (IF max < left THEN max ELSE left))]

\* readImpl.
Read(m, d, max, offset) ==
  Window(Siblings(m.dirs, d.dir, "directory"), Siblings(m.files, d.file, "file"), max, offset)

GetCount(m, d) == Read(m, d, 0, 0)

\* ReadDir of the FUSE front end: a buffer for as many entries as are counted.
ReadDir(m, d) == Read(m, d, GetCount(m, d).count, 0).entries

\* A mutant: behind a directory's name the files are looked for as well.
HeadsForgettingSeek(m, d, marker) ==
  LET inDirs == d.dir # End /\ FindDirectory(m, Append(d.path, marker)) \in DOMAIN m.dirs
      inFiles == FindFile(m, Append(d.path, marker)) \in DOMAIN m.files
  IN [dir |-> IF marker = <<>> \/ d.dir = End THEN d.dir
              ELSE IF inDirs THEN m.dirs[FindDirectory(m, Append(d.path, marker))].sibling ELSE End,
      file |-> IF marker = <<>> \/ d.file = End THEN d.file
               ELSE IF inFiles THEN m.files[FindFile(m, Append(d.path, marker))].sibling ELSE End]

\* Where forEachEntry goes on behind a marker: the empty one stands before all
\* entries, a directory's name before the rest of the directories and all the
\* files, a file's before the rest of the files, any other behind everything, if the
\* lookups of the marker return.
Heads(m, d, marker) ==
  LET inDirs == d.dir # End /\ FindDirectory(m, Append(d.path, marker)) \in DOMAIN m.dirs
      inFiles == FindFile(m, Append(d.path, marker)) \in DOMAIN m.files
  IN [dir |-> IF marker = <<>> \/ d.dir = End THEN d.dir
              ELSE IF inDirs THEN m.dirs[FindDirectory(m, Append(d.path, marker))].sibling ELSE End,
      file |-> IF marker = <<>> \/ inDirs \/ d.file = End THEN d.file
               ELSE IF inFiles THEN m.files[FindFile(m, Append(d.path, marker))].sibling ELSE End]

\* A lookup of the marker that does not return: that of a directory, which comes
\* first, or that of a file, which is made if there is no such directory.
SeekHangs(m, d, marker) ==
  LET directory == IF d.dir = End THEN "no"
                   ELSE Outcome(FindDirectory(m, Append(d.path, marker)), m.dirs)
      file == IF d.file = End THEN "no"
              ELSE Outcome(FindFile(m, Append(d.path, marker)), m.files)
  IN marker # <<>> /\ "hangs" = IF directory = "no" THEN file ELSE directory

\* What forEachEntry comes to.  The files follow when the directories are through;
\* what cannot be read ends it without a word.
Ahead(dirs, files) == IF dirs.outcome = "ends" THEN dirs.entries \o files.entries ELSE dirs.entries

\* What a callback with room for `room` entries takes.
Page(all, room) == SubSeq(all, 1, IF room < Len(all) THEN room ELSE Len(all))

\* forEachEntry.
ForEachEntry(m, d, marker, room) ==
  LET heads == Heads(m, d, marker)
  IN Page(Ahead(Siblings(m.dirs, heads.dir, "directory"), Siblings(m.files, heads.file, "file")),
          room)

-----------------------------------------------------------------------------
\* readImpl never comes to the end of this directory, and pages of it would
\* bring the same entries for ever.
NeverEnds(m, d) ==
  \/ Siblings(m.dirs, d.dir, "directory").outcome = "loops"
  \/ Siblings(m.files, d.file, "file").outcome = "loops"

\* The paths that a user can know: those that lists lead to.
Below(m, paths) ==
  paths \cup UNION {
    LET entries == ReadDir(m, DirectoryAt(m, path))
    IN {Append(path, entries[i].name) : i \in DOMAIN entries} :
       path \in {p \in paths : Opens(m, p, "directory") = "yes"}}

Depth == 3  \* bound of the model: how deep the paths go

KnownPaths(m) ==
  LET known[n \in 0 .. Depth] == IF n = 0 THEN {Root} ELSE Below(m, known[n - 1])
  IN known[Depth]

\* openDirectory; and a reader of a directory whose lists never end hangs at once.
OpenDirectory(path) ==
  /\ phase = "closed"
  /\ \/ /\ Opens(image, path, "directory") = "yes"
        /\ dir' = DirectoryAt(image, path)
        /\ phase' = IF NeverEnds(image, dir') THEN "hung" ELSE "paging"
     \/ /\ Opens(image, path, "directory") = "hangs"
        /\ phase' = "hung"
        /\ UNCHANGED dir
  /\ pages' = <<>>
  /\ UNCHANGED image

Marker == IF pages = <<>> THEN <<>> ELSE pages[Len(pages)].name

\* ReadDirectory of the WinFsp front end: the next page, resumed from the name
\* of the last entry; an empty page is the end.
ReadPage(room) ==
  /\ phase = "paging"
  /\ \/ LET page == ForEachEntry(image, dir, Marker, room)
        IN /\ ~ SeekHangs(image, dir, Marker)
           /\ pages' = pages \o page
           /\ phase' = IF page = <<>> THEN "finished" ELSE "paging"
     \/ /\ SeekHangs(image, dir, Marker)
        /\ phase' = "hung"
        /\ UNCHANGED pages
  /\ UNCHANGED <<image, dir>>

Close ==
  /\ phase = "finished"
  /\ phase' = "closed"
  /\ dir' = NoDirectory
  /\ pages' = <<>>
  /\ UNCHANGED image

Init ==
  /\ image \in Images
  /\ dir = NoDirectory
  /\ pages = <<>>
  /\ phase = "closed"

Next ==
  \/ \E path \in KnownPaths(image) : OpenDirectory(path)
  \/ \E room \in 1 .. MaxRoom : ReadPage(room)
  \/ Close

Spec == Init /\ [][Next]_vars

-----------------------------------------------------------------------------
NamesOf(m) == ListedNames(m.dirs) \cup ListedNames(m.files)

\* The types.
TypeOK ==
  /\ image \in Images
  /\ dir.path \in KnownPaths(image)
  /\ \A i \in DOMAIN pages :
       pages[i] \in [name : NamesOf(image), type : {"directory", "file"}]
  /\ phase \in {"closed", "paging", "finished", "hung"}

\* The positions that a sibling list leads to, as far as it can be read.
ListFrom(table, first) ==
  LET at == Follow(SiblingsIn(table), first)
      count == LengthOf(table, at)
  IN {at[i] : i \in {j \in DOMAIN at : count = Loops \/ j < count}}

\* A list that does not leave its directory, and names all that is in it.
StaysIn(table, first, home) ==
  \A p \in ListFrom(table, first) : table[p].parent = home /\ Listed(table[p].name) # <<>>

\* An entry can be met on the way along its own bucket.
InBucket(table, buckets, pos) ==
  LET at == BucketOf(table, buckets, table[pos].parent, table[pos].name)
      last == FirstEnd({i \in DOMAIN at : \/ at[i] \notin DOMAIN table
                                          \/ table[at[i]].name = <<>> \/ at[i] = pos})
  IN last # Loops /\ at[last] = pos

\* The chain of a bucket is a circle of two or more entries.
IsCircle(table, first) ==
  LET at == Follow(Chains(table), first)
  IN FirstEnd({i \in DOMAIN at : at[i] \notin DOMAIN table \/ at[i] = table[at[i]].chain}) = Loops

\* What a tool that writes tables sees to: the root has no name and all others have a
\* short one; what is in a directory is in its bucket and in the list of its directory,
\* and in no other list; lists end, and no chain runs in a circle.
Intact(m) ==
  /\ 0 \in DOMAIN m.dirs /\ m.dirs[0].name = <<>>
  /\ \A i \in DOMAIN m.dirBuckets : ~ IsCircle(m.dirs, m.dirBuckets[i])
  /\ \A i \in DOMAIN m.fileBuckets : ~ IsCircle(m.files, m.fileBuckets[i])
  /\ \A p \in DOMAIN m.dirs \ {0} :
       InBucket(m.dirs, m.dirBuckets, p) /\ Len(m.dirs[p].name) \in 1 .. MaxPath - 1
  /\ \A p \in DOMAIN m.files :
       InBucket(m.files, m.fileBuckets, p) /\ Len(m.files[p].name) \in 1 .. MaxPath - 1
  /\ \A p \in DOMAIN m.dirs :
       /\ Read(m, m.dirs[p], 0, 0).ok
       /\ ListFrom(m.dirs, m.dirs[p].dir) = {q \in DOMAIN m.dirs \ {0} : m.dirs[q].parent = p}
       /\ ListFrom(m.files, m.dirs[p].file) = {q \in DOMAIN m.files : m.files[q].parent = p}

\* Chains and lists of an intact image tell the same story: whatever a directory
\* lists can be looked up, has the type it is listed with, is accessible and
\* opens as what it is; whatever can be looked up in a directory is listed there; and
\* none of these calls hangs.
NamespaceAgrees ==
  phase = "closed" /\ Intact(image) =>
    \A path \in {p \in KnownPaths(image) : Opens(image, p, "directory") = "yes"} :
      LET listed == Range(ReadDir(image, DirectoryAt(image, path)))
      IN /\ \A e \in listed :
              LET child == Append(path, e.name)
              IN /\ TypeOf(image, child) = e.type
                 /\ Accessible(image, child) = "yes" /\ Opens(image, child, e.type) = "yes"
         /\ \A name \in NamesOf(image) :
              LET child == Append(path, name)
              IN TypeOf(image, child) # "none" =>
                   [name |-> name, type |-> TypeOf(image, child)] \in listed

\* A lookup comes to an end in every table, damaged or not, that has no chain
\* which is a circle of two or more entries.
LookupEnds ==
  phase = "closed" =>
    \A path \in KnownPaths(image), name \in NamesOf(image) :
      FindDirectory(image, Append(path, name)) = Loops
      \/ FindFile(image, Append(path, name)) = Loops =>
        \/ \E i \in DOMAIN image.dirBuckets : IsCircle(image.dirs, image.dirBuckets[i])
        \/ \E i \in DOMAIN image.fileBuckets : IsCircle(image.files, image.fileBuckets[i])

\* No entry is delivered twice, in a damaged directory either whose lists stay in
\* it: every page but the last brings something new, so that reading page by page
\* comes to an end or is caught in the lookup of a marker.  In an intact image nothing
\* is caught, and the pages of a directory, each resumed from a name, add up to what
\* one reading of the directory gives, whatever fits into a page and wherever it ends.
PagesCover ==
  /\ phase = "hung" => ~ Intact(image)
  /\ phase \in {"paging", "finished"} =>
       LET home == Home(image, dir.path)
           all == ReadDir(image, dir)
       IN /\ StaysIn(image.dirs, dir.dir, home) /\ StaysIn(image.files, dir.file, home) =>
               IsInjective(pages)
          /\ Intact(image) => /\ Len(pages) <= Len(all) /\ pages = SubSeq(all, 1, Len(pages))
                              /\ phase = "finished" => pages = all
=============================================================================
