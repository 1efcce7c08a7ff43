------------------------------- MODULE Namespace -------------------------------
(***************************************************************************)
(* How a path finds its way through file systems that hold file systems.   *)
(* Five classes answer getAttributes, access, openFile and openDirectory,  *)
(* each with a walk of its own: it takes the first component, looks it up  *)
(* in its own way, and hands the rest on to what it found.                 *)
(*                                                                         *)
(* A file system is, as the constructors and init() leave it,              *)
(*   [kind |-> "card", root]            a game card around its partition;  *)
(*   [kind |-> "partition", entries]    [name, fs, size]: fs is NoFs for a *)
(*        file, the name is NoName if the content moved elsewhere;         *)
(*   [kind |-> "wrapper", entries]      the contents of a title, by name;  *)
(*   [kind |-> "nca", name, size, type, based, sections]   [fs, patched],  *)
(*        next to the NCA itself as a file; based: a base was given to it; *)
(*   [kind |-> "romfs", dirs, files]    paths, and [path, size], each in   *)
(*        the order of the sibling lists (RomFs.tla shows what the tables  *)
(*        say of them).                                                    *)
(* A name is a tuple, a path is a sequence of names.                       *)
(***************************************************************************)
EXTENDS Integers, Sequences

CONSTANT Names   \* the components that paths are made of

NoFs == [kind |-> "none"]
NoName == <<>>
Root == <<>>
Paths == Seq(Names)
Read == {"read"}   \* OpenMode::Read; a mode is a set of permissions

\* FirstComponent and the rest of a path.
First(path) == IF path = Root THEN NoName ELSE path[1]
Rest(path) == IF path = Root THEN Root ELSE Tail(path)

\* What an operation answers, or that it is handed on to another file system.
Result(res) == [res |-> res]
Failure(res) == [res |-> res, type |-> "none", size |-> 0]
Directory == [res |-> "SUCCESS", type |-> "directory", size |-> 0]
File(size) == [res |-> "SUCCESS", type |-> "file", size |-> size]
NoFile == Failure("NO_FILE")
HandOn(fs, path) == [res |-> "HANDED_ON", fs |-> fs, path |-> path]

\* The first of some positions, or 0.
FirstOf(positions) ==
  IF positions = {} THEN 0 ELSE CHOOSE i \in positions : \A j \in positions : i <= j

GetEntry(entries, name) == FirstOf({i \in DOMAIN entries : entries[i].name = name})

\* A loop over entries: on to the one that a path begins with, if there is one.
ThroughEntry(entries, path, otherwise) ==
  LET at == GetEntry(entries, First(path))
  IN IF at = 0 THEN otherwise ELSE HandOn(entries[at].fs, Rest(path))

\* Some of the positions 1 .. n, in order.
InOrder(n, positions) ==
  LET upTo[i \in 0 .. n] ==
        IF i = 0 THEN <<>>
        ELSE IF i \in positions THEN Append(upTo[i - 1], i) ELSE upTo[i - 1]
  IN upTo[n]

-----------------------------------------------------------------------------
(* access, of what a section of an NCA can be.                             *)

Granted(mode) == Result(IF mode = Read THEN "SUCCESS" ELSE "PERMISSION_ERROR")

\* What follows the name of a file is ignored.
PartitionAccess(fs, path, mode) ==
  LET at == GetEntry(fs.entries, First(path))
  IN IF First(path) = NoName THEN Granted(mode)
     ELSE IF at = 0 THEN Result("NO_FILE")
     ELSE IF fs.entries[at].fs # NoFs THEN HandOn(fs.entries[at].fs, Rest(path))
     ELSE Granted(mode)

InRom(fs, path) ==
  path \in {fs.dirs[i] : i \in DOMAIN fs.dirs} \cup {fs.files[i].path : i \in DOMAIN fs.files}

RomAccess(fs, path, mode) ==
  IF path = Root \/ InRom(fs, path) THEN Granted(mode) ELSE Result("NO_FILE")

SectionAccess(fs, path, mode) ==
  IF fs.kind = "romfs" THEN RomAccess(fs, path, mode) ELSE PartitionAccess(fs, path, mode)

-----------------------------------------------------------------------------
(* initializeFileSystems names the sections of an NCA as it creates them:  *)
(* those that stand alone when the NCA is constructed, the others when it  *)
(* is given a base, counting anew.                                         *)

Created(nca, i) ==
  nca.sections[i].fs # NoFs /\ (nca.sections[i].patched => nca.based)

Label(nca, i) ==
  LET Has(name) == SectionAccess(nca.sections[i].fs, <<<<name>>>>, Read) = Result("SUCCESS")
  IN IF nca.type \notin {"Program", "Data", "PublicData"} THEN ""
     ELSE IF Has("main.npdm") THEN "exefs"
     ELSE IF Has("StartupMovie.gif") THEN "logo"
     ELSE IF nca.sections[i].fs.kind = "romfs" THEN "romfs"
     ELSE ""

\* A label that was given before, or none, has the section's index added.
Suffixed(label, taken, i) ==
  IF label = "" \/ taken THEN <<label, i - 1>> ELSE <<label>>

SectionName(nca, i) ==
  LET Taken(j) == /\ Created(nca, j) /\ Label(nca, j) = Label(nca, i)
                  /\ nca.sections[j].patched = nca.sections[i].patched
  IN Suffixed(Label(nca, i), \E j \in 1 .. i - 1 : Taken(j), i)

\* mFileSystems, of those that are not null.
Sections(nca) ==
  LET used == InOrder(Len(nca.sections), {i \in DOMAIN nca.sections : Created(nca, i)})
  IN [k \in DOMAIN used |-> [name |-> SectionName(nca, used[k]), fs |-> nca.sections[used[k]].fs]]

-----------------------------------------------------------------------------
(* access, of the other classes.                                           *)

\* The root of a title cannot be accessed from within.
WrapperAccess(fs, path, mode) ==
  LET at == GetEntry(fs.entries, First(path))
  IN IF First(path) = NoName \/ at = 0 THEN Result("NO_FILE")
     ELSE IF Rest(path) = Root THEN Granted(mode)
     ELSE HandOn(fs.entries[at].fs, Rest(path))

\* The path of the NCA as a file.
IsRaw(nca, path) == path = <<nca.name>>

\* A mutant: the file of the NCA itself is forgotten.
NcaAccessSections(fs, path, mode) ==
  IF First(path) = NoName THEN Granted(mode)
  ELSE ThroughEntry(Sections(fs), path, Result("NO_FILE"))

NcaAccess(fs, path, mode) ==
  IF First(path) = NoName \/ IsRaw(fs, path) THEN Granted(mode)
  ELSE ThroughEntry(Sections(fs), path, Result("NO_FILE"))

-----------------------------------------------------------------------------
(* getAttributes.                                                          *)

WrapperAttributes(fs, path) ==
  LET at == GetEntry(fs.entries, First(path))
  IN IF First(path) = NoName THEN Directory
     ELSE IF at = 0 THEN NoFile
     ELSE HandOn(fs.entries[at].fs, Rest(path))

PartitionAttributes(fs, path) ==
  LET at == GetEntry(fs.entries, First(path))
  IN IF First(path) = NoName THEN Directory
     ELSE IF at = 0 THEN NoFile
     ELSE IF fs.entries[at].fs # NoFs THEN HandOn(fs.entries[at].fs, Rest(path))
     ELSE IF Rest(path) # Root THEN NoFile
     ELSE File(fs.entries[at].size)

NcaAttributes(fs, path) ==
  IF First(path) = NoName THEN Directory
  ELSE IF IsRaw(fs, path) THEN File(fs.size)
  ELSE ThroughEntry(Sections(fs), path, NoFile)

\* findFile, as its position in the list, or 0.
RomFile(fs, path) == FirstOf({i \in DOMAIN fs.files : fs.files[i].path = path})

RomAttributes(fs, path) ==
  IF path = Root THEN Directory
  ELSE IF RomFile(fs, path) # 0 THEN File(fs.files[RomFile(fs, path)].size)
  ELSE IF InRom(fs, path) THEN Directory
  ELSE NoFile

-----------------------------------------------------------------------------
(* openFile: the answer carries the size that the opened file tells.       *)

WrapperOpenFile(fs, path) ==
  LET at == GetEntry(fs.entries, First(path))
  IN IF First(path) = NoName \/ at = 0 THEN NoFile
     ELSE HandOn(fs.entries[at].fs, Rest(path))

\* An entry is null if it stands in for the content of an empty directory; its
\* size is that of a NullFile.
PartitionOpenFile(fs, path, mode) ==
  LET at == GetEntry(fs.entries, First(path))
  IN IF at = 0 THEN NoFile
     ELSE IF fs.entries[at].fs # NoFs THEN HandOn(fs.entries[at].fs, Rest(path))
     ELSE IF mode # Read THEN Failure("PERMISSION_ERROR")
     ELSE File(fs.entries[at].size)

\* The mode is checked before anything is looked up.
NcaOpenFile(fs, path, mode) ==
  IF mode # Read THEN Failure("PERMISSION_ERROR")
  ELSE IF IsRaw(fs, path) THEN File(fs.size)
  ELSE ThroughEntry(Sections(fs), path, NoFile)

RomOpenFile(fs, path, mode) ==
  IF RomFile(fs, path) = 0 THEN NoFile
  ELSE IF mode # Read THEN Failure("PERMISSION_ERROR")
  ELSE File(fs.files[RomFile(fs, path)].size)

-----------------------------------------------------------------------------
(* openDirectory: a Directory belongs to a file system; that of a RomFS    *)
(* has a path in it.                                                       *)

DirectoryOf(fs, path) == [res |-> "SUCCESS", fs |-> fs, path |-> path]
NoDirectory == [res |-> "NO_FILE", fs |-> NoFs, path |-> Root]

GetRoot(fs) == DirectoryOf(IF fs.kind = "card" THEN fs.root ELSE fs, Root)

WrapperOpenDirectory(fs, path) ==
  LET at == GetEntry(fs.entries, First(path))
  IN IF First(path) = NoName THEN GetRoot(fs)
     ELSE IF at = 0 THEN NoDirectory
     ELSE IF Rest(path) = Root THEN GetRoot(fs.entries[at].fs)
     ELSE HandOn(fs.entries[at].fs, Rest(path))

PartitionOpenDirectory(fs, path) ==
  LET at == GetEntry(fs.entries, First(path))
  IN IF First(path) = NoName THEN GetRoot(fs)
     ELSE IF at # 0 /\ fs.entries[at].fs # NoFs THEN HandOn(fs.entries[at].fs, Rest(path))
     ELSE NoDirectory

NcaOpenDirectory(fs, path) ==
  IF First(path) = NoName THEN GetRoot(fs)
  ELSE ThroughEntry(Sections(fs), path, NoDirectory)

RomOpenDirectory(fs, path) ==
  IF path = Root THEN GetRoot(fs)
  ELSE IF \E i \in DOMAIN fs.dirs : fs.dirs[i] = path THEN DirectoryOf(fs, path)
  ELSE NoDirectory

-----------------------------------------------------------------------------
(* The whole of an operation.  init() makes NCAs and titles of the files   *)
(* of a package, and packages of those in the root of a card; what is in a *)
(* section of an NCA stays a file.  So nothing is handed on further than   *)
(* from a card through a package, a title and an NCA to a section.         *)

PartitionAnswer(op, fs, path, mode) ==
  CASE op = "access" -> PartitionAccess(fs, path, mode)
    [] op = "getAttributes" -> PartitionAttributes(fs, path)
    [] op = "openFile" -> PartitionOpenFile(fs, path, mode)
    [] op = "openDirectory" -> PartitionOpenDirectory(fs, path)

WrapperAnswer(op, fs, path, mode) ==
  CASE op = "access" -> WrapperAccess(fs, path, mode)
    [] op = "getAttributes" -> WrapperAttributes(fs, path)
    [] op = "openFile" -> WrapperOpenFile(fs, path)
    [] op = "openDirectory" -> WrapperOpenDirectory(fs, path)

NcaAnswer(op, fs, path, mode) ==
  CASE op = "access" -> NcaAccess(fs, path, mode)
    [] op = "getAttributes" -> NcaAttributes(fs, path)
    [] op = "openFile" -> NcaOpenFile(fs, path, mode)
    [] op = "openDirectory" -> NcaOpenDirectory(fs, path)

RomAnswer(op, fs, path, mode) ==
  CASE op = "access" -> RomAccess(fs, path, mode)
    [] op = "getAttributes" -> RomAttributes(fs, path)
    [] op = "openFile" -> RomOpenFile(fs, path, mode)
    [] op = "openDirectory" -> RomOpenDirectory(fs, path)

Answered(op, fs, path, mode) ==
  CASE fs.kind = "card" -> PartitionAnswer(op, fs.root, path, mode)
    [] fs.kind = "partition" -> PartitionAnswer(op, fs, path, mode)
    [] fs.kind = "wrapper" -> WrapperAnswer(op, fs, path, mode)
    [] fs.kind = "nca" -> NcaAnswer(op, fs, path, mode)
    [] fs.kind = "romfs" -> RomAnswer(op, fs, path, mode)

Nesting == 5

Ask(op, fs, path, mode) ==
  LET answer[n \in 0 .. Nesting] ==
        IF n = 0 THEN HandOn(fs, path)
        ELSE IF answer[n - 1].res = "HANDED_ON"
        THEN Answered(op, answer[n - 1].fs, answer[n - 1].path, mode)
        ELSE answer[n - 1]
  IN answer[Nesting]

Access(fs, path, mode) == Ask("access", fs, path, mode).res
GetAttributes(fs, path) == Ask("getAttributes", fs, path, Read)
OpenFile(fs, path, mode) == Ask("openFile", fs, path, mode)
OpenDirectory(fs, path) == Ask("openDirectory", fs, path, Read)

-----------------------------------------------------------------------------
(* Directories: getCount, read of at most `max` entries from `offset` on,  *)
(* and forEachEntry from behind the entry with a name.                     *)

Entry(name, type, size) == [name |-> name, type |-> type, size |-> size]

\* The part of s that read() delivers.
Window(s, max, offset) ==
  SubSeq(s, offset + 1, IF offset + max < Len(s) THEN offset + max ELSE Len(s))

\* A mutant: what moved elsewhere is listed as well.
NamedOrNot(fs) == fs.entries

\* The entries of a partition that have a name.
Named(fs) ==
  LET at == InOrder(Len(fs.entries), {i \in DOMAIN fs.entries : fs.entries[i].name # NoName})
  IN [k \in DOMAIN at |-> fs.entries[at[k]]]

PartitionRead(fs, max, offset) ==
  LET some == Window(Named(fs), max, offset)
  IN [i \in DOMAIN some |->
        Entry(some[i].name, IF some[i].fs # NoFs THEN "directory" ELSE "file", some[i].size)]

WrapperRead(fs, max, offset) ==
  LET some == Window(fs.entries, max, offset)
  IN [i \in DOMAIN some |-> Entry(some[i].name, "directory", 0)]

\* The sections, and behind them the file, if there is room for it.
NcaRead(fs, max, offset) ==
  LET some == Window(Sections(fs), max, offset)
      sections == [i \in DOMAIN some |-> Entry(some[i].name, "directory", 0)]
  IN IF offset >= Len(Sections(fs)) + 1 THEN <<>>
     ELSE IF Len(sections) < max THEN Append(sections, Entry(fs.name, "file", fs.size))
     ELSE sections

Parent(path) == SubSeq(path, 1, Len(path) - 1)
LastName(path) == path[Len(path)]

\* A RomFS directory: its directories, then its files.
RomChildren(fs, path) ==
  LET IsBelow(p) == p # Root /\ Parent(p) = path
      dirs == InOrder(Len(fs.dirs), {i \in DOMAIN fs.dirs : IsBelow(fs.dirs[i])})
      files == InOrder(Len(fs.files), {i \in DOMAIN fs.files : IsBelow(fs.files[i].path)})
  IN [k \in DOMAIN dirs |-> Entry(LastName(fs.dirs[dirs[k]]), "directory", 0)]
     \o [k \in DOMAIN files |->
           Entry(LastName(fs.files[files[k]].path), "file", fs.files[files[k]].size)]

GetCount(dir) ==
  CASE dir.fs.kind = "partition" -> Len(Named(dir.fs))
    [] dir.fs.kind = "wrapper" -> Len(dir.fs.entries)
    [] dir.fs.kind = "nca" -> Len(Sections(dir.fs)) + 1
    [] dir.fs.kind = "romfs" -> Len(RomChildren(dir.fs, dir.path))

ReadEntries(dir, max, offset) ==
  CASE dir.fs.kind = "partition" -> PartitionRead(dir.fs, max, offset)
    [] dir.fs.kind = "wrapper" -> WrapperRead(dir.fs, max, offset)
    [] dir.fs.kind = "nca" -> NcaRead(dir.fs, max, offset)
    [] dir.fs.kind = "romfs" -> Window(RomChildren(dir.fs, dir.path), max, offset)

\* The iterator reads one entry after the other, until a read does not yield one.
Iterated(dir) ==
  LET Yields(k) == Len(ReadEntries(dir, 1, k)) = 1
      end == CHOOSE n \in 0 .. GetCount(dir) : ~ Yields(n) /\ \A k \in 0 .. n - 1 : Yields(k)
  IN [k \in 1 .. end |-> ReadEntries(dir, 1, k - 1)[1]]

\* A mutant: the entry with the marker is delivered again.
BehindInclusive(entries, marker) ==
  IF marker = NoName THEN entries
  ELSE IF GetEntry(entries, marker) = 0 THEN <<>>
  ELSE SubSeq(entries, GetEntry(entries, marker), Len(entries))

\* What comes behind the first entry with the marker's name.
Behind(entries, marker) ==
  IF marker = NoName THEN entries
  ELSE IF GetEntry(entries, marker) = 0 THEN <<>>
  ELSE SubSeq(entries, GetEntry(entries, marker) + 1, Len(entries))

\* forEachEntry, whose callback takes at most `room` entries.  That of a RomFS
\* walks the lists themselves (RomFs.tla).
ForEachEntry(dir, marker, room) ==
  LET all == IF dir.fs.kind = "romfs" THEN RomChildren(dir.fs, dir.path) ELSE Iterated(dir)
  IN Window(Behind(all, marker), room, 0)

-----------------------------------------------------------------------------
(* init(), as far as it is about names: Windows cannot mount a directory   *)
(* that is empty.  It is called for the root and for the partitions of a   *)
(* game card, not for those inside of an NCA.                              *)

NullEntry == [name |-> <<"__NULL_FILE__">>, fs |-> NoFs, size |-> 0]

InitPartition(fs, windows) ==
  IF windows /\ fs.entries = <<>> THEN [kind |-> "partition", entries |-> <<NullEntry>>] ELSE fs

InitEntries(fs, windows) ==
  [kind |-> "partition",
   entries |-> [i \in DOMAIN fs.entries |->
     IF fs.entries[i].fs.kind = "partition"
     THEN [fs.entries[i] EXCEPT !.fs = InitPartition(fs.entries[i].fs, windows)]
     ELSE fs.entries[i]]]

Initialized(fs, windows) ==
  CASE fs.kind = "card" ->
         [kind |-> "card", root |-> InitPartition(InitEntries(fs.root, windows), windows)]
    [] fs.kind = "partition" -> InitPartition(fs, windows)
    [] fs.kind = "nca" -> fs

-----------------------------------------------------------------------------
(* What the constructors and the first part of init() leave, where no name *)
(* is met twice.  That a name occurs once is true of a package as it is    *)
(* made, but nobody checks it: titles, files of a partition and sections   *)
(* go by whatever names they come with, and an update that is applied to a *)
(* base which has it already appends a title of the same name.  A lookup   *)
(* then finds the first of them; readdir lists both.                       *)

\* No directory has two entries of one name.
Distinct(entries) ==
  \A i, j \in DOMAIN entries :
    entries[i].name = entries[j].name /\ entries[i].name # NoName => i = j

AreEntries(entries) ==
  /\ entries \in Seq({entries[i] : i \in DOMAIN entries})
  /\ Distinct(entries)

\* Names that a lookup tells from each other (RomFs.tla), in directories that exist.
IsRom(fs) ==
  /\ fs.kind = "romfs"
  /\ fs.dirs \in Seq(Paths) /\ fs.files \in Seq([path : Paths, size : Nat])
  /\ \A i, j \in DOMAIN fs.dirs : fs.dirs[i] = fs.dirs[j] => i = j
  /\ \A i, j \in DOMAIN fs.files : fs.files[i].path = fs.files[j].path => i = j
  /\ \A i \in DOMAIN fs.dirs, j \in DOMAIN fs.files : fs.dirs[i] # fs.files[j].path
  /\ \A p \in {fs.dirs[i] : i \in DOMAIN fs.dirs} \cup {fs.files[i].path : i \in DOMAIN fs.files} :
       p # Root /\ (Parent(p) = Root \/ \E i \in DOMAIN fs.dirs : fs.dirs[i] = Parent(p))

\* What a section holds is a RomFS or a partition of files.
IsSection(fs) ==
  \/ IsRom(fs)
  \/ /\ fs.kind = "partition"
     /\ AreEntries(fs.entries)
     /\ \A i \in DOMAIN fs.entries :
          fs.entries[i] \in [name : Names, fs : {NoFs}, size : Nat]

\* The labels that sections have with a base are not those that they had without,
\* nor is the name of the file: the code compares neither with the other.
IsNca(fs) ==
  /\ fs.kind = "nca" /\ fs.name \in Names /\ fs.size \in Nat
  /\ fs.sections \in Seq({fs.sections[i] : i \in DOMAIN fs.sections})
  /\ \A i \in DOMAIN fs.sections :
       fs.sections[i].fs = NoFs \/ IsSection(fs.sections[i].fs)
  /\ \A i, j \in {k \in DOMAIN fs.sections : Created(fs, k)} :
       /\ SectionName(fs, i) \in Names \ {fs.name}
       /\ SectionName(fs, i) = SectionName(fs, j) =>
            fs.sections[i].patched = fs.sections[j].patched

\* The contents of a title.
IsWrapper(fs) ==
  /\ fs.kind = "wrapper"
  /\ AreEntries(fs.entries)
  /\ \A i \in DOMAIN fs.entries : fs.entries[i].name \in Names /\ IsNca(fs.entries[i].fs)

IsEntry(e) ==
  /\ e = [name |-> e.name, fs |-> e.fs, size |-> e.size]
  /\ e.name \in Names \cup {NoName} /\ e.size \in Nat

IsPackage(fs) ==
  /\ fs.kind = "partition"
  /\ AreEntries(fs.entries)
  /\ \A i \in DOMAIN fs.entries :
       LET e == fs.entries[i]
       IN IsEntry(e) /\ (e.fs = NoFs \/ IsNca(e.fs) \/ IsWrapper(e.fs))

\* The root of a game card also holds packages.
IsCard(fs) ==
  /\ fs.kind = "card" /\ fs.root.kind = "partition"
  /\ AreEntries(fs.root.entries)
  /\ \A i \in DOMAIN fs.root.entries :
       LET e == fs.root.entries[i]
       IN IsEntry(e) /\ (e.fs = NoFs \/ IsNca(e.fs) \/ IsWrapper(e.fs) \/ IsPackage(e.fs))

IsImage(fs) == IsCard(fs) \/ IsPackage(fs) \/ IsNca(fs)

-----------------------------------------------------------------------------
(* The tree that a file system stands for, without any walk: the set of    *)
(* its nodes, each with its path.  Front ends are measured by it.          *)

Node(path, type, size) == [path |-> path, type |-> type, size |-> size]

RootNode == Node(Root, "directory", 0)
FileNode(size) == Node(Root, "file", size)

\* Nodes below a name.
Under(name, nodes) == {Node(<<name>> \o n.path, n.type, n.size) : n \in nodes}

RomContents(fs) ==
  {RootNode}
  \cup {Node(fs.dirs[i], "directory", 0) : i \in DOMAIN fs.dirs}
  \cup {Node(fs.files[i].path, "file", fs.files[i].size) : i \in DOMAIN fs.files}

SectionContents(fs) ==
  IF fs.kind = "romfs" THEN RomContents(fs)
  ELSE {RootNode} \cup
       UNION {Under(fs.entries[i].name, {FileNode(fs.entries[i].size)}) : i \in DOMAIN fs.entries}

NcaContents(fs) ==
  {RootNode} \cup Under(fs.name, {FileNode(fs.size)}) \cup
  UNION {Under(Sections(fs)[i].name, SectionContents(Sections(fs)[i].fs)) :
           i \in DOMAIN Sections(fs)}

WrapperContents(fs) ==
  {RootNode} \cup
  UNION {Under(fs.entries[i].name, NcaContents(fs.entries[i].fs)) : i \in DOMAIN fs.entries}

EntryContents(e) ==
  CASE e.fs.kind = "none" -> {FileNode(e.size)}
    [] e.fs.kind = "nca" -> NcaContents(e.fs)
    [] e.fs.kind = "wrapper" -> WrapperContents(e.fs)

HasName(entries) == {i \in DOMAIN entries : entries[i].name # NoName}

PackageContents(fs) ==
  {RootNode} \cup
  UNION {Under(fs.entries[i].name, EntryContents(fs.entries[i])) : i \in HasName(fs.entries)}

CardContents(fs) ==
  {RootNode} \cup
  UNION {Under(fs.root.entries[i].name,
               IF fs.root.entries[i].fs.kind = "partition"
               THEN PackageContents(fs.root.entries[i].fs)
               ELSE EntryContents(fs.root.entries[i])) : i \in HasName(fs.root.entries)}

Contents(fs) ==
  CASE fs.kind = "card" -> CardContents(fs)
    [] fs.kind = "partition" -> PackageContents(fs)
    [] fs.kind = "nca" -> NcaContents(fs)
=============================================================================
