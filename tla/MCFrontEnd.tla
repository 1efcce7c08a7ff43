------------------------------ MODULE MCFrontEnd ------------------------------
(***************************************************************************)
(* Images that a front end has to walk: titles, game cards, NCAs with      *)
(* sections of the same kind, empty partitions.                            *)
(***************************************************************************)
EXTENDS FrontEnd

N(label) == <<label>>

FileEntry(label, size) == [name |-> N(label), fs |-> NoFs, size |-> size]
FsEntry(label, fs) == [name |-> N(label), fs |-> fs, size |-> 9]
Cleared(fs) == [name |-> NoName, fs |-> fs, size |-> 9]
Partition(entries) == [kind |-> "partition", entries |-> entries]
Plain(fs) == [fs |-> fs, patched |-> FALSE]
Patched(fs) == [fs |-> fs, patched |-> TRUE]
Nca(label, type, based, sections) ==
  [kind |-> "nca", name |-> N(label), size |-> 7, type |-> type, based |-> based,
   sections |-> sections]

\* A directory with a file and a directory of the same stem, and an empty one.
Assets ==
  [kind |-> "romfs",
   dirs |-> << <<N("a")>>, <<N("b")>>, <<N("a"), N("a")>> >>,
   files |-> << [path |-> <<N("c")>>, size |-> 1], [path |-> <<N("a"), N("c")>>, size |-> 2] >>]

EmptyRom == [kind |-> "romfs", dirs |-> <<>>, files |-> <<>>]

Code == Partition(<<FileEntry("main", 3), FileEntry("main.npdm", 2)>>)
Logos == Partition(<<FileEntry("StartupMovie.gif", 1)>>)
MetaFiles == Partition(<<FileEntry("Application.cnmt", 4)>>)
Unused == [fs |-> NoFs, patched |-> FALSE]

Meta == Nca("m.cnmt.nca", "Meta", FALSE, <<Plain(MetaFiles)>>)
Program == Nca("p.nca", "Program", FALSE, <<Plain(Code), Plain(Assets), Plain(Logos)>>)
Control == Nca("c.nca", "Control", FALSE, <<Plain(EmptyRom)>>)

\* Two sections of a kind with another between them, and one that is not used.
Doubled ==
  Nca("d.nca", "Data", FALSE, <<Plain(Assets), Plain(Code), Unused, Plain(EmptyRom)>>)

Title ==
  [kind |-> "wrapper",
   entries |-> <<[name |-> N("Meta"), fs |-> Meta], [name |-> N("Program"), fs |-> Program],
                 [name |-> N("Control"), fs |-> Control]>>]

\* A package after init(): what moved into the title has no name any more.
Package ==
  Partition(<<Cleared(NoFs), FileEntry("t.tik", 5), Cleared(NoFs), FsEntry("Data_d", Doubled),
              FsEntry("Title", Title)>>)

\* A game card: a root of partitions, one of them empty.
Card ==
  [kind |-> "card",
   root |-> Partition(<<FsEntry("update", Partition(<<>>)),
                        FsEntry("secure", Partition(<<Cleared(NoFs), FsEntry("Title", Title)>>))>>)]

\* A patch, whose RomFS can be used once it has a base.
Patch(based) == Nca("u.nca", "Program", based, <<Plain(Code), Patched(Assets)>>)

MCImages ==
  {Package, Card, Doubled, Patch(FALSE), Patch(TRUE), Partition(<<>>)}

MCNames ==
  {N(label) : label \in
     {"a", "b", "c", "main", "main.npdm", "StartupMovie.gif", "Application.cnmt", "m.cnmt.nca",
      "p.nca", "c.nca", "d.nca", "u.nca", "Meta", "Program", "Control", "t.tik", "Data_d", "Title",
      "update", "secure", "exefs", "logo", "romfs", "__NULL_FILE__", "strange"}}
  \cup {<<label, i>> : label \in {"", "exefs", "logo", "romfs"}, i \in 0 .. 3}

MCStrange == {N("strange")}

MCFlags == {{}, {"O_WRONLY"}, {"O_RDWR"}, {"O_WRONLY", "O_CREAT"}}
MCRights ==
  {{"FILE_READ_DATA"}, {"FILE_READ_ATTRIBUTES"}, {}, {"FILE_READ_DATA", "FILE_EXECUTE"},
   {"FILE_WRITE_EA"}, {"FILE_READ_DATA", "FILE_WRITE_DATA"}}
MCMasks == SUBSET {"R_OK", "W_OK", "X_OK"}

\* The hypothesis of the theorems is met here.
ASSUME MCImagesSound == SoundImages
=============================================================================
