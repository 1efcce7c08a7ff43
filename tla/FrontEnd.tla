------------------------------- MODULE FrontEnd -------------------------------
(***************************************************************************)
(* The two front ends over a file system that is mounted.  libfuse walks   *)
(* down to a path with GetAttr, one component after the other, before it   *)
(* asks for anything else, and takes a directory as a whole.  WinFsp hands *)
(* over full paths, and reads a directory page by page, each from behind   *)
(* the last name of the one before.                                        *)
(*                                                                         *)
(* The file system does not change while it is mounted, and none of its    *)
(* operations has a state: requests about paths and requests about the     *)
(* handle that is open do not meet, and there is one of either at a time.  *)
(***************************************************************************)
EXTENDS Namespace

CONSTANTS
  Images,       \* file systems, as their images have them
  Strange,      \* names that may be asked for and are in no directory
  Flags,        \* the flags of open(2)
  Rights,       \* the rights that may be asked for on Windows
  Masks,        \* the masks of access(2)
  MaxRoom,      \* the entries that fit into a buffer of ReadDirectory
  NoReply

Modes == SUBSET {"read", "write", "execute"}

Replies ==
  [op : {"stat", "access", "open", "change", "list", "look", "info", "page"}, path : Paths,
   mode : Modes, type : {"none", "file", "directory"}, size : Nat]

\* A name that is cleared is no name, and NoReply is not an answer.
ASSUME FrontEndAssumption ==
  /\ NoName \notin Names /\ NullEntry.name \in Names
  /\ Strange \subseteq Names
  /\ MaxRoom \in Nat
  /\ NoReply \notin Replies

\* No directory has a name twice.  The constructors accept such images too, and the
\* driver makes one itself when it applies an update that the base has already: this
\* is a hypothesis of the theorems, and of what the runs show.
SoundImages == \A m \in Images : IsImage(m)

VARIABLES
  front,        \* "fuse" or "winfsp"
  mounted,      \* what is mounted
  nodes,        \* the tree that it stands for
  handle,       \* info->fh or FileContext: a file, a directory, or none
  path,         \* the path it was opened by
  listed,       \* the entries that were delivered from it
  reply         \* the answer to the request at hand

vars == <<front, mounted, nodes, handle, path, listed, reply>>

NoHandle == [type |-> "none"]

FrontEnds == {"fuse", "winfsp"}

\* The paths that are asked for: all that exist, and some below each of them.
Asked ==
  {n.path : n \in nodes} \cup {Append(n.path, s) : n \in nodes, s \in Strange}

-----------------------------------------------------------------------------
\* Directories have no size of their own in what the front ends report.
Answer(op, p, mode, answer) ==
  reply' = [op |-> op, path |-> p, mode |-> mode, type |-> answer.type,
            size |-> IF answer.type = "file" THEN answer.size ELSE 0]

Refuse(op, p, mode) == Answer(op, p, mode, NoFile)

Deliver(op, entries) ==
  reply' = [op |-> op, path |-> path, mode |-> {}, type |-> "directory", size |-> Len(entries)]

Shown(entries) ==
  [k \in DOMAIN entries |->
     IF entries[k].type = "directory" THEN [entries[k] EXCEPT !.size = 0] ELSE entries[k]]

Asks(who) == front = who /\ reply = NoReply /\ UNCHANGED <<front, mounted, nodes>>
AsksPath(who, p) == Asks(who) /\ handle = NoHandle /\ p \in Asked
AsksHandle(who, type) == Asks(who) /\ handle.type = type /\ UNCHANGED <<handle, path>>

\* What is reported of a file that is opened are its attributes.
OpenedFile(p, mode, opened) ==
  IF opened.res = "SUCCESS"
  THEN /\ handle' = [type |-> "file", size |-> opened.size]
       /\ path' = p
       /\ Answer("open", p, mode, GetAttributes(mounted, p))
  ELSE Refuse("open", p, mode) /\ UNCHANGED <<handle, path>>

OpenedDirectory(p, mode, opened) ==
  IF opened.res = "SUCCESS"
  THEN /\ handle' = [type |-> "directory", dir |-> opened]
       /\ path' = p
       /\ Answer("open", p, mode, Directory)
  ELSE Refuse("open", p, mode) /\ UNCHANGED <<handle, path>>

-----------------------------------------------------------------------------
(* FUSE.                                                                   *)

Type(p) == GetAttributes(mounted, p).type

\* The lookups of the components in front, and of the path itself.
Walked(p) == \A n \in 0 .. Len(p) - 1 : Type(SubSeq(p, 1, n)) = "directory"

\* O_RDONLY is 0, so that nothing is tested for it.
ConvertOpenFlags(flags) ==
  IF "O_WRONLY" \in flags THEN {"write"}
  ELSE IF "O_RDWR" \in flags THEN {"read", "write"}
  ELSE Read

ConvertAccessFlags(mask) ==
  {m \in {"read", "write", "execute"} :
     [read |-> "R_OK", write |-> "W_OK", execute |-> "X_OK"][m] \in mask}

GetAttr(p) ==
  /\ AsksPath("fuse", p) /\ Walked(p)
  /\ Answer("stat", p, {}, GetAttributes(mounted, p))
  /\ UNCHANGED <<handle, path, listed>>

CheckAccess(p, mask) ==
  LET mode == ConvertAccessFlags(mask) IN
  /\ AsksPath("fuse", p) /\ Walked(p) /\ Type(p) # "none"
  /\ IF Access(mounted, p, mode) = "SUCCESS"
     THEN Answer("access", p, mode, GetAttributes(mounted, p))
     ELSE Refuse("access", p, mode)
  /\ UNCHANGED <<handle, path, listed>>

\* As no file is opened for writing, O_TRUNC never gets to setSize; and what
\* O_CREAT asks for next is READ_ONLY.
FuseOpen(p, flags) ==
  LET mode == ConvertOpenFlags(flags) IN
  /\ AsksPath("fuse", p) /\ Walked(p) /\ Type(p) = "file"
  /\ OpenedFile(p, mode, OpenFile(mounted, p, mode))
  /\ UNCHANGED listed

OpenDir(p) ==
  /\ AsksPath("fuse", p) /\ Walked(p) /\ Type(p) = "directory"
  /\ OpenedDirectory(p, {}, OpenDirectory(mounted, p))
  /\ UNCHANGED listed

\* By path: the file is opened for writing, which is refused.
Truncate(p) ==
  /\ AsksPath("fuse", p) /\ Walked(p) /\ Type(p) = "file"
  /\ IF OpenFile(mounted, p, {"write"}).res = "SUCCESS"
     THEN Answer("change", p, {"write"}, OpenFile(mounted, p, {"write"}))
     ELSE Refuse("change", p, {"write"})
  /\ UNCHANGED <<handle, path, listed>>

\* MkNod to Link, and Create: READ_ONLY.
FuseChange(p) ==
  /\ AsksPath("fuse", p) /\ Walked(p)
  /\ Refuse("change", p, {})
  /\ UNCHANGED <<handle, path, listed>>

\* Both calls of the directory: "." and ".." are added in front.
ReadDir ==
  /\ AsksHandle("fuse", "directory")
  /\ LET entries == ReadEntries(handle.dir, GetCount(handle.dir), 0)
     IN listed' = Shown(entries) /\ Deliver("list", entries)

Release ==
  /\ front = "fuse" /\ reply = NoReply /\ handle # NoHandle
  /\ handle' = NoHandle /\ path' = Root /\ listed' = <<>>
  /\ UNCHANGED <<front, mounted, nodes, reply>>

-----------------------------------------------------------------------------
(* WinFsp.                                                                 *)

\* What FILE_GENERIC_READ and FILE_GENERIC_WRITE are made of.
ReadRights == {"FILE_READ_DATA", "FILE_READ_ATTRIBUTES", "FILE_READ_EA"}
WriteRights == {"FILE_WRITE_DATA", "FILE_WRITE_ATTRIBUTES", "FILE_WRITE_EA", "FILE_APPEND_DATA"}

ConvertAccess(rights) ==
  {m \in {"read", "write", "execute"} :
     [read |-> ReadRights, write |-> WriteRights, execute |-> {"FILE_EXECUTE"}][m]
       \cap rights # {}}

GetSecurityByName(p) ==
  /\ AsksPath("winfsp", p)
  /\ Answer("look", p, {}, [GetAttributes(mounted, p) EXCEPT !.size = 0])
  /\ UNCHANGED <<handle, path, listed>>

\* The attributes say what is opened; a directory is, with whatever rights.
WinOpen(p, rights) ==
  LET mode == ConvertAccess(rights) IN
  /\ AsksPath("winfsp", p)
  /\ IF Type(p) = "none" THEN Refuse("open", p, mode) /\ UNCHANGED <<handle, path>>
     ELSE IF Type(p) = "directory" THEN OpenedDirectory(p, mode, OpenDirectory(mounted, p))
     ELSE OpenedFile(p, mode, OpenFile(mounted, p, mode))
  /\ UNCHANGED listed

\* Create, Overwrite and Rename.
WinChange(p) ==
  /\ AsksPath("winfsp", p)
  /\ Refuse("change", p, {})
  /\ UNCHANGED <<handle, path, listed>>

\* The node tells its type, and a file its size.
GetFileInfo ==
  /\ Asks("winfsp") /\ handle # NoHandle
  /\ Answer("info", path, {},
            IF handle.type = "directory" THEN Directory ELSE File(handle.size))
  /\ UNCHANGED <<handle, path, listed>>

\* The marker is the last name that was delivered.
ReadDirectory(room) ==
  /\ AsksHandle("winfsp", "directory")
  /\ LET marker == IF listed = <<>> THEN NoName ELSE listed[Len(listed)].name
         page == ForEachEntry(handle.dir, marker, room)
     IN listed' = listed \o Shown(page) /\ Deliver("page", page)

\* A scan that is restarted has no marker.
RestartScan ==
  /\ AsksHandle("winfsp", "directory")
  /\ listed # <<>> /\ listed' = <<>>
  /\ UNCHANGED reply

Close ==
  /\ front = "winfsp" /\ reply = NoReply /\ handle # NoHandle
  /\ handle' = NoHandle /\ path' = Root /\ listed' = <<>>
  /\ UNCHANGED <<front, mounted, nodes, reply>>

-----------------------------------------------------------------------------
Init ==
  /\ front \in FrontEnds
  /\ mounted \in {Initialized(m, front = "winfsp") : m \in Images}
  /\ nodes = Contents(mounted)
  /\ handle = NoHandle
  /\ path = Root
  /\ listed = <<>>
  /\ reply = NoReply

\* The answer is taken.
Take ==
  /\ reply # NoReply
  /\ reply' = NoReply
  /\ UNCHANGED <<front, mounted, nodes, handle, path, listed>>

Fuse ==
  \/ \E p \in Asked :
       \/ GetAttr(p) \/ OpenDir(p) \/ Truncate(p) \/ FuseChange(p)
       \/ \E flags \in Flags : FuseOpen(p, flags)
       \/ \E mask \in Masks : CheckAccess(p, mask)
  \/ ReadDir \/ Release

WinFsp ==
  \/ \E p \in Asked :
       \/ GetSecurityByName(p) \/ WinChange(p)
       \/ \E rights \in Rights : WinOpen(p, rights)
  \/ GetFileInfo \/ RestartScan \/ Close
  \/ \E room \in 1 .. MaxRoom : ReadDirectory(room)

Next == Fuse \/ WinFsp \/ Take

Spec == Init /\ [][Next]_vars

-----------------------------------------------------------------------------
\* The types; and what is open is open under a path.
TypeOK ==
  /\ front \in FrontEnds
  /\ handle.type \in {"none", "file", "directory"}
  /\ path \in Asked
  /\ handle = NoHandle => path = Root /\ listed = <<>>
  /\ \A k \in DOMAIN listed : listed[k].name # NoName /\ listed[k].size \in Nat
  /\ reply # NoReply => reply.path \in Asked /\ reply.size \in Nat

\* Five classes walk in five ways, and each of four operations walks anew: where no
\* directory has a name twice (SoundImages), all of them see one tree, in which nothing
\* is missing, nothing is met twice, however a listing is cut into pages, and nothing
\* can be opened for more than reading.
Tree == INSTANCE MountedTree WITH at <- [type |-> handle.type, path |-> path]

ServesTree == Tree!Spec

\* The root of a title, which denies that it is there.
IsTitle(p) == OpenDirectory(mounted, p).fs.kind = "wrapper"

\* Who may read what exists is told so: access agrees with getAttributes, and
\* grants no more than openFile does.
AccessAgrees ==
  reply # NoReply /\ reply.op = "access" =>
    (reply.type # "none" <=> reply.mode = Read /\ ~ IsTitle(reply.path))
=============================================================================
