----------------------------- MODULE MountedTree -----------------------------
(***************************************************************************)
(* What whoever looks at a mount relies on: there is one tree, which never *)
(* changes.  Every request is answered in accordance with it, a listing    *)
(* has every entry of a directory once, and a file can be opened for       *)
(* reading and for nothing else.  FrontEnd implements this.                *)
(***************************************************************************)
EXTENDS Naturals, Sequences

CONSTANT NoReply

VARIABLES
  nodes,        \* the tree: what exists, [path, type, size]
  at,           \* what is open: [type, path]
  listed,       \* the entries delivered from it, [name, type, size]
  reply         \* the answer to the request at hand

treeVars == <<nodes, at, listed, reply>>

Closed == [type |-> "none", path |-> <<>>]

IsDirectory(p) == \E n \in nodes : n.path = p /\ n.type = "directory"
Exists(p) == \E n \in nodes : n.path = p

Parent(p) == SubSeq(p, 1, Len(p) - 1)
IsTree ==
  /\ IsDirectory(<<>>)
  /\ \A n \in nodes : n.path = <<>> \/ IsDirectory(Parent(n.path))
  /\ \A n, o \in nodes : n.path = o.path => n = o

\* The entries of the directory at path p.
Children(p) ==
  {[name |-> n.path[Len(n.path)], type |-> n.type, size |-> n.size] :
     n \in {c \in nodes : Len(c.path) = Len(p) + 1 /\ Parent(c.path) = p}}

Found(op, n, mode) ==
  [op |-> op, path |-> n.path, mode |-> mode, type |-> n.type, size |-> n.size]
Refused(op, p, mode) ==
  [op |-> op, path |-> p, mode |-> mode, type |-> "none", size |-> 0]
Count(op, n) == [op |-> op, path |-> at.path, mode |-> {}, type |-> at.type, size |-> n]

Init ==
  /\ IsTree
  /\ at = Closed
  /\ listed = <<>>
  /\ reply = NoReply

\* What is there, and how large it is.
Stat(p) ==
  /\ \/ \E n \in nodes : n.path = p /\ reply' = Found("stat", n, {})
     \/ ~ Exists(p) /\ reply' = Refused("stat", p, {})
  /\ UNCHANGED <<nodes, at, listed>>

\* What is there.
Look(p) ==
  /\ \/ \E n \in nodes : n.path = p /\ reply' = [Found("look", n, {}) EXCEPT !.size = 0]
     \/ ~ Exists(p) /\ reply' = Refused("look", p, {})
  /\ UNCHANGED <<nodes, at, listed>>

\* Reading may be granted, nothing else is.
Access(p, mode) ==
  /\ \/ reply' = Refused("access", p, mode)
     \/ mode = {"read"} /\ \E n \in nodes : n.path = p /\ reply' = Found("access", n, mode)
  /\ UNCHANGED <<nodes, at, listed>>

\* A directory can be opened whatever the mode, a file for reading.
Open(p, mode) ==
  /\ at = Closed
  /\ \/ \E n \in nodes :
          /\ n.path = p
          /\ n.type = "directory" \/ mode = {"read"}
          /\ at' = [type |-> n.type, path |-> p]
          /\ reply' = Found("open", n, mode)
     \/ /\ ~ Exists(p) \/ (~ IsDirectory(p) /\ mode # {"read"})
        /\ at' = at
        /\ reply' = Refused("open", p, mode)
  /\ UNCHANGED <<nodes, listed>>

\* Requests to change something change nothing.
Change(p, mode) ==
  /\ reply' = Refused("change", p, mode)
  /\ UNCHANGED <<nodes, at, listed>>

\* What is open.
Info ==
  /\ \E n \in nodes : n.path = at.path /\ n.type = at.type /\ reply' = Found("info", n, {})
  /\ UNCHANGED <<nodes, at, listed>>

\* What was delivered, each entry once.
Delivered(entries) == {entries[k] : k \in DOMAIN entries}
Once(entries) == \A j, k \in DOMAIN entries : entries[j].name = entries[k].name => j = k

\* All of a directory at once.
List ==
  /\ at.type = "directory"
  /\ Delivered(listed') = Children(at.path) /\ Once(listed')
  /\ reply' = Count("list", Len(listed'))
  /\ UNCHANGED <<nodes, at>>

\* Some more of a directory, or nothing if there is no more.
Page ==
  /\ at.type = "directory"
  /\ Len(listed') >= Len(listed)
  /\ SubSeq(listed', 1, Len(listed)) = listed
  /\ Delivered(listed') \subseteq Children(at.path) /\ Once(listed')
  /\ listed' = listed => Delivered(listed) = Children(at.path)
  /\ reply' = Count("page", Len(listed') - Len(listed))
  /\ UNCHANGED <<nodes, at>>

Rewind ==
  /\ listed' = <<>>
  /\ UNCHANGED <<nodes, at, reply>>

Close ==
  /\ at' = Closed
  /\ listed' = <<>>
  /\ UNCHANGED <<nodes, reply>>

Take ==
  /\ reply' = NoReply
  /\ UNCHANGED <<nodes, at, listed>>

\* The request that a step answers is the one that its answer names.
Answers ==
  /\ reply' # NoReply
  /\ LET p == reply'.path
         mode == reply'.mode
     IN Stat(p) \/ Look(p) \/ Access(p, mode) \/ Open(p, mode) \/ Change(p, mode)

Next == Answers \/ Info \/ List \/ Page \/ Rewind \/ Close \/ Take

Spec == Init /\ [][Next]_treeVars
=============================================================================
