---------------------------- MODULE PatchedSection ----------------------------
(***************************************************************************)
(* AesCtrExProvider::read and IndirectProvider::read: a section of an      *)
(* update is read by walking over a bucket tree.  Each entry of an         *)
(* AES-CTR-EX table says with which generation of the key stream the bytes *)
(* from its address on are enciphered, if they are; each entry of an       *)
(* indirect table says in which of two storages, the base or the patch,    *)
(* they lie.  One action is one round of the walk's loop.                  *)
(*                                                                         *)
(* A delivered byte is what was done to get it: <<p, g>> is the byte at p  *)
(* deciphered with generation g, <<s, p>> the byte at p of storage s.      *)
(***************************************************************************)
EXTENDS BucketTree

CONSTANTS
  BlockSize,    \* AesCtrExProvider::cBlockSize (16)
  Images,       \* the sections that are read (see ImageFields)
  NotEncrypted, \* the generation of bytes that are not enciphered
  MaxOffset,    \* bounds of the model: the largest offset and size of a request
  MaxSize

\* kind: "aesCtrEx" or "indirect"; tree: its table, whose entries have the
\* field generation, or storage and physical; storageSize: how many bytes the
\* provider below has, or each of the two; missing: the bytes <<s, p>> that fail
\* to be read; padded: the storages that deliver zeros behind their end.
ImageFields == {"kind", "tree", "storageSize", "missing", "padded"}

Storages == {0, 1}

ASSUME SectionAssumption ==
  /\ BlockSize \in Nat \ {0} /\ MaxOffset \in Nat /\ MaxSize \in Nat
  /\ \A m \in Images : DOMAIN m = ImageFields /\ m.kind \in {"aesCtrEx", "indirect"}
  /\ \A m \in Images : WellFormed(m.tree) /\ \A s \in Storages : m.storageSize[s] \in Nat

VARIABLES
  image,        \* the section
  phase,        \* "idle", "walking" or "returned"
  request,      \* offset and size of the read, cut off where the code does so
  loc,          \* the locator
  cur,          \* curOffset
  out           \* what was delivered so far

vars == <<image, phase, request, loc, cur, out>>

tree == image.tree
End == request.offset + request.size
Size == tree.root.end
Nothing == [i \in {} |-> <<>>]

Init ==
  /\ image \in Images
  /\ phase = "idle"
  /\ request = [offset |-> 0, size |-> 0]
  /\ loc = Nowhere
  /\ cur = 0
  /\ out = Nothing

\* `return 0`: nothing is delivered.
Fail == phase' = "returned" /\ out' = Nothing

\* findEntry, and into the loop.
StartWalk(r) ==
  /\ phase' = "walking"
  /\ request' = r
  /\ loc' = Find(tree, r.offset)
  /\ cur' = r.offset
  /\ out' = Nothing
  /\ UNCHANGED image

-----------------------------------------------------------------------------
\* AesCtrExProvider::read cuts the request off at its own end.
Clamped(r) == [r EXCEPT !.size = IF r.offset + r.size > Size THEN Size - r.offset ELSE r.size]

\* mProvider->read brings all that was asked for.
Below(offset, size) ==
  /\ offset + size <= image.storageSize[0]
  /\ \A p \in offset .. offset + size - 1 : <<0, p>> \notin image.missing

ExAccepts(r) ==
  /\ IsInitialized(tree)
  /\ r.offset < Size
  /\ LET c == Clamped(r)
     IN /\ c.offset % BlockSize = 0 /\ c.size % BlockSize = 0
        /\ Contains(tree, c.offset) /\ c.offset + c.size <= Size
        /\ Below(c.offset, c.size)

BeginEx(r) ==
  /\ phase = "idle" /\ image.kind = "aesCtrEx"
  /\ ExAccepts(r)
  /\ StartWalk(Clamped(r))

\* IndirectProvider::read leaves the request as it is.
IndirectAccepts(r) == IsInitialized(tree) /\ r.offset < Size

BeginIndirect(r) ==
  /\ phase = "idle" /\ image.kind = "indirect"
  /\ IndirectAccepts(r)
  /\ StartWalk(r)

Refuse(r) ==
  /\ phase = "idle"
  /\ ~ IF image.kind = "aesCtrEx" THEN ExAccepts(r) ELSE IndirectAccepts(r)
  /\ Fail
  /\ request' = r
  /\ UNCHANGED <<image, loc, cur>>

-----------------------------------------------------------------------------
\* A mutant: `<=` in the condition of the loop.
UnfinishedAtEnd == phase = "walking" /\ cur <= End

Unfinished == phase = "walking" /\ cur < End

\* The locator of the entry after this one, if there is one.
After == IF HasNext(tree, loc) THEN NextLocator(tree, loc) ELSE loc
NextOffset == IF HasNext(tree, loc) THEN EntryAt(tree, After).at ELSE Size

\* loc.get, and the checks of both loops.
EntryUsable ==
  /\ HasValue(loc)
  /\ EntryAt(tree, loc).at <= cur
  /\ HasNext(tree, loc) => After # Nowhere /\ Contains(tree, NextOffset)

ExUsable ==
  /\ EntryUsable
  /\ NextOffset % BlockSize = 0
  /\ NextOffset > cur

\* A mutant: the rest of the entry is taken, wanted or not.
RestOfEntry == NextOffset - cur

\* sizeToCopy, sizeToRead: the rest of the entry, or of the request.
StepSize == IF NextOffset <= End THEN NextOffset - cur ELSE End - cur

\* The next n bytes are delivered, and the locator moves on.
Advance(n, byte) ==
  /\ out' = [i \in 0 .. cur + n - request.offset - 1 |->
               IF i \in DOMAIN out THEN out[i] ELSE byte[request.offset + i]]
  /\ cur' = cur + n
  /\ loc' = After
  /\ UNCHANGED <<image, phase, request>>

\* decrypt(): every byte at its own place in the section, with the generation
\* of the entry.
Deciphered == [p \in cur .. cur + StepSize - 1 |-> <<p, EntryAt(tree, loc).generation>>]

CopyEx ==
  /\ image.kind = "aesCtrEx"
  /\ Unfinished
  /\ ExUsable
  /\ Advance(StepSize, Deciphered)

\* decrypt() throws inside and answers false.
DecryptFails ==
  /\ image.kind = "aesCtrEx"
  /\ Unfinished
  /\ ExUsable
  /\ EntryAt(tree, loc).generation # NotEncrypted
  /\ Fail
  /\ UNCHANGED <<image, request, loc, cur>>

\* mProviders[s]->read of n bytes brings n bytes.  A size below zero wraps
\* round to one that no storage can fill.
StorageReads(s, offset, n) ==
  \/ n = 0
  \/ /\ n > 0
     /\ offset < image.storageSize[s]
     /\ s \in image.padded \/ offset + n <= image.storageSize[s]
     /\ \A p \in offset .. offset + n - 1 : <<s, p>> \notin image.missing

IndirectUsable ==
  /\ EntryUsable
  /\ LET entry == EntryAt(tree, loc)
     IN /\ entry.storage \in Storages
        /\ entry.physical \in 0 .. image.storageSize[entry.storage] - 1
        /\ StorageReads(entry.storage, entry.physical + (cur - entry.at), StepSize)

\* A byte of a storage; behind its end, a zero.
StorageByte(m, s, p) == IF p < m.storageSize[s] THEN <<s, p>> ELSE <<s, -1>>

\* A mutant: where the cursor stands in the entry is forgotten.
FetchedFromStart ==
  LET entry == EntryAt(tree, loc)
  IN [p \in cur .. cur + StepSize - 1 |-> StorageByte(image, entry.storage, entry.physical + (p - cur))]

Fetched ==
  LET entry == EntryAt(tree, loc)
  IN [p \in cur .. cur + StepSize - 1 |-> StorageByte(image, entry.storage, entry.physical + (p - entry.at))]

CopyIndirect ==
  /\ image.kind = "indirect"
  /\ Unfinished
  /\ IndirectUsable
  /\ Advance(StepSize, Fetched)

-----------------------------------------------------------------------------
\* One of the checks of the loop fails.
Stop ==
  /\ Unfinished
  /\ ~ IF image.kind = "aesCtrEx" THEN ExUsable ELSE IndirectUsable
  /\ Fail
  /\ UNCHANGED <<image, request, loc, cur>>

\* `return size`.
Return ==
  /\ phase = "walking" /\ ~ Unfinished
  /\ phase' = "returned"
  /\ UNCHANGED <<image, request, loc, cur, out>>

\* The caller has its answer.
Done ==
  /\ phase = "returned"
  /\ phase' = "idle"
  /\ request' = [offset |-> 0, size |-> 0]
  /\ loc' = Nowhere /\ cur' = 0 /\ out' = Nothing
  /\ UNCHANGED image

\* AES-CTR-EX is read through a block cache that asks for whole blocks, also
\* behind the end.  The hash layer above an indirect section cuts requests off
\* at the end of its data.
Requests ==
  {r \in [offset : 0 .. MaxOffset, size : 1 .. MaxSize] :
     image.kind = "indirect" => r.offset + r.size <= Size}

Walk == CopyEx \/ DecryptFails \/ CopyIndirect \/ Stop \/ Return

Next ==
  \/ \E r \in Requests : BeginEx(r) \/ BeginIndirect(r) \/ Refuse(r)
  \/ Walk
  \/ Done

\* The walk is a loop of one thread: it goes on.
Spec == Init /\ [][Next]_vars /\ WF_vars(Walk)

-----------------------------------------------------------------------------
\* The types: the cursor stays inside of the request, and the bytes delivered
\* are those up to the cursor, never more than were asked for.
TypeOK ==
  /\ image \in Images
  /\ phase \in {"idle", "walking", "returned"}
  /\ request.offset \in 0 .. MaxOffset /\ request.size \in 0 .. MaxSize
  /\ phase = "walking" => cur \in request.offset .. End
  /\ phase = "walking" => DOMAIN out = 0 .. cur - request.offset - 1
  /\ phase = "returned" => out = Nothing \/ DOMAIN out = 0 .. request.size - 1

\* Entry i of node k is the last one that begins at or before p.
Covers(t, k, i, p) ==
  /\ k \in 0 .. t.nodeCount - 1 /\ i \in 0 .. t.nodes[k].count - 1
  /\ t.nodes[k].entry[i].at <= p
  /\ \A l \in 0 .. t.nodeCount - 1 : \A j \in 0 .. t.nodes[l].count - 1 :
       t.nodes[l].entry[j].at <= p => l < k \/ (l = k /\ j <= i)

\* What an entry of section m says of position p.
ByteOf(m, entry, p) ==
  IF m.kind = "aesCtrEx" THEN <<p, entry.generation>>
  ELSE StorageByte(m, entry.storage, entry.physical + (p - entry.at))

\* The byte is the one that the table has for position p.
Genuine(m, p, byte) ==
  \A k \in 0 .. m.tree.nodeCount - 1 : \A i \in 0 .. m.tree.nodes[k].count - 1 :
    Covers(m.tree, k, i, p) => byte = ByteOf(m, m.tree.nodes[k].entry[i], p)

\* Every byte that is delivered is the one that the table's last entry at or
\* before its position stands for, across entries and nodes: deciphered with
\* that entry's generation, or taken from its place in its storage.  It holds
\* even where findEntry leads to a wrong entry, by the checks of the loop.
DeliversGenuine ==
  \A i \in DOMAIN out : Genuine(image, request.offset + i, out[i])

\* The offsets fit into the root and lead to the nodes, none of which is empty,
\* and the table ends behind its last entry.
Rooted(t) ==
  /\ IsInitialized(t) /\ ~ HasLevel2(t) /\ t.root.count = t.nodeCount
  /\ \A k \in 0 .. t.nodeCount - 1 :
       /\ t.nodes[k].count > 0 /\ t.root.slots[k] = t.nodes[k].entry[0].at
       /\ \A i \in 0 .. t.nodes[k].count - 1 : t.nodes[k].entry[i].at < t.root.end

\* The byte that the table has for position p can be read.
There(m, p) ==
  IF m.kind = "aesCtrEx" THEN p < m.storageSize[0] /\ <<0, p>> \notin m.missing
  ELSE \A k \in 0 .. m.tree.nodeCount - 1 : \A i \in 0 .. m.tree.nodes[k].count - 1 :
         Covers(m.tree, k, i, p) =>
           LET entry == m.tree.nodes[k].entry[i]
               place == entry.physical + (p - entry.at)
           IN /\ entry.storage \in Storages /\ entry.physical \in Nat
              /\ place < m.storageSize[entry.storage]
              /\ <<entry.storage, place>> \notin m.missing

\* The requested part is one that a caller may expect to get.
Intact(r) ==
  /\ Rooted(tree)
  /\ Contains(tree, r.offset) /\ r.offset + r.size <= Size
  /\ \A p \in r.offset .. r.offset + r.size - 1 : There(image, p)
  /\ image.kind = "aesCtrEx" =>
       /\ r.offset % BlockSize = 0 /\ r.size % BlockSize = 0 /\ Size % BlockSize = 0
       /\ \A k \in 0 .. tree.nodeCount - 1 : \A i \in 0 .. tree.nodes[k].count - 1 :
            tree.nodes[k].entry[i].at % BlockSize = 0

\* In a table whose offsets fit into the root, no check turns away a request
\* that lies in the section, is aligned and wants only bytes that are there:
\* whatever entries and nodes it begins in, spans or ends in, the walk comes to
\* its end, whatever is missing elsewhere.
IntactIsDelivered ==
  [][(\E r \in Requests : Refuse(r)) \/ Stop => ~ Intact(request')]_vars

\* FindEntry's bisection comes to the last offset that is not greater than the
\* address, in every node of the table and for every address.
BisectionFinds ==
  phase = "idle" =>
    \A k \in 0 .. tree.nodeCount - 1 : \A address \in 0 .. Size :
      LET count == tree.nodes[k].count
      IN Bisect(Begins(tree, k), count, address) = FindInNode(Begins(tree, k), count, address)

\* Every read that was begun returns.
ReadReturns == phase = "walking" ~> phase = "returned"
=============================================================================
