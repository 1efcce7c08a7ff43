-------------------------- MODULE IntegrityProvider --------------------------
(***************************************************************************)
(* IntegrityVerificationProvider::read, one layer of a hash tree, under    *)
(* concurrent readers.  A run of blocks is fetched and checked group by    *)
(* group against the hashes that the layer above delivers; the hashes that *)
(* have been met once are remembered in a CacheSet and are not asked for   *)
(* again.  If the first hash of a group is remembered, the whole group     *)
(* goes unchecked.                                                         *)
(*                                                                         *)
(* The layer above is a layer like this one, or the master hash: what it   *)
(* delivers is genuine, and it may refuse (VerifiedRead.tla).  A key of    *)
(* the cache is the offset of a hash, and stands for its block; the key of *)
(* a node that was just made, 0, is the offset of the first hash.          *)
(***************************************************************************)
EXTENDS LruCache

CONSTANTS
  Threads,
  NoBlock,
  MaxHashCount, \* cMaxHashCount: the hashes of a group (0x4000)
  MaxCount      \* bound of the model: the blocks of one read

Blocks == Keys

ASSUME IntegrityAssumption ==
  /\ Keys \subseteq Nat /\ \A b \in Keys : 0 .. b \subseteq Keys
  /\ NoBlock \notin Blocks
  /\ MaxHashCount \in Nat \ {0}
  /\ MaxCount \in Nat \ {0}

VARIABLES
  image,        \* image[b]: "good" if block b has the content its hash stands for
  pc,           \* where thread t is in read()
  first,        \* the first block it reads, and how many
  count,
  current,      \* the locals `current` and `i`
  i,
  result        \* "none", "served" (size is returned) or "refused" (0 is)

readVars == <<image, pc, first, count, current, i, result>>
vars == <<order, key, value, map, image, pc, first, count, current, i, result>>

Phases == {"idle", "fetch", "group", "hashes", "check", "verify", "add", "done"}

Init ==
  /\ CacheInit
  /\ image \in [Blocks -> {"good", "corrupt"}]
  /\ pc = [t \in Threads |-> "idle"]
  /\ first = [t \in Threads |-> NoBlock]
  /\ count = [t \in Threads |-> 0]
  /\ current = [t \in Threads |-> 0]
  /\ i = [t \in Threads |-> 0]
  /\ result = [t \in Threads |-> "none"]

Goto(t, phase) == pc' = [pc EXCEPT ![t] = phase]

Finish(t, r) ==
  /\ result' = [result EXCEPT ![t] = r]
  /\ Goto(t, "done")

\* A hash of the verify cache is remembered, or is added to it.
Remembered(b) == Contains(b)
Recall(b) == Get(b)
Remember(b) == Add(b, DefaultValue)

Least(a, b) == IF a < b THEN a ELSE b

\* The number of hashes in the group at `current`, and its first block.
HashCount(t) == Least(Least(MaxHashCount, count[t]), count[t] - current[t])
GroupHead(t) == first[t] + current[t]
Block(t) == first[t] + current[t] + i[t]

\* read() is called for whole blocks of the data, the last of which is filled
\* up with zeros.
Read(t, b, n) ==
  /\ pc[t] = "idle"
  /\ b + n - 1 \in Blocks
  /\ first' = [first EXCEPT ![t] = b]
  /\ count' = [count EXCEPT ![t] = n]
  /\ Goto(t, "fetch")
  /\ UNCHANGED <<cacheVars, image, current, i, result>>

\* mDataProvider->read: all of it, or an early `return 0`.
Fetch(t) ==
  /\ pc[t] = "fetch"
  /\ \/ Goto(t, "group") /\ UNCHANGED result
     \/ Finish(t, "refused")
  /\ UNCHANGED <<cacheVars, image, first, count, current, i>>

\* A mutant: the first hash of the read is looked for, not that of the group.
GroupByRead(t) ==
  /\ pc[t] = "group" /\ current[t] < count[t]
  /\ Recall(first[t])
  /\ \/ /\ Remembered(first[t])
        /\ current' = [current EXCEPT ![t] = @ + HashCount(t)]
        /\ UNCHANGED pc
     \/ ~ Remembered(first[t]) /\ Goto(t, "hashes") /\ UNCHANGED current
  /\ UNCHANGED <<image, first, count, i, result>>

\* The head of the loop: the group is skipped if its first hash is remembered.
Group(t) ==
  /\ pc[t] = "group" /\ current[t] < count[t]
  /\ Recall(GroupHead(t))
  /\ \/ /\ Remembered(GroupHead(t))
        /\ current' = [current EXCEPT ![t] = @ + HashCount(t)]
        /\ UNCHANGED pc
     \/ ~ Remembered(GroupHead(t)) /\ Goto(t, "hashes") /\ UNCHANGED current
  /\ UNCHANGED <<image, first, count, i, result>>

\* mHashProvider->read: the hashes of the group, or an early `return 0`.
ReadHashes(t) ==
  /\ pc[t] = "hashes"
  /\ \/ Goto(t, "check") /\ i' = [i EXCEPT ![t] = 0] /\ UNCHANGED result
     \/ Finish(t, "refused") /\ UNCHANGED i
  /\ UNCHANGED <<cacheVars, image, first, count, current>>

\* A hash of the group that is remembered by now is not compared.
Check(t) ==
  /\ pc[t] = "check" /\ i[t] < HashCount(t)
  /\ Recall(Block(t))
  /\ \/ Remembered(Block(t)) /\ i' = [i EXCEPT ![t] = @ + 1] /\ UNCHANGED pc
     \/ ~ Remembered(Block(t)) /\ Goto(t, "verify") /\ UNCHANGED i
  /\ UNCHANGED <<image, first, count, current, result>>

\* A mutant: the failure is logged and nothing else.
VerifyWarns(t) ==
  /\ pc[t] = "verify"
  /\ Goto(t, "add")
  /\ UNCHANGED <<cacheVars, image, first, count, current, i, result>>

\* Sha256Verify.
Verify(t) ==
  /\ pc[t] = "verify"
  /\ \/ image[Block(t)] = "good" /\ Goto(t, "add") /\ UNCHANGED result
     \/ image[Block(t)] = "corrupt" /\ Finish(t, "refused")
  /\ UNCHANGED <<cacheVars, image, first, count, current, i>>

\* The hash that was compared is remembered.
AddVerified(t) ==
  /\ pc[t] = "add"
  /\ Remember(Block(t))
  /\ i' = [i EXCEPT ![t] = @ + 1]
  /\ Goto(t, "check")
  /\ UNCHANGED <<image, first, count, current, result>>

\* A mutant: a group counts as long as the first one.
NextGroupWhole(t) ==
  /\ pc[t] = "check" /\ i[t] = HashCount(t)
  /\ current' = [current EXCEPT ![t] = @ + Least(MaxHashCount, count[t])]
  /\ Goto(t, "group")
  /\ UNCHANGED <<cacheVars, image, first, count, i, result>>

\* The end of the loop's body.
NextGroup(t) ==
  /\ pc[t] = "check" /\ i[t] = HashCount(t)
  /\ current' = [current EXCEPT ![t] = @ + HashCount(t)]
  /\ Goto(t, "group")
  /\ UNCHANGED <<cacheVars, image, first, count, i, result>>

\* The loop is through.
Serve(t) ==
  /\ pc[t] = "group" /\ current[t] >= count[t]
  /\ Finish(t, "served")
  /\ UNCHANGED <<cacheVars, image, first, count, current, i>>

Return(t) ==
  /\ pc[t] = "done"
  /\ Goto(t, "idle")
  /\ first' = [first EXCEPT ![t] = NoBlock]
  /\ count' = [count EXCEPT ![t] = 0]
  /\ current' = [current EXCEPT ![t] = 0]
  /\ i' = [i EXCEPT ![t] = 0]
  /\ result' = [result EXCEPT ![t] = "none"]
  /\ UNCHANGED <<cacheVars, image>>

Step(t) ==
  \/ \E b \in Blocks, n \in 1 .. MaxCount : Read(t, b, n)
  \/ Fetch(t) \/ Group(t) \/ ReadHashes(t) \/ Check(t) \/ Verify(t)
  \/ AddVerified(t) \/ NextGroup(t) \/ Serve(t) \/ Return(t)

Next == \E t \in Threads : Step(t)

Spec == Init /\ [][Next]_vars

-----------------------------------------------------------------------------
\* The types, and that the loop stays inside of the blocks that were asked for.
TypeOK ==
  /\ CacheTypeOK
  /\ image \in [Blocks -> {"good", "corrupt"}]
  /\ pc \in [Threads -> Phases]
  /\ first \in [Threads -> Blocks \cup {NoBlock}]
  /\ count \in [Threads -> 0 .. MaxCount]
  /\ current \in [Threads -> 0 .. MaxCount]
  /\ i \in [Threads -> 0 .. MaxCount]
  /\ result \in [Threads -> {"none", "served", "refused"}]
  /\ \A t \in Threads : current[t] <= count[t]

Genuine == {b \in Blocks : image[b] = "good"}

\* What is remembered is genuine: whichever thread recycles whichever node, and
\* although the key of a fresh node is the offset of the first hash, a corrupt
\* block never comes to be skipped for its own sake.
RememberedIsGenuine == \A b \in Blocks : Remembered(b) => b \in Genuine

\* The first block of a read is served only if it is genuine, however the
\* readers race for the cache.  A read of a single block, and no other reaches
\* this layer through CacheProvider and AlignedProvider, is all of it.
Layer == INSTANCE VerifiedRead WITH genuine <- Genuine, wanted <- first

ServesOnlyGenuine == Layer!Spec

\* The blocks that begin a group of thread t's read.
Heads(t) == {first[t] + n * Least(MaxHashCount, count[t]) : n \in 0 .. count[t]}

\* Block b is genuine, or skipped for the sake of the genuine head of its group.
Excused(t, b) ==
  b \notin Genuine =>
    \E head \in Heads(t) : head < b /\ b < head + MaxHashCount /\ head \in Genuine

\* The gap that skipping groups leaves, and that there is no other: a corrupt
\* block is served only to a reader of several blocks, never at the head of a
\* group, and only while the head of its group is genuine.
OnlyGroupsAreSkipped ==
  \A t \in Threads : result[t] = "served" =>
    \A b \in first[t] .. first[t] + count[t] - 1 : Excused(t, b)
=============================================================================
