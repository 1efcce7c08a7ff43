----------------------------- MODULE RomFileTable -----------------------------
(***************************************************************************)
(* RomFileTable::findFile and findDirectory: a path is looked up in an LRU *)
(* cache of entry positions; on a miss the tables are walked and the       *)
(* position is added.  No lock is held between the get and the add, so     *)
(* FUSE threads that miss on the same path all walk and all add it.  The   *)
(* two functions differ in the table and the cache they use, and never     *)
(* touch each other's: this module is either of them.                      *)
(***************************************************************************)
EXTENDS LruCache

CONSTANTS
  Threads,      \* threads inside findFile or findDirectory
  Position,     \* Position[p]: where findRecursive finds path p, NoPos if nowhere
  EntryAt,      \* EntryAt[pos]: the table entry there
  NoPos,        \* 0xffffffff
  NotFound      \* the lookup returns false

Positions == Values
Entries == {EntryAt[p] : p \in Positions}

ASSUME TableAssumption ==
  /\ Position \in [Keys -> Positions \cup {NoPos}]
  /\ NoPos \notin Positions
  /\ NotFound \notin Entries

VARIABLES
  pc,           \* where thread t is in the lookup
  path,         \* the path it looks up
  pos,          \* the local `pos`
  out           \* what the lookup returned

lookupVars == <<pc, path, pos, out>>
tableVars == <<order, key, value, map, pc, path, pos, out>>

Phases == {"idle", "walk", "add", "entry", "done"}

LookupInit ==
  /\ CacheInit
  /\ pc = [t \in Threads |-> "idle"]
  /\ path = [t \in Threads |-> DefaultKey]
  /\ pos = [t \in Threads |-> NoPos]
  /\ out = [t \in Threads |-> NotFound]

Goto(t, phase) == pc' = [pc EXCEPT ![t] = phase]

\* The lookup starts: mFileCache.get(path, &pos).
Lookup(t, p) ==
  /\ pc[t] = "idle"
  /\ path' = [path EXCEPT ![t] = p]
  /\ Get(p)
  /\ \/ Contains(p) /\ pos' = [pos EXCEPT ![t] = CachedValue(p)] /\ Goto(t, "entry")
     \/ ~ Contains(p) /\ Goto(t, "walk") /\ UNCHANGED pos
  /\ UNCHANGED out

\* findRecursive, which reads tables that never change and takes no lock.
Walk(t) ==
  /\ pc[t] = "walk"
  /\ pos' = [pos EXCEPT ![t] = Position[path[t]]]
  /\ \/ Position[path[t]] = NoPos /\ out' = [out EXCEPT ![t] = NotFound] /\ Goto(t, "done")
     \/ Position[path[t]] # NoPos /\ Goto(t, "add") /\ UNCHANGED out
  /\ UNCHANGED <<cacheVars, path>>

\* mFileCache.add(path, pos).
AddPosition(t) ==
  /\ pc[t] = "add"
  /\ Add(path[t], pos[t])
  /\ Goto(t, "entry")
  /\ UNCHANGED <<path, pos, out>>

\* mFileMap.get(&entry, pos): the entry that find() read before can be read.
ReadEntry(t) ==
  /\ pc[t] = "entry"
  /\ out' = [out EXCEPT ![t] = EntryAt[pos[t]]]
  /\ Goto(t, "done")
  /\ UNCHANGED <<cacheVars, path, pos>>

\* The lookup returns; its locals are gone.
Return(t) ==
  /\ pc[t] = "done"
  /\ Goto(t, "idle")
  /\ path' = [path EXCEPT ![t] = DefaultKey]
  /\ pos' = [pos EXCEPT ![t] = NoPos]
  /\ out' = [out EXCEPT ![t] = NotFound]
  /\ UNCHANGED cacheVars

Step(t) ==
  \/ \E p \in Keys : Lookup(t, p)
  \/ Walk(t) \/ AddPosition(t) \/ ReadEntry(t) \/ Return(t)

LookupNext == \E t \in Threads : Step(t)

LookupSpec == LookupInit /\ [][LookupNext]_tableVars

-----------------------------------------------------------------------------
LookupTypeOK ==
  /\ CacheTypeOK
  /\ pc \in [Threads -> Phases]
  /\ path \in [Threads -> Keys]
  /\ pos \in [Threads -> Positions \cup {NoPos}]
  /\ out \in [Threads -> Entries \cup {NotFound}]

\* What the tables say of a path, without any cache.
Truth(p) == IF Position[p] = NoPos THEN NotFound ELSE EntryAt[Position[p]]

\* Cached or walked, alone or racing with the eviction of its own path, a
\* lookup returns the entry of the path it was asked for, and a path that
\* exists is never reported missing.
LookupReturnsTruth ==
  \A t \in Threads : pc[t] = "done" => out[t] = Truth(path[t])

\* Whatever is recycled by an add, the path just added can be found in the
\* cache afterwards, even when another thread added it in between.
AddedIsCached ==
  [][\A t \in Threads : pc[t] = "add" /\ pc'[t] = "entry" => map'[path[t]] # NoNode]_tableVars
=============================================================================
