----------------------- MODULE IntegrityProviderProofs -----------------------
(***************************************************************************)
(* Proofs about IntegrityProvider for any number of readers, blocks and    *)
(* cache nodes, and any length of a group.  The invariant follows a reader *)
(* through the loop of read(): the groups it has passed are excused, the   *)
(* blocks of the current group that it has passed are genuine, and so is   *)
(* the one whose hash it is about to remember.                             *)
(***************************************************************************)
EXTENDS IntegrityProvider, LruCacheProofs

Length(t) == Least(MaxHashCount, count[t])

\* The group at `current` begins a multiple of its length into the read.
AtHead(t) == \E n \in 0 .. count[t] : current[t] = n * Length(t)

\* What has been passed, in the groups before and in this one.
Passed(t) == \A b \in first[t] .. GroupHead(t) - 1 : Excused(t, b)
Compared(t) == \A b \in GroupHead(t) .. Block(t) - 1 : b \in Genuine

InLoop == {"hashes", "check", "verify", "add"}

Whereabouts(t) ==
  /\ pc[t] = "idle" <=> first[t] = NoBlock
  /\ pc[t] = "done" <=> result[t] # "none"
  /\ pc[t] # "idle" => count[t] >= 1 /\ first[t] + count[t] - 1 \in Blocks
  /\ pc[t] \in {"idle", "fetch"} => current[t] = 0
  /\ pc[t] \in InLoop => current[t] < count[t]
  /\ pc[t] = "check" => i[t] <= HashCount(t)
  /\ pc[t] \in {"verify", "add"} => i[t] < HashCount(t)

ReaderInv(t) ==
  /\ Whereabouts(t)
  /\ pc[t] # "idle" => Passed(t)
  /\ pc[t] # "idle" /\ current[t] < count[t] => AtHead(t)
  /\ pc[t] \in {"check", "verify", "add"} => Compared(t)
  /\ pc[t] = "add" => Block(t) \in Genuine
  /\ result[t] = "served" => current[t] = count[t]

ProviderInv ==
  /\ TypeOK
  /\ MapNodesAgree
  /\ RememberedIsGenuine
  /\ \A t \in Threads : ReaderInv(t)

locals(t) == <<pc[t], first[t], count[t], current[t], i[t], result[t]>>

-----------------------------------------------------------------------------
LEMMA InitProviderInv == Init => ProviderInv
  <1> SUFFICES ASSUME Init PROVE ProviderInv
    OBVIOUS
  <1>1. CacheInv /\ RememberedIsGenuine
    BY CacheInitInv DEF Init, RememberedIsGenuine, Remembered, Blocks
  <1>2. TypeOK
    BY <1>1, IntegrityAssumption DEF Init, CacheInv, TypeOK, Phases
  <1>3. \A t \in Threads : ReaderInv(t)
    BY IntegrityAssumption DEF Init, ReaderInv, Whereabouts, InLoop
  <1>4. QED
    BY <1>1, <1>2, <1>3 DEF CacheInv, ProviderInv

\* A reader whose locals do not change is not disturbed by another one.
LEMMA Undisturbed ==
  ASSUME NEW t \in Threads, ReaderInv(t), UNCHANGED image, UNCHANGED locals(t)
  PROVE  ReaderInv(t)'
  BY DEF locals, ReaderInv, Whereabouts, Passed, Compared, AtHead, Length, HashCount, GroupHead,
         Block, Excused, Heads, Genuine, Least, InLoop

LEMMA OneReader ==
  ASSUME ProviderInv, NEW t \in Threads, UNCHANGED image,
         CacheInv', RememberedIsGenuine', TypeOK', ReaderInv(t)',
         \A u \in Threads \ {t} : UNCHANGED locals(u)
  PROVE  ProviderInv'
  <1>1. ASSUME NEW u \in Threads, u # t PROVE ReaderInv(u)'
    BY <1>1, Undisturbed DEF ProviderInv
  <1>2. QED
    BY <1>1 DEF ProviderInv, CacheInv

\* What a reader's step on the cache has to show: it gets a key, adds a
\* genuine one, or leaves the cache alone.
LEMMA CacheStep ==
  ASSUME ProviderInv, UNCHANGED image,
         \/ UNCHANGED cacheVars
         \/ \E b \in Blocks : Recall(b)
         \/ \E b \in Genuine : Remember(b)
  PROVE  CacheInv' /\ RememberedIsGenuine'
  <1>1. CacheInv /\ RememberedIsGenuine
    BY DEF ProviderInv, TypeOK, CacheInv
  <1>2. CASE UNCHANGED cacheVars
    BY <1>1, <1>2
       DEF cacheVars, CacheInv, CacheTypeOK, MapNodesAgree, Contains, RememberedIsGenuine,
           Remembered, Genuine
  <1>3. ASSUME NEW b \in Blocks, Recall(b) PROVE CacheInv' /\ RememberedIsGenuine'
    <2>1. CacheInv'
      BY <1>1, <1>3, GetInv DEF Recall, Blocks
    <2>2. QED
      BY <1>1, <1>3, <2>1 DEF Recall, Get, RememberedIsGenuine, Remembered, Contains, Genuine
  <1>4. ASSUME NEW b \in Genuine, Remember(b) PROVE CacheInv' /\ RememberedIsGenuine'
    <2>1. b \in Keys /\ DefaultValue \in Values /\ Add(b, DefaultValue)
      BY <1>4, CacheAssumption DEF Remember, Genuine, Blocks
    <2>2. CacheInv'
      BY <1>1, <2>1, AddInv
    <2>3. \A j \in Keys : map'[j] # NoNode => j = b \/ Contains(j)
      BY <1>1, <2>1, AddMap
    <2>4. QED
      BY <1>1, <2>2, <2>3 DEF RememberedIsGenuine, Remembered, Contains, Genuine, Blocks
  <1>5. QED
    BY <1>2, <1>3, <1>4

\* The numbers of a reader that is not idle.
LEMMA Numbers ==
  ASSUME ProviderInv, NEW t \in Threads, pc[t] # "idle"
  PROVE  /\ first[t] \in Nat /\ first[t] \in Blocks
         /\ count[t] \in 1 .. MaxCount /\ current[t] \in 0 .. count[t] /\ i[t] \in 0 .. MaxCount
         /\ Length(t) \in 1 .. MaxHashCount /\ Length(t) <= count[t]
         /\ HashCount(t) = Least(Length(t), count[t] - current[t])
         /\ \A n \in 0 .. count[t] - 1 : first[t] + n \in Blocks
         /\ MaxHashCount \in Nat /\ MaxCount \in Nat
  <1>1. /\ first[t] \in Blocks \cup {NoBlock} /\ count[t] \in 0 .. MaxCount
        /\ current[t] \in 0 .. MaxCount /\ i[t] \in 0 .. MaxCount /\ current[t] <= count[t]
        /\ first[t] # NoBlock /\ count[t] >= 1 /\ first[t] + count[t] - 1 \in Blocks
    BY DEF ProviderInv, TypeOK, ReaderInv, Whereabouts
  <1>2. first[t] \in Nat /\ MaxHashCount \in Nat \ {0} /\ MaxCount \in Nat \ {0}
    BY <1>1, IntegrityAssumption DEF Blocks
  <1>3. \A n \in 0 .. count[t] - 1 : first[t] + n \in Blocks
    <2>1. 0 .. first[t] + count[t] - 1 \subseteq Blocks
      BY <1>1, IntegrityAssumption DEF Blocks
    <2>2. QED
      BY <1>1, <1>2, <2>1
  <1>4. QED
    BY <1>1, <1>2, <1>3 DEF Length, HashCount, Least

-----------------------------------------------------------------------------
LEMMA ReadStep ==
  ASSUME ProviderInv, NEW t \in Threads, NEW b \in Blocks, NEW n \in 1 .. MaxCount, Read(t, b, n)
  PROVE  ProviderInv'
  <1>1. CacheInv' /\ RememberedIsGenuine'
    BY CacheStep DEF Read
  <1>2. b \in Nat /\ b # NoBlock /\ MaxCount \in Nat
    BY IntegrityAssumption DEF Blocks
  <1>3. current[t] = 0 /\ result[t] = "none" /\ pc[t] = "idle"
    BY DEF Read, ProviderInv, ReaderInv, Whereabouts
  <1>4. /\ pc' = [pc EXCEPT ![t] = "fetch"] /\ first' = [first EXCEPT ![t] = b]
        /\ count' = [count EXCEPT ![t] = n] /\ b + n - 1 \in Blocks
        /\ UNCHANGED <<image, current, i, result>>
    BY DEF Read, Goto
  <1>5. TypeOK'
    BY <1>1, <1>2, <1>3, <1>4 DEF ProviderInv, TypeOK, CacheInv, Phases
  <1>6. ReaderInv(t)'
    <2>1. /\ pc'[t] = "fetch" /\ first'[t] = b /\ count'[t] = n /\ current'[t] = 0
          /\ result'[t] = "none"
      BY <1>3, <1>4 DEF ProviderInv, TypeOK
    <2>2. Whereabouts(t)'
      BY <1>2, <1>4, <2>1 DEF Whereabouts, InLoop
    <2>3. Passed(t)'
      BY <1>2, <2>1 DEF Passed, GroupHead
    <2>4. AtHead(t)'
      <3>1. Length(t)' \in Nat
        BY <1>2, <2>1, IntegrityAssumption DEF Length, Least
      <3>2. 0 \in 0 .. n /\ 0 = 0 * Length(t)'
        BY <3>1
      <3>3. QED
        BY <2>1, <3>2 DEF AtHead
    <2>5. QED
      BY <2>1, <2>2, <2>3, <2>4 DEF ReaderInv
  <1>7. \A u \in Threads \ {t} : UNCHANGED locals(u)
    BY <1>4 DEF locals, ProviderInv, TypeOK
  <1>8. QED
    BY <1>1, <1>4, <1>5, <1>6, <1>7, OneReader

\* A step that moves only pc, and result with it when it ends the read there.
LEMMA FetchStep ==
  ASSUME ProviderInv, NEW t \in Threads, Fetch(t)
  PROVE  ProviderInv'
  <1>1. CacheInv' /\ RememberedIsGenuine'
    BY CacheStep DEF Fetch
  <1>2. UNCHANGED <<image, first, count, current, i>> /\ pc[t] = "fetch"
    BY DEF Fetch
  <1>3. \/ pc' = [pc EXCEPT ![t] = "group"] /\ UNCHANGED result
        \/ pc' = [pc EXCEPT ![t] = "done"] /\ result' = [result EXCEPT ![t] = "refused"]
    BY DEF Fetch, Goto, Finish
  <1>4. TypeOK'
    BY <1>1, <1>2, <1>3 DEF ProviderInv, TypeOK, CacheInv, Phases
  <1>5. ReaderInv(t)'
    BY <1>2, <1>3
       DEF ProviderInv, TypeOK, ReaderInv, Whereabouts, Passed, AtHead, Length, GroupHead, Excused,
           Heads, Genuine, Least, InLoop
  <1>6. \A u \in Threads \ {t} : UNCHANGED locals(u)
    BY <1>2, <1>3 DEF locals, ProviderInv, TypeOK
  <1>7. QED
    BY <1>1, <1>2, <1>4, <1>5, <1>6, OneReader

\* Passing a group whose blocks are excused: the next one begins a multiple of
\* the length into the read again, unless it lies behind its end.
LEMMA PassGroup ==
  ASSUME ProviderInv, NEW t \in Threads, pc[t] # "idle", current[t] < count[t],
         UNCHANGED <<image, first, count>>,
         current' = [current EXCEPT ![t] = @ + HashCount(t)],
         \A b \in GroupHead(t) .. GroupHead(t) + HashCount(t) - 1 : Excused(t, b)
  PROVE  /\ current'[t] = current[t] + HashCount(t)
         /\ current'[t] \in 0 .. count[t]
         /\ Passed(t)'
         /\ current'[t] < count'[t] => AtHead(t)'
  <1>1. current'[t] = current[t] + HashCount(t)
    BY DEF ProviderInv, TypeOK
  <1>2. /\ first[t] \in Nat /\ count[t] \in Nat /\ current[t] \in 0 .. count[t]
        /\ Length(t) \in Nat \ {0} /\ HashCount(t) = Least(Length(t), count[t] - current[t])
    BY Numbers, IntegrityAssumption
  <1>3. current'[t] \in 0 .. count[t]
    BY <1>1, <1>2 DEF Least
  <1>4. Passed(t)'
    <2>1. \A b : Excused(t, b)' <=> Excused(t, b)
      BY DEF Excused, Heads, Genuine
    <2>2. Passed(t)
      BY DEF ProviderInv, ReaderInv
    <2>3. ASSUME NEW b \in first[t] .. first[t] + current[t] + HashCount(t) - 1
          PROVE  Excused(t, b)
      <3>1. HashCount(t) \in Nat
        BY <1>2 DEF Least
      <3>2. b \in first[t] .. GroupHead(t) - 1 \/ b \in GroupHead(t) .. GroupHead(t) + HashCount(t) - 1
        BY <1>2, <2>3, <3>1 DEF GroupHead
      <3>3. QED
        BY <2>2, <3>2 DEF Passed
    <2>4. first'[t] = first[t] /\ GroupHead(t)' = first[t] + current[t] + HashCount(t)
      <3>1. HashCount(t) \in Nat
        BY <1>2 DEF Least
      <3>2. QED
        BY <1>1, <1>2, <3>1 DEF GroupHead
    <2>5. first'[t] .. GroupHead(t)' - 1 = first[t] .. first[t] + current[t] + HashCount(t) - 1
      <3>1. HashCount(t) \in Nat
        BY <1>2 DEF Least
      <3>2. QED
        BY <1>2, <2>4, <3>1
    <2>6. \A b \in first'[t] .. GroupHead(t)' - 1 : Excused(t, b)'
      <3>1. SUFFICES ASSUME NEW b \in first'[t] .. GroupHead(t)' - 1 PROVE Excused(t, b)'
        OBVIOUS
      <3>2. Excused(t, b)
        BY <2>3, <2>5, <3>1
      <3>3. QED
        BY <2>1, <3>2
    <2>7. QED
      BY <2>6 DEF Passed
  <1>5. ASSUME current'[t] < count'[t] PROVE AtHead(t)'
    <2>1. PICK n \in 0 .. count[t] : current[t] = n * Length(t)
      BY DEF AtHead, ProviderInv, ReaderInv
    <2>2. HashCount(t) = Length(t)
      BY <1>1, <1>2, <1>5 DEF Least
    <2>3. n \in Nat /\ n < count[t]
      <3>1. n <= n * Length(t)
        BY <1>2
      <3>2. QED
        BY <1>2, <2>1, <3>1
    <2>4. current'[t] = (n + 1) * Length(t)
      BY <1>1, <1>2, <2>1, <2>2, <2>3
    <2>5. n + 1 \in 0 .. count'[t] /\ Length(t)' = Length(t)
      BY <1>2, <2>3 DEF Length
    <2>6. QED
      BY <2>4, <2>5 DEF AtHead
  <1>6. QED
    BY <1>1, <1>3, <1>4, <1>5

\* A genuine head excuses its whole group.
LEMMA HeadExcuses ==
  ASSUME ProviderInv, NEW t \in Threads, pc[t] # "idle", current[t] < count[t],
         GroupHead(t) \in Genuine
  PROVE  \A b \in GroupHead(t) .. GroupHead(t) + HashCount(t) - 1 : Excused(t, b)
  <1>1. SUFFICES ASSUME NEW b \in GroupHead(t) .. GroupHead(t) + HashCount(t) - 1, b \notin Genuine
                 PROVE  \E head \in Heads(t) : head < b /\ b < head + MaxHashCount /\ head \in Genuine
    BY DEF Excused
  <1>2. GroupHead(t) \in Heads(t)
    <2>1. PICK n \in 0 .. count[t] : current[t] = n * Length(t)
      BY DEF AtHead, ProviderInv, ReaderInv
    <2>2. QED
      BY <2>1 DEF Heads, GroupHead, Length
  <1>3. /\ first[t] \in Nat /\ current[t] \in Nat /\ count[t] \in Nat /\ MaxHashCount \in Nat
        /\ HashCount(t) = Least(Length(t), count[t] - current[t]) /\ Length(t) \in 1 .. MaxHashCount
    BY Numbers
  <1>4. GroupHead(t) \in Nat /\ HashCount(t) \in Int /\ HashCount(t) <= MaxHashCount
    BY <1>3 DEF GroupHead, Least
  <1>5. b # GroupHead(t)
    BY <1>1
  <1>6. GroupHead(t) < b /\ b < GroupHead(t) + MaxHashCount
    BY <1>1, <1>3, <1>4, <1>5
  <1>7. QED
    BY <1>2, <1>6

LEMMA GroupStep ==
  ASSUME ProviderInv, NEW t \in Threads, Group(t)
  PROVE  ProviderInv'
  <1>1. pc[t] = "group" /\ current[t] < count[t] /\ GroupHead(t) \in Blocks
    BY Numbers DEF Group, GroupHead
  <1>2. UNCHANGED <<image, first, count, i, result>>
    BY DEF Group
  <1>3. CacheInv' /\ RememberedIsGenuine'
    BY <1>1, CacheStep DEF Group
  <1>4. CASE /\ Remembered(GroupHead(t)) /\ UNCHANGED pc
             /\ current' = [current EXCEPT ![t] = @ + HashCount(t)]
    <2>1. \A b \in GroupHead(t) .. GroupHead(t) + HashCount(t) - 1 : Excused(t, b)
      BY <1>1, <1>4, HeadExcuses DEF ProviderInv, RememberedIsGenuine
    <2>2. /\ current'[t] \in 0 .. count[t] /\ Passed(t)'
          /\ current'[t] < count'[t] => AtHead(t)'
      BY <1>1, <1>2, <1>4, <2>1, PassGroup
    <2>3. TypeOK'
      <3>1. count[t] \in 1 .. MaxCount /\ MaxCount \in Nat
        BY <1>1, Numbers
      <3>2. current'[t] \in 0 .. MaxCount
        BY <2>2, <3>1
      <3>3. QED
        BY <1>2, <1>3, <1>4, <2>2, <3>2 DEF ProviderInv, TypeOK, CacheInv
    <2>4. ReaderInv(t)'
      BY <1>1, <1>2, <1>4, <2>2 DEF ProviderInv, ReaderInv, Whereabouts, InLoop
    <2>5. \A u \in Threads \ {t} : UNCHANGED locals(u)
      BY <1>2, <1>4 DEF locals, ProviderInv, TypeOK
    <2>6. QED
      BY <1>2, <1>3, <2>3, <2>4, <2>5, OneReader
  <1>5. CASE pc' = [pc EXCEPT ![t] = "hashes"] /\ UNCHANGED current
    <2>1. TypeOK'
      BY <1>2, <1>3, <1>5 DEF ProviderInv, TypeOK, CacheInv, Phases
    <2>2. ReaderInv(t)'
      BY <1>1, <1>2, <1>5
         DEF ProviderInv, TypeOK, ReaderInv, Whereabouts, Passed, AtHead, Length, GroupHead, Excused,
             Heads, Genuine, Least, InLoop
    <2>3. \A u \in Threads \ {t} : UNCHANGED locals(u)
      BY <1>2, <1>5 DEF locals, ProviderInv, TypeOK
    <2>4. QED
      BY <1>2, <1>3, <2>1, <2>2, <2>3, OneReader
  <1>6. QED
    BY <1>4, <1>5 DEF Group, Goto

LEMMA ReadHashesStep ==
  ASSUME ProviderInv, NEW t \in Threads, ReadHashes(t)
  PROVE  ProviderInv'
  <1>1. CacheInv' /\ RememberedIsGenuine'
    BY CacheStep DEF ReadHashes
  <1>2. UNCHANGED <<image, first, count, current>> /\ pc[t] = "hashes"
    BY DEF ReadHashes
  <1>3. \/ pc' = [pc EXCEPT ![t] = "check"] /\ i' = [i EXCEPT ![t] = 0] /\ UNCHANGED result
        \/ /\ pc' = [pc EXCEPT ![t] = "done"] /\ result' = [result EXCEPT ![t] = "refused"]
           /\ UNCHANGED i
    BY DEF ReadHashes, Goto, Finish
  <1>4. TypeOK'
    <2>1. 0 \in 0 .. MaxCount
      BY IntegrityAssumption
    <2>2. QED
      BY <1>1, <1>2, <1>3, <2>1 DEF ProviderInv, TypeOK, CacheInv, Phases
  <1>5. ReaderInv(t)'
    <2>1. current[t] < count[t] /\ first[t] \in Nat /\ current[t] \in Nat /\ count[t] \in Nat
      BY <1>2, Numbers DEF ProviderInv, ReaderInv, Whereabouts, InLoop
    <2>2. HashCount(t)' = HashCount(t) /\ HashCount(t) \in Nat
      BY <1>2, <2>1, IntegrityAssumption DEF HashCount, Least
    <2>3. pc'[t] = "check" => Compared(t)'
      <3>1. pc'[t] = "check" => i'[t] = 0
        BY <1>2, <1>3 DEF ProviderInv, TypeOK
      <3>2. QED
        BY <1>2, <2>1, <3>1 DEF Compared, Block, GroupHead
    <2>4. Whereabouts(t)'
      BY <1>2, <1>3, <2>1, <2>2 DEF ProviderInv, TypeOK, ReaderInv, Whereabouts, InLoop
    <2>5. Passed(t)' /\ AtHead(t)'
      BY <1>2, <2>1
         DEF ProviderInv, ReaderInv, Passed, AtHead, Length, GroupHead, Excused, Heads, Genuine, Least
    <2>6. pc'[t] # "add" /\ pc'[t] # "verify" /\ result'[t] # "served"
      BY <1>2, <1>3 DEF ProviderInv, TypeOK, ReaderInv, Whereabouts
    <2>7. QED
      BY <2>3, <2>4, <2>5, <2>6 DEF ReaderInv
  <1>6. \A u \in Threads \ {t} : UNCHANGED locals(u)
    BY <1>2, <1>3 DEF locals, ProviderInv, TypeOK
  <1>7. QED
    BY <1>1, <1>2, <1>4, <1>5, <1>6, OneReader

\* The block that a reader in the loop of the hashes is at.
LEMMA BlockOfGroup ==
  ASSUME ProviderInv, NEW t \in Threads, pc[t] \in {"check", "verify", "add"}, i[t] < HashCount(t)
  PROVE  /\ Block(t) \in Blocks
         /\ i[t] + 1 \in 0 .. MaxCount
         /\ HashCount(t) \in Nat
         /\ GroupHead(t) \in Nat
         /\ Block(t) = GroupHead(t) + i[t]
  <1>1. current[t] < count[t]
    BY DEF ProviderInv, ReaderInv, Whereabouts, InLoop
  <1>2. /\ first[t] \in Nat /\ current[t] \in Nat /\ count[t] \in 1 .. MaxCount /\ i[t] \in Nat
        /\ MaxCount \in Nat /\ MaxHashCount \in Nat
        /\ \A n \in 0 .. count[t] - 1 : first[t] + n \in Blocks
    BY Numbers
  <1>3. HashCount(t) \in Nat /\ HashCount(t) <= count[t] - current[t]
    BY <1>1, <1>2 DEF HashCount, Least
  <1>4. current[t] + i[t] \in 0 .. count[t] - 1
    BY <1>1, <1>2, <1>3
  <1>5. QED
    BY <1>2, <1>3, <1>4 DEF Block, GroupHead

\* A block that is genuine is passed.
LEMMA PassBlock ==
  ASSUME ProviderInv, NEW t \in Threads, pc[t] \in {"check", "verify", "add"}, i[t] < HashCount(t),
         Block(t) \in Genuine,
         UNCHANGED <<image, first, count, current, result>>,
         i' = [i EXCEPT ![t] = @ + 1],
         pc' = [pc EXCEPT ![t] = "check"]
  PROVE  ReaderInv(t)'
  <1>1. i'[t] = i[t] + 1 /\ i[t] \in Nat /\ pc'[t] = "check"
    BY DEF ProviderInv, TypeOK
  <1>2. HashCount(t) \in Nat /\ GroupHead(t) \in Nat /\ Block(t) = GroupHead(t) + i[t]
    BY BlockOfGroup
  <1>3. Compared(t)'
    <2>1. GroupHead(t)' = GroupHead(t) /\ Block(t)' = Block(t) + 1 /\ Genuine' = Genuine
      BY <1>1, <1>2 DEF GroupHead, Block, Genuine
    <2>2. ASSUME NEW b \in GroupHead(t) .. Block(t) PROVE b \in Genuine
      <3>1. b = Block(t) \/ b \in GroupHead(t) .. Block(t) - 1
        BY <1>1, <1>2, <2>2
      <3>2. QED
        BY <3>1 DEF ProviderInv, ReaderInv, Compared
    <2>3. GroupHead(t)' .. Block(t)' - 1 = GroupHead(t) .. Block(t)
      BY <1>1, <1>2, <2>1
    <2>4. QED
      BY <2>1, <2>2, <2>3 DEF Compared
  <1>4. HashCount(t)' = HashCount(t)
    BY DEF HashCount
  <1>5. Whereabouts(t)'
    BY <1>1, <1>2, <1>4 DEF ProviderInv, ReaderInv, Whereabouts, InLoop
  <1>6. Passed(t)' /\ AtHead(t)'
    BY DEF ProviderInv, ReaderInv, Whereabouts, InLoop, Passed, AtHead, Length, GroupHead, Excused,
           Heads, Genuine, Least
  <1>7. QED
    BY <1>1, <1>3, <1>5, <1>6 DEF ProviderInv, ReaderInv, Whereabouts

LEMMA CheckStep ==
  ASSUME ProviderInv, NEW t \in Threads, Check(t)
  PROVE  ProviderInv'
  <1>1. pc[t] = "check" /\ i[t] < HashCount(t) /\ UNCHANGED <<image, first, count, current, result>>
    BY DEF Check
  <1>2. Block(t) \in Blocks /\ i[t] + 1 \in 0 .. MaxCount
    BY <1>1, BlockOfGroup
  <1>3. CacheInv' /\ RememberedIsGenuine'
    BY <1>2, CacheStep DEF Check
  <1>4. CASE Remembered(Block(t)) /\ i' = [i EXCEPT ![t] = @ + 1] /\ UNCHANGED pc
    <2>1. Block(t) \in Genuine
      BY <1>2, <1>4 DEF ProviderInv, RememberedIsGenuine
    <2>2. pc' = [pc EXCEPT ![t] = "check"]
      BY <1>1, <1>4 DEF ProviderInv, TypeOK
    <2>3. ReaderInv(t)'
      BY <1>1, <1>4, <2>1, <2>2, PassBlock
    <2>4. TypeOK'
      BY <1>1, <1>2, <1>3, <1>4 DEF ProviderInv, TypeOK, CacheInv
    <2>5. \A u \in Threads \ {t} : UNCHANGED locals(u)
      BY <1>1, <1>4 DEF locals, ProviderInv, TypeOK
    <2>6. QED
      BY <1>1, <1>3, <2>3, <2>4, <2>5, OneReader
  <1>5. CASE pc' = [pc EXCEPT ![t] = "verify"] /\ UNCHANGED i
    <2>1. TypeOK'
      BY <1>1, <1>3, <1>5 DEF ProviderInv, TypeOK, CacheInv, Phases
    <2>2. ReaderInv(t)'
      BY <1>1, <1>5
         DEF ProviderInv, TypeOK, ReaderInv, Whereabouts, Passed, Compared, AtHead, Length, HashCount,
             GroupHead, Block, Excused, Heads, Genuine, Least, InLoop
    <2>3. \A u \in Threads \ {t} : UNCHANGED locals(u)
      BY <1>1, <1>5 DEF locals, ProviderInv, TypeOK
    <2>4. QED
      BY <1>1, <1>3, <2>1, <2>2, <2>3, OneReader
  <1>6. QED
    BY <1>4, <1>5 DEF Check, Goto

LEMMA VerifyStep ==
  ASSUME ProviderInv, NEW t \in Threads, Verify(t)
  PROVE  ProviderInv'
  <1>1. CacheInv' /\ RememberedIsGenuine'
    BY CacheStep DEF Verify
  <1>2. UNCHANGED <<image, first, count, current, i>> /\ pc[t] = "verify"
    BY DEF Verify
  <1>3. \/ /\ image[Block(t)] = "good"
           /\ pc' = [pc EXCEPT ![t] = "add"] /\ UNCHANGED result
        \/ pc' = [pc EXCEPT ![t] = "done"] /\ result' = [result EXCEPT ![t] = "refused"]
    BY DEF Verify, Goto, Finish
  <1>4. Block(t) \in Blocks
    BY <1>2, BlockOfGroup DEF ProviderInv, ReaderInv, Whereabouts
  <1>5. TypeOK'
    BY <1>1, <1>2, <1>3 DEF ProviderInv, TypeOK, CacheInv, Phases
  <1>6. ReaderInv(t)'
    <2>1. HashCount(t)' = HashCount(t) /\ Block(t)' = Block(t) /\ Genuine' = Genuine
      BY <1>2 DEF HashCount, Block, Genuine
    <2>2. /\ pc'[t] = "add" => image[Block(t)] = "good" /\ result'[t] = "none"
          /\ pc'[t] \in {"add", "done"}
          /\ result'[t] # "served"
      BY <1>2, <1>3 DEF ProviderInv, TypeOK, ReaderInv, Whereabouts
    <2>3. Whereabouts(t)'
      BY <1>2, <1>3, <2>1 DEF ProviderInv, TypeOK, ReaderInv, Whereabouts, InLoop
    <2>4. Passed(t)' /\ AtHead(t)' /\ Compared(t)'
      BY <1>2
         DEF ProviderInv, ReaderInv, Whereabouts, Passed, Compared, AtHead, Length, GroupHead, Block,
             Excused, Heads, Genuine, Least, InLoop
    <2>5. pc'[t] = "add" => Block(t)' \in Genuine'
      BY <1>4, <2>1, <2>2 DEF Genuine
    <2>6. QED
      BY <2>2, <2>3, <2>4, <2>5 DEF ReaderInv
  <1>7. \A u \in Threads \ {t} : UNCHANGED locals(u)
    BY <1>2, <1>3 DEF locals, ProviderInv, TypeOK
  <1>8. QED
    BY <1>1, <1>2, <1>5, <1>6, <1>7, OneReader

LEMMA AddVerifiedStep ==
  ASSUME ProviderInv, NEW t \in Threads, AddVerified(t)
  PROVE  ProviderInv'
  <1>1. /\ pc[t] = "add" /\ UNCHANGED <<image, first, count, current, result>>
        /\ i' = [i EXCEPT ![t] = @ + 1] /\ pc' = [pc EXCEPT ![t] = "check"]
    BY DEF AddVerified, Goto
  <1>2. i[t] < HashCount(t) /\ Block(t) \in Genuine
    BY <1>1 DEF ProviderInv, ReaderInv, Whereabouts
  <1>3. CacheInv' /\ RememberedIsGenuine'
    BY <1>2, CacheStep DEF AddVerified
  <1>4. i[t] + 1 \in 0 .. MaxCount
    BY <1>1, <1>2, BlockOfGroup
  <1>5. TypeOK'
    BY <1>1, <1>3, <1>4 DEF ProviderInv, TypeOK, CacheInv, Phases
  <1>6. ReaderInv(t)'
    BY <1>1, <1>2, PassBlock
  <1>7. \A u \in Threads \ {t} : UNCHANGED locals(u)
    BY <1>1 DEF locals, ProviderInv, TypeOK
  <1>8. QED
    BY <1>1, <1>3, <1>5, <1>6, <1>7, OneReader

LEMMA NextGroupStep ==
  ASSUME ProviderInv, NEW t \in Threads, NextGroup(t)
  PROVE  ProviderInv'
  <1>1. /\ pc[t] = "check" /\ i[t] = HashCount(t) /\ UNCHANGED <<image, first, count, i, result>>
        /\ current' = [current EXCEPT ![t] = @ + HashCount(t)]
        /\ pc' = [pc EXCEPT ![t] = "group"]
    BY DEF NextGroup, Goto
  <1>2. current[t] < count[t]
    BY <1>1 DEF ProviderInv, ReaderInv, Whereabouts, InLoop
  <1>3. CacheInv' /\ RememberedIsGenuine'
    BY CacheStep DEF NextGroup
  <1>4. \A b \in GroupHead(t) .. GroupHead(t) + HashCount(t) - 1 : Excused(t, b)
    <2>1. Block(t) = GroupHead(t) + HashCount(t)
      BY <1>1 DEF Block, GroupHead
    <2>2. GroupHead(t) .. Block(t) - 1 = GroupHead(t) .. GroupHead(t) + HashCount(t) - 1
      <3>1. /\ first[t] \in Nat /\ current[t] \in Nat /\ count[t] \in Nat /\ Length(t) \in Nat
            /\ HashCount(t) = Least(Length(t), count[t] - current[t])
        BY <1>1, Numbers, IntegrityAssumption
      <3>2. GroupHead(t) \in Nat /\ HashCount(t) \in Int
        BY <3>1 DEF GroupHead, Least
      <3>3. QED
        BY <2>1, <3>2
    <2>3. Compared(t)
      BY <1>1 DEF ProviderInv, ReaderInv
    <2>4. QED
      BY <2>2, <2>3 DEF Compared, Excused
  <1>5. /\ current'[t] \in 0 .. count[t] /\ Passed(t)'
        /\ current'[t] < count'[t] => AtHead(t)'
    BY <1>1, <1>2, <1>4, PassGroup
  <1>6. TypeOK'
    <2>1. count[t] \in 1 .. MaxCount /\ MaxCount \in Nat
      BY <1>1, Numbers
    <2>2. current'[t] \in 0 .. MaxCount
      BY <1>5, <2>1
    <2>3. QED
      BY <1>1, <1>3, <1>5, <2>2 DEF ProviderInv, TypeOK, CacheInv, Phases
  <1>7. ReaderInv(t)'
    BY <1>1, <1>2, <1>5 DEF ProviderInv, TypeOK, ReaderInv, Whereabouts, InLoop
  <1>8. \A u \in Threads \ {t} : UNCHANGED locals(u)
    BY <1>1 DEF locals, ProviderInv, TypeOK
  <1>9. QED
    BY <1>1, <1>3, <1>6, <1>7, <1>8, OneReader

LEMMA ServeStep ==
  ASSUME ProviderInv, NEW t \in Threads, Serve(t)
  PROVE  ProviderInv'
  <1>1. CacheInv' /\ RememberedIsGenuine'
    BY CacheStep DEF Serve
  <1>2. /\ UNCHANGED <<image, first, count, current, i>> /\ pc[t] = "group"
        /\ current[t] >= count[t]
        /\ pc' = [pc EXCEPT ![t] = "done"] /\ result' = [result EXCEPT ![t] = "served"]
    BY DEF Serve, Goto, Finish
  <1>3. TypeOK'
    BY <1>1, <1>2 DEF ProviderInv, TypeOK, CacheInv, Phases
  <1>4. current[t] = count[t]
    BY <1>2 DEF ProviderInv, TypeOK
  <1>5. ReaderInv(t)'
    BY <1>2, <1>4
       DEF ProviderInv, TypeOK, ReaderInv, Whereabouts, Passed, AtHead, Length, GroupHead, Excused,
           Heads, Genuine, Least, InLoop
  <1>6. \A u \in Threads \ {t} : UNCHANGED locals(u)
    BY <1>2 DEF locals, ProviderInv, TypeOK
  <1>7. QED
    BY <1>1, <1>2, <1>3, <1>5, <1>6, OneReader

LEMMA ReturnStep ==
  ASSUME ProviderInv, NEW t \in Threads, Return(t)
  PROVE  ProviderInv'
  <1>1. CacheInv' /\ RememberedIsGenuine'
    BY CacheStep DEF Return
  <1>2. /\ UNCHANGED image /\ pc' = [pc EXCEPT ![t] = "idle"]
        /\ first' = [first EXCEPT ![t] = NoBlock] /\ count' = [count EXCEPT ![t] = 0]
        /\ current' = [current EXCEPT ![t] = 0] /\ i' = [i EXCEPT ![t] = 0]
        /\ result' = [result EXCEPT ![t] = "none"]
    BY DEF Return, Goto
  <1>3. TypeOK'
    <2>1. 0 \in 0 .. MaxCount
      BY IntegrityAssumption
    <2>2. QED
      BY <1>1, <1>2, <2>1 DEF ProviderInv, TypeOK, CacheInv, Phases
  <1>4. ReaderInv(t)'
    BY <1>2 DEF ProviderInv, TypeOK, ReaderInv, Whereabouts, InLoop
  <1>5. \A u \in Threads \ {t} : UNCHANGED locals(u)
    BY <1>2 DEF locals, ProviderInv, TypeOK
  <1>6. QED
    BY <1>1, <1>2, <1>3, <1>4, <1>5, OneReader

LEMMA NextProviderInv == ProviderInv /\ [Next]_vars => ProviderInv'
  <1> SUFFICES ASSUME ProviderInv, [Next]_vars PROVE ProviderInv'
    OBVIOUS
  <1>1. CASE UNCHANGED vars
    <2>1. CacheInv' /\ RememberedIsGenuine'
      BY <1>1, CacheStep DEF vars, cacheVars
    <2>2. TypeOK'
      BY <1>1, <2>1 DEF vars, ProviderInv, TypeOK, CacheInv
    <2>3. \A t \in Threads : ReaderInv(t)'
      BY <1>1, Undisturbed DEF vars, locals, ProviderInv
    <2>4. QED
      BY <2>1, <2>2, <2>3 DEF ProviderInv, CacheInv
  <1>2. ASSUME NEW t \in Threads, Step(t) PROVE ProviderInv'
    BY <1>2, ReadStep, FetchStep, GroupStep, ReadHashesStep, CheckStep, VerifyStep, AddVerifiedStep,
       NextGroupStep, ServeStep, ReturnStep DEF Step
  <1>3. QED
    BY <1>1, <1>2 DEF Next

-----------------------------------------------------------------------------
\* The inductive invariant holds throughout.
THEOREM ProviderInvariant == Spec => []ProviderInv
  BY InitProviderInv, NextProviderInv, PTL DEF Spec

\* Type correctness: the loop of read() stays inside of what was asked for,
\* and the verify cache keeps each of its nodes.
THEOREM ProviderTypeCorrect == Spec => []TypeOK
  <1>1. ProviderInv => TypeOK
    BY DEF ProviderInv
  <1>2. QED
    BY <1>1, ProviderInvariant, PTL

\* The verify cache never stands for a corrupt block.
THEOREM RememberedAlwaysGenuine == Spec => []RememberedIsGenuine
  <1>1. ProviderInv => RememberedIsGenuine
    BY DEF ProviderInv
  <1>2. QED
    BY <1>1, ProviderInvariant, PTL

\* What goes unchecked are the blocks behind a genuine head of a group.
THEOREM OnlyGroupsAreEverSkipped == Spec => []OnlyGroupsAreSkipped
  <1>1. ASSUME ProviderInv PROVE OnlyGroupsAreSkipped
    <2>1. SUFFICES ASSUME NEW t \in Threads, result[t] = "served"
                   PROVE  \A b \in first[t] .. first[t] + count[t] - 1 : Excused(t, b)
      BY DEF OnlyGroupsAreSkipped
    <2>2. pc[t] = "done" /\ current[t] = count[t] /\ Passed(t)
      BY <1>1, <2>1 DEF ProviderInv, ReaderInv, Whereabouts
    <2>3. first[t] .. GroupHead(t) - 1 = first[t] .. first[t] + count[t] - 1
      <3>1. first[t] \in Nat /\ count[t] \in Nat
        BY <1>1, <2>2, Numbers
      <3>2. QED
        BY <2>2, <3>1 DEF GroupHead
    <2>4. QED
      BY <2>2, <2>3 DEF Passed
  <1>2. QED
    BY <1>1, ProviderInvariant, PTL

-----------------------------------------------------------------------------
\* A read that ends served has a genuine first block: it heads a group.
LEMMA FirstIsGenuine ==
  ASSUME ProviderInv, NEW t \in Threads, Serve(t)
  PROVE  first[t] \in Genuine
  <1>1. pc[t] = "group" /\ current[t] >= count[t]
    BY DEF Serve
  <1>2. /\ first[t] \in Nat /\ count[t] \in Nat \ {0} /\ current[t] \in 0 .. count[t]
        /\ Length(t) \in Nat
    BY <1>1, Numbers, IntegrityAssumption
  <1>3. first[t] \in first[t] .. GroupHead(t) - 1
    BY <1>1, <1>2 DEF GroupHead
  <1>4. Excused(t, first[t])
    BY <1>1, <1>3 DEF ProviderInv, ReaderInv, Passed
  <1>5. \A n \in 0 .. count[t] : ~ (first[t] + n * Length(t) < first[t])
    <2>1. \A n \in 0 .. count[t] : n * Length(t) \in Nat
      BY <1>2
    <2>2. QED
      BY <1>2, <2>1
  <1>6. QED
    BY <1>4, <1>5 DEF Excused, Heads, Length

LEMMA LayerStep ==
  ASSUME ProviderInv, [Next]_vars
  PROVE  [Layer!Next]_(Layer!readVars)
  <1>1. CASE UNCHANGED vars
    BY <1>1 DEF vars, Layer!readVars, Genuine
  <1>2. ASSUME NEW t \in Threads, Step(t) PROVE [Layer!Next]_(Layer!readVars)
    <2>1. UNCHANGED Genuine
      BY <1>2 DEF Step, Read, Fetch, Group, ReadHashes, Check, Verify, AddVerified, NextGroup, Serve,
                  Return, Genuine
    <2>2. ASSUME NEW r \in {"served", "refused"}, Finish(t, r), UNCHANGED first,
                 pc[t] \notin {"idle", "done"}, r = "served" => first[t] \in Genuine
          PROVE  Layer!Next
      <3>1. Layer!Answer(t, r)
        BY <2>1, <2>2 DEF Layer!Answer, Finish, ProviderInv, ReaderInv, Whereabouts
      <3>2. QED
        BY <3>1 DEF Layer!Next
    <2>3. CASE \E b \in Blocks, n \in 1 .. MaxCount : Read(t, b, n)
      <3>1. PICK b \in Blocks, n \in 1 .. MaxCount : Read(t, b, n)
        BY <2>3
      <3>2. Layer!Ask(t, b)
        BY <2>1, <3>1 DEF Read, Layer!Ask, ProviderInv, ReaderInv, Whereabouts
      <3>3. QED
        BY <3>2 DEF Layer!Next
    <2>4. CASE Fetch(t)
      BY <2>1, <2>2, <2>4 DEF Fetch, Layer!readVars
    <2>5. CASE Group(t) \/ Check(t) \/ AddVerified(t) \/ NextGroup(t)
      BY <2>1, <2>5 DEF Group, Check, AddVerified, NextGroup, Layer!readVars
    <2>6. CASE ReadHashes(t)
      BY <2>1, <2>2, <2>6 DEF ReadHashes, Layer!readVars
    <2>7. CASE Verify(t)
      BY <2>1, <2>2, <2>7 DEF Verify, Layer!readVars
    <2>8. CASE Serve(t)
      BY <2>2, <2>8, FirstIsGenuine DEF Serve
    <2>9. CASE Return(t)
      <3>1. Layer!Return(t)
        BY <2>1, <2>9 DEF Return, Layer!Return, ProviderInv, ReaderInv, Whereabouts
      <3>2. QED
        BY <3>1 DEF Layer!Next
    <2>10. QED
      BY <1>2, <2>3, <2>4, <2>5, <2>6, <2>7, <2>8, <2>9 DEF Step
  <1>3. QED
    BY <1>1, <1>2 DEF Next

\* IntegrityVerificationProvider::read implements a hash layer: the first block
\* of what it serves is genuine.
THEOREM IntegrityServesOnlyGenuine == Spec => ServesOnlyGenuine
  <1>1. Init => Layer!Init
    BY DEF Init, Layer!Init, Genuine
  <1>2. ProviderInv /\ [Next]_vars => [Layer!Next]_(Layer!readVars)
    BY LayerStep
  <1>3. QED
    BY <1>1, <1>2, ProviderInvariant, PTL DEF Spec, ServesOnlyGenuine, Layer!Spec
=============================================================================
