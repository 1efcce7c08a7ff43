---------------------------- MODULE Sha256Provider ----------------------------
(***************************************************************************)
(* Sha256Provider::read under concurrent readers.  A block is fetched and, *)
(* unless its hash is all zeros, checked against it; a hash that has been  *)
(* checked is then zeroed in place, which spares later readers the check.  *)
(* mHashRegion has no lock: another reader may look at a hash before,      *)
(* while or after it is zeroed, and what it sees of a hash that is being   *)
(* zeroed is any mix of old and zero bytes.                                *)
(*                                                                         *)
(* One call reads one block: CacheProvider, the only caller (see           *)
(* createSha256Provider), asks for mBlockSize bytes at a time.             *)
(***************************************************************************)
CONSTANTS
  Threads,
  Blocks,
  NoBlock

ASSUME BlocksAssumption == NoBlock \notin Blocks

VARIABLES
  content,      \* content[b]: "good" if block b has the content its hash stands for
  mHashRegion,  \* mHashRegion[b]: "whole", "torn" (half zeroed) or "null"
  hashed,       \* history: the blocks whose hash the image did not leave null
  pc,           \* where thread t is in read()
  reading,      \* the block it reads
  result,       \* "none", "served" (size is returned) or "refused" (0 is)
  readError     \* the inner provider came back short

hashVars == <<content, mHashRegion, hashed, pc, reading, result, readError>>

Phases == {"idle", "fetch", "isnull", "verify", "zero", "zeroing", "done"}

\* The constructor has read the hash region and checked it as a whole against
\* the master hash; the data may still be anything.
HashInit ==
  /\ content \in [Blocks -> {"good", "corrupt"}]
  /\ hashed \in SUBSET Blocks
  /\ mHashRegion = [b \in Blocks |-> IF b \in hashed THEN "whole" ELSE "null"]
  /\ pc = [t \in Threads |-> "idle"]
  /\ reading = [t \in Threads |-> NoBlock]
  /\ result = [t \in Threads |-> "none"]
  /\ readError = [t \in Threads |-> FALSE]

Goto(t, phase) == pc' = [pc EXCEPT ![t] = phase]

Finish(t, r) ==
  /\ result' = [result EXCEPT ![t] = r]
  /\ Goto(t, "done")

Read(t, b) ==
  /\ pc[t] = "idle"
  /\ reading' = [reading EXCEPT ![t] = b]
  /\ Goto(t, "fetch")
  /\ UNCHANGED <<content, mHashRegion, hashed, result, readError>>

\* A mutant: what the inner provider returns is not looked at.
FetchUnchecked(t) ==
  /\ pc[t] = "fetch"
  /\ Goto(t, "isnull")
  /\ \E short \in BOOLEAN : readError' = [readError EXCEPT ![t] = short]
  /\ UNCHANGED <<content, mHashRegion, hashed, reading, result>>

\* mProvider->read: the whole block, or an early `return 0`.
Fetch(t) ==
  /\ pc[t] = "fetch"
  /\ \/ Goto(t, "isnull") /\ UNCHANGED <<result, readError>>
     \/ Finish(t, "refused") /\ readError' = [readError EXCEPT ![t] = TRUE]
  /\ UNCHANGED <<content, mHashRegion, hashed, reading>>

\* IsHashNull: a torn hash reads as null or as not null.
IsNull(t) ==
  /\ pc[t] = "isnull"
  /\ \/ mHashRegion[reading[t]] # "whole" /\ Finish(t, "served")
     \/ mHashRegion[reading[t]] # "null" /\ Goto(t, "verify") /\ UNCHANGED result
  /\ UNCHANGED <<content, mHashRegion, hashed, reading, readError>>

\* A mutant: the hash is zeroed for a block that failed the check, too.
VerifyZeroesAlways(t) ==
  /\ pc[t] = "verify"
  /\ Goto(t, "zero")
  /\ UNCHANGED <<content, mHashRegion, hashed, reading, result, readError>>

\* Sha256Verify: the digest of the block against the hash as it is now.  A
\* torn hash may compare equal if its old bytes were compared in time; a null
\* one never does.
Verify(t) ==
  /\ pc[t] = "verify"
  /\ \/ /\ content[reading[t]] = "good" /\ mHashRegion[reading[t]] # "null"
        /\ Goto(t, "zero") /\ UNCHANGED result
     \/ /\ ~ (content[reading[t]] = "good" /\ mHashRegion[reading[t]] = "whole")
        /\ Finish(t, "refused")
  /\ UNCHANGED <<content, mHashRegion, hashed, reading, readError>>

\* memset begins: the hash is torn, unless another reader has zeroed it all.
ZeroBegin(t) ==
  /\ pc[t] = "zero"
  /\ mHashRegion' = [mHashRegion EXCEPT ![reading[t]] = IF @ = "null" THEN "null" ELSE "torn"]
  /\ Goto(t, "zeroing")
  /\ UNCHANGED <<content, hashed, reading, result, readError>>

\* A mutant: the neighbour's hash is zeroed along, as with a wrong length.
ZeroAll(t) ==
  /\ pc[t] = "zeroing"
  /\ mHashRegion' = [b \in Blocks |-> "null"]
  /\ Finish(t, "served")
  /\ UNCHANGED <<content, hashed, reading, readError>>

ZeroEnd(t) ==
  /\ pc[t] = "zeroing"
  /\ mHashRegion' = [mHashRegion EXCEPT ![reading[t]] = "null"]
  /\ Finish(t, "served")
  /\ UNCHANGED <<content, hashed, reading, readError>>

Return(t) ==
  /\ pc[t] = "done"
  /\ Goto(t, "idle")
  /\ reading' = [reading EXCEPT ![t] = NoBlock]
  /\ result' = [result EXCEPT ![t] = "none"]
  /\ readError' = [readError EXCEPT ![t] = FALSE]
  /\ UNCHANGED <<content, mHashRegion, hashed>>

Step(t) ==
  \/ \E b \in Blocks : Read(t, b)
  \/ Fetch(t) \/ IsNull(t) \/ Verify(t) \/ ZeroBegin(t) \/ ZeroEnd(t) \/ Return(t)

HashNext == \E t \in Threads : Step(t)

HashSpec == HashInit /\ [][HashNext]_hashVars

-----------------------------------------------------------------------------
\* The types, and that a block whose fetch came back short is refused.
HashTypeOK ==
  /\ content \in [Blocks -> {"good", "corrupt"}]
  /\ hashed \in SUBSET Blocks
  /\ mHashRegion \in [Blocks -> {"whole", "torn", "null"}]
  /\ pc \in [Threads -> Phases]
  /\ reading \in [Threads -> Blocks \cup {NoBlock}]
  /\ result \in [Threads -> {"none", "served", "refused"}]
  /\ readError \in [Threads -> BOOLEAN]
  /\ \A t \in Threads : readError[t] => result[t] = "refused"

GenuineBlocks == {b \in Blocks : content[b] = "good" \/ b \notin hashed}

\* A hash that the image has is given up only for a block that is good: no
\* interleaving of readers switches off the check of a corrupt block.
CorruptStaysChecked ==
  \A b \in hashed : content[b] = "corrupt" => mHashRegion[b] = "whole"

\* However the readers race with the zeroing, a block is served only if it
\* matches its hash or has none.
Layer == INSTANCE VerifiedRead WITH genuine <- GenuineBlocks, wanted <- reading

ServesOnlyGenuine == Layer!Spec

\* "Hierarchical SHA256 validation failed!" is the answer to a block that does
\* not match its hash: a good block that could be read is not refused.
GoodNeverRefused ==
  \A t \in Threads :
    result[t] = "refused" /\ ~ readError[t] => content[reading[t]] = "corrupt"
=============================================================================
