----------------------------- MODULE VerifiedRead -----------------------------
(***************************************************************************)
(* What a hash layer promises: a block that is asked for is served or      *)
(* refused, and it is served only if the image vouches for it, or if the   *)
(* image has no hash for it.  Sha256Provider and IntegrityProvider         *)
(* implement this.                                                         *)
(***************************************************************************)
CONSTANTS
  Threads,
  Blocks,
  NoBlock       \* the thread asks for nothing

VARIABLES
  genuine,      \* the blocks whose content matches their hash, or have none
  wanted,       \* the block each thread asks for
  result        \* "none", "served" or "refused"

readVars == <<genuine, wanted, result>>

Init ==
  /\ genuine \in SUBSET Blocks
  /\ wanted = [t \in Threads |-> NoBlock]
  /\ result = [t \in Threads |-> "none"]

Ask(t, b) ==
  /\ wanted[t] = NoBlock
  /\ wanted' = [wanted EXCEPT ![t] = b]
  /\ UNCHANGED <<genuine, result>>

Answer(t, r) ==
  /\ wanted[t] # NoBlock /\ result[t] = "none"
  /\ r = "served" => wanted[t] \in genuine
  /\ result' = [result EXCEPT ![t] = r]
  /\ UNCHANGED <<genuine, wanted>>

Return(t) ==
  /\ result[t] # "none"
  /\ wanted' = [wanted EXCEPT ![t] = NoBlock]
  /\ result' = [result EXCEPT ![t] = "none"]
  /\ UNCHANGED genuine

Next ==
  \E t \in Threads :
    \/ \E b \in Blocks : Ask(t, b)
    \/ \E r \in {"served", "refused"} : Answer(t, r)
    \/ Return(t)

Spec == Init /\ [][Next]_readVars
=============================================================================
