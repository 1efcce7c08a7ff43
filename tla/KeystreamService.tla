--------------------------- MODULE KeystreamService ---------------------------
(***************************************************************************)
(* What AES-CTR decryption promises to the threads that read a mounted     *)
(* image at the same time: a thread asks for a stretch of keystream (an    *)
(* initial counter and an offset into its stream) and is answered with     *)
(* exactly that stretch, or with a failure, whatever the other threads do. *)
(* DecryptorPool implements this service with a small pool of cipher       *)
(* contexts that each carry a mutable position.                            *)
(***************************************************************************)
CONSTANTS
  Threads,      \* the threads that call decrypt
  Requests,     \* the stretches of keystream they may ask for
  NULL,         \* nothing is asked, or nothing is answered yet
  Failed        \* the answer of a decryption that threw

VARIABLES
  pending,      \* pending[t]: what t waits for, NULL when it waits for nothing
  answer        \* answer[t]: the keystream t's data was deciphered with

serviceVars == <<pending, answer>>

Init ==
  /\ pending = [t \in Threads |-> NULL]
  /\ answer = [t \in Threads |-> NULL]

Ask(t, r) ==
  /\ pending[t] = NULL /\ answer[t] = NULL
  /\ pending' = [pending EXCEPT ![t] = r]
  /\ UNCHANGED answer

Answer(t) ==
  /\ pending[t] # NULL
  /\ pending' = [pending EXCEPT ![t] = NULL]
  /\ \E a \in {pending[t], Failed} : answer' = [answer EXCEPT ![t] = a]

Return(t) ==
  /\ answer[t] # NULL
  /\ answer' = [answer EXCEPT ![t] = NULL]
  /\ UNCHANGED pending

Next ==
  \E t \in Threads :
    \/ \E r \in Requests : Ask(t, r)
    \/ Answer(t)
    \/ Return(t)

Spec == Init /\ [][Next]_serviceVars
=============================================================================
