---------------------------- MODULE DecryptorPool ----------------------------
(***************************************************************************)
(* crypto::DecryptorPool and its two users, AesCtrProvider::decrypt and    *)
(* AesCtrExProvider::decrypt.                                              *)
(*                                                                         *)
(* FUSE calls read() from several threads.  Each decrypt() scans a small   *)
(* array of atomic pointers for a free cipher context, takes it with a     *)
(* compare-and-swap, points it at its own keystream, deciphers and stores  *)
(* the pointer back.  A thread that ends the scan without a context builds *)
(* one of its own (crypto::AesCtrDecrypt).  One action is one access to    *)
(* shared memory: a load, a compare-and-swap, a store, or one call into    *)
(* the context, whose position is the state two threads could mix up.      *)
(***************************************************************************)
EXTENDS Integers

CONSTANTS
  Threads,      \* threads of the FUSE loop that may be inside decrypt()
  PoolSize,     \* number of contexts (4 in the source)
  Requests,     \* the keystream stretches asked for: [iv |-> ..., pos |-> ...]
  NULL,         \* the null pointer
  Failed        \* decrypt() returned false

Slots == 0 .. PoolSize - 1

ASSUME PoolAssumption ==
  /\ PoolSize \in Nat \ {0}
  /\ \A r \in Requests : r = [iv |-> r.iv, pos |-> r.pos] /\ r.pos \in Nat
  /\ NULL \notin Slots
  /\ NULL \notin Requests /\ Failed \notin Requests /\ NULL # Failed

VARIABLES
  mFree,        \* mFree[i]: the i-th atomic pointer, to context i or null
  position,     \* position[i]: counter block and offset context i stands at
  pc,           \* where each thread is in decrypt()
  req,          \* the stretch thread t was asked to decipher with
  scan,         \* the index tryAcquire's loop has reached
  decryptor,    \* the local `decryptor` of tryAcquire
  ptr,          \* ScopedDecryptor::ptr
  used          \* the stretch t's data was deciphered with

vars == <<mFree, position, pc, req, scan, decryptor, ptr, used>>

Ivs == {r.iv : r \in Requests}
Stretches == [iv : Ivs, pos : Nat]

Phases == {"idle", "load", "cas", "resync", "seek", "process", "release", "oneshot"}
Holding == {"resync", "seek", "process", "release"}

\* After initialize(): every context has the same key and the same counter.
Init ==
  /\ mFree = [i \in Slots |-> i]
  /\ position \in {[i \in Slots |-> [iv |-> v, pos |-> 0]] : v \in Ivs}
  /\ pc = [t \in Threads |-> "idle"]
  /\ req = [t \in Threads |-> NULL]
  /\ scan = [t \in Threads |-> 0]
  /\ decryptor = [t \in Threads |-> NULL]
  /\ ptr = [t \in Threads |-> NULL]
  /\ used = [t \in Threads |-> NULL]

Goto(t, phase) == pc' = [pc EXCEPT ![t] = phase]

\* decrypt() is entered; mDecryptorPool.acquire() starts its scan.
Enter(t, r) ==
  /\ pc[t] = "idle"
  /\ Goto(t, "load")
  /\ req' = [req EXCEPT ![t] = r]
  /\ UNCHANGED <<mFree, position, scan, decryptor, ptr, used>>

\* A mutant: `<=` in the loop that scans the pointers.
LoadPastEnd(t) ==
  /\ pc[t] = "load"
  /\ mFree[scan[t]] = NULL
  /\ scan' = [scan EXCEPT ![t] = @ + 1]
  /\ Goto(t, IF scan[t] + 1 > PoolSize THEN "oneshot" ELSE "load")
  /\ UNCHANGED <<mFree, position, req, decryptor, ptr, used>>

\* `if (T* decryptor = free; decryptor != nullptr)` sees null: on to the next
\* pointer, or out of the loop with nullptr after the last one.
LoadNull(t) ==
  /\ pc[t] = "load"
  /\ mFree[scan[t]] = NULL
  /\ scan' = [scan EXCEPT ![t] = @ + 1]
  /\ Goto(t, IF scan[t] + 1 = PoolSize THEN "oneshot" ELSE "load")
  /\ UNCHANGED <<mFree, position, req, decryptor, ptr, used>>

LoadFree(t) ==
  /\ pc[t] = "load"
  /\ mFree[scan[t]] # NULL
  /\ decryptor' = [decryptor EXCEPT ![t] = mFree[scan[t]]]
  /\ Goto(t, "cas")
  /\ UNCHANGED <<mFree, position, req, scan, ptr, used>>

\* tryAcquire returns what it holds in `decryptor`.
Take(t) ==
  /\ mFree' = [mFree EXCEPT ![scan[t]] = NULL]
  /\ ptr' = [ptr EXCEPT ![t] = decryptor[t]]
  /\ Goto(t, IF decryptor[t] = NULL THEN "oneshot" ELSE "resync")
  /\ UNCHANGED <<position, req, scan, decryptor, used>>

\* compare_exchange_strong succeeds and tryAcquire returns.  After a failure
\* `decryptor` may be null by now: null is exchanged for null and returned.
CasSucceeds(t) ==
  /\ pc[t] = "cas"
  /\ mFree[scan[t]] = decryptor[t]
  /\ Take(t)

\* compare_exchange_strong fails, writes what it saw to `decryptor`, and the
\* while loop tries again on the same pointer.
CasFails(t) ==
  /\ pc[t] = "cas"
  /\ mFree[scan[t]] # decryptor[t]
  /\ decryptor' = [decryptor EXCEPT ![t] = mFree[scan[t]]]
  /\ UNCHANGED <<mFree, position, pc, req, scan, ptr, used>>

\* A mutant: the context goes on from where its last user left it.
ResyncSkipped(t) ==
  /\ pc[t] = "resync"
  /\ Goto(t, "process")
  /\ UNCHANGED <<mFree, position, req, scan, decryptor, ptr, used>>

\* setIV: Resynchronize, then Seek when the offset is not zero.
Resync(t) ==
  /\ pc[t] = "resync"
  /\ position' = [position EXCEPT ![ptr[t]] = [iv |-> req[t].iv, pos |-> 0]]
  /\ Goto(t, IF req[t].pos > 0 THEN "seek" ELSE "process")
  /\ UNCHANGED <<mFree, req, scan, decryptor, ptr, used>>

Seek(t) ==
  /\ pc[t] = "seek"
  /\ position' = [position EXCEPT ![ptr[t]] = [iv |-> @.iv, pos |-> req[t].pos]]
  /\ Goto(t, "process")
  /\ UNCHANGED <<mFree, req, scan, decryptor, ptr, used>>

\* A mutant: an exception is answered with another try on the same context.
ProcessRetries(t) ==
  /\ pc[t] = "process"
  /\ position' = [position EXCEPT ![ptr[t]] = [iv |-> req[t].iv, pos |-> 0]]
  /\ \/ used' = [used EXCEPT ![t] = position[ptr[t]]] /\ Goto(t, "release")
     \/ used' = used /\ Goto(t, "resync")
  /\ UNCHANGED <<mFree, req, scan, decryptor, ptr>>

\* ProcessData deciphers with the keystream the context stands at and moves
\* on, or throws: decrypt() catches the exception and returns false.
Process(t) ==
  /\ pc[t] = "process"
  /\ \E outcome \in {position[ptr[t]], Failed} : used' = [used EXCEPT ![t] = outcome]
  /\ position' = [position EXCEPT ![ptr[t]] = [iv |-> @.iv, pos |-> @.pos + 1]]
  /\ Goto(t, "release")
  /\ UNCHANGED <<mFree, req, scan, decryptor, ptr>>

\* No context: crypto::AesCtrDecrypt makes one, seeks, deciphers and drops it.
OneShot(t) ==
  /\ pc[t] = "oneshot"
  /\ \E outcome \in {req[t], Failed} : used' = [used EXCEPT ![t] = outcome]
  /\ Goto(t, "release")
  /\ UNCHANGED <<mFree, position, req, scan, decryptor, ptr>>

\* decrypt() returns: its locals are gone.
Return(t) ==
  /\ Goto(t, "idle")
  /\ req' = [req EXCEPT ![t] = NULL]
  /\ scan' = [scan EXCEPT ![t] = 0]
  /\ decryptor' = [decryptor EXCEPT ![t] = NULL]
  /\ ptr' = [ptr EXCEPT ![t] = NULL]
  /\ used' = [used EXCEPT ![t] = NULL]
  /\ UNCHANGED position

\* A mutant: the destructor frees only what deciphered without an error.
ReleaseOnSuccess(t) ==
  /\ pc[t] = "release"
  /\ mFree' = IF ptr[t] = NULL \/ used[t] = Failed THEN mFree ELSE [mFree EXCEPT ![ptr[t]] = ptr[t]]
  /\ Return(t)

\* ~ScopedDecryptor: free() stores the pointer back into its own place, and
\* does nothing for the null pointer of a thread that made its own context.
Release(t) ==
  /\ pc[t] = "release"
  /\ mFree' = IF ptr[t] = NULL THEN mFree ELSE [mFree EXCEPT ![ptr[t]] = ptr[t]]
  /\ Return(t)

\* What thread t does once it is inside decrypt().
Step(t) ==
  \/ LoadNull(t) \/ LoadFree(t)
  \/ CasSucceeds(t) \/ CasFails(t)
  \/ Resync(t) \/ Seek(t) \/ Process(t) \/ Release(t)
  \/ OneShot(t)

Next == \E t \in Threads : Step(t) \/ \E r \in Requests : Enter(t, r)

\* The operating system lets every runnable thread run; nothing makes the
\* kernel send another request.
Fairness == \A t \in Threads : WF_vars(Step(t))

Spec == Init /\ [][Next]_vars /\ Fairness

-----------------------------------------------------------------------------
\* The types, with the bound of the scan: tryAcquire never looks at a pointer
\* behind the end of the array.
TypeOK ==
  /\ mFree \in [Slots -> Slots \cup {NULL}]
  /\ position \in [Slots -> Stretches]
  /\ pc \in [Threads -> Phases]
  /\ req \in [Threads -> Requests \cup {NULL}]
  /\ scan \in [Threads -> 0 .. PoolSize]
  /\ \A t \in Threads : pc[t] \in {"load", "cas"} => scan[t] \in Slots
  /\ decryptor \in [Threads -> Slots \cup {NULL}]
  /\ ptr \in [Threads -> Slots \cup {NULL}]
  /\ used \in [Threads -> Stretches \cup {NULL, Failed}]

\* Two threads never hold the same cipher context, and a context is in the
\* pool exactly when no thread holds it: none is shared and none is lost,
\* on the failing path of decrypt() as on the other.
ContextsConserved ==
  /\ \A t, u \in Threads : ptr[t] = ptr[u] /\ ptr[t] # NULL => t = u
  /\ \A i \in Slots : mFree[i] = NULL <=> \E t \in Threads : ptr[t] = i

\* A thread goes past the pool only at a moment when another thread has a
\* context in its hands: a reader that is alone never pays for a new one.
BypassOnlyUnderContention ==
  [][\A t \in Threads :
       pc[t] # "oneshot" /\ pc'[t] = "oneshot" =>
         \E u \in Threads \ {t} : ptr[u] # NULL]_vars

\* The pool never brings all readers to a halt: while some thread is inside
\* decrypt() some thread comes to the end of it, although one thread alone
\* may lose its compare-and-swap again and again.
SomeReadCompletes ==
  (\E t \in Threads : pc[t] # "idle") ~> (\E t \in Threads : pc[t] = "release")

-----------------------------------------------------------------------------
\* A request is pending from Enter to the step that deciphers its data.
Service == INSTANCE KeystreamService WITH
  pending <- [t \in Threads |-> IF pc[t] \in {"idle", "release"} THEN NULL ELSE req[t]],
  answer <- used

\* Every thread's data is deciphered with the keystream it asked for, however
\* the threads interleave: decrypt() over the pool implements the service.
ServesOwnKeystream == Service!Spec
=============================================================================
