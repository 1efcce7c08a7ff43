------------------------- MODULE DecryptorPoolProofs -------------------------
(***************************************************************************)
(* Proofs about DecryptorPool for any set of threads, any pool size and    *)
(* any requests.  PoolInv is the inductive invariant: each pointer can     *)
(* only be its own context or null; a thread's compare-and-swap aims at    *)
(* the pointer it loaded; a thread between Resync and Release holds a      *)
(* context that is out of the pool and held by nobody else; and the        *)
(* context stands where that thread put it.                                *)
(***************************************************************************)
EXTENDS DecryptorPool, TLAPS

ThreadInv(t) ==
  /\ pc[t] = "idle" => req[t] = NULL /\ scan[t] = 0
  /\ pc[t] # "idle" => req[t] \in Requests
  /\ pc[t] \in {"idle", "load"} => decryptor[t] = NULL
  /\ decryptor[t] # NULL => decryptor[t] = scan[t]
  /\ pc[t] \in {"idle", "load", "cas", "oneshot"} => ptr[t] = NULL
  /\ pc[t] \in {"resync", "seek", "process"} => ptr[t] # NULL
  /\ pc[t] = "seek" => position[ptr[t]].iv = req[t].iv
  /\ pc[t] = "process" => position[ptr[t]] = req[t]
  /\ pc[t] = "release" => used[t] \in {req[t], Failed}
  /\ pc[t] # "release" => used[t] = NULL

PointersInv == \A i \in Slots : mFree[i] \in {i, NULL}

PoolInv ==
  /\ TypeOK
  /\ PointersInv
  /\ ContextsConserved
  /\ \A t \in Threads : ThreadInv(t)

LEMMA RequestsAreStretches == Requests \subseteq Stretches
  <1>1. SUFFICES ASSUME NEW r \in Requests PROVE r \in Stretches
    OBVIOUS
  <1>2. r = [iv |-> r.iv, pos |-> r.pos] /\ r.pos \in Nat
    BY PoolAssumption
  <1>3. r.iv \in Ivs
    BY DEF Ivs
  <1>4. QED
    BY <1>2, <1>3 DEF Stretches

\* The invariant holds when the pool is initialized.
LEMMA InitPoolInv == Init => PoolInv
  <1>1. SUFFICES ASSUME Init PROVE PoolInv
    OBVIOUS
  <1>2. TypeOK
    <2>1. position \in [Slots -> Stretches]
      BY <1>1 DEF Init, Stretches
    <2>2. QED
      BY <1>1, <2>1, PoolAssumption DEF Init, TypeOK, Phases, Slots
  <1>3. PointersInv
    BY <1>1 DEF Init, PointersInv
  <1>4. ContextsConserved
    BY <1>1, PoolAssumption DEF Init, ContextsConserved
  <1>5. \A t \in Threads : ThreadInv(t)
    BY <1>1 DEF Init, ThreadInv
  <1>6. QED
    BY <1>2, <1>3, <1>4, <1>5 DEF PoolInv

\* Steps that touch neither the pool, nor a context, nor what is held keep
\* the pool's part of the invariant.
LEMMA PoolUntouched ==
  ASSUME PoolInv, UNCHANGED <<mFree, ptr>>
  PROVE  PointersInv' /\ ContextsConserved'
  BY DEF PoolInv, PointersInv, ContextsConserved

\* A step that only moves threads and their locals keeps every type but the
\* ones it writes; the actions below differ in what they write.
LEMMA EnterInv ==
  ASSUME PoolInv, NEW t \in Threads, NEW r \in Requests, Enter(t, r)
  PROVE  PoolInv'
  <1> USE DEF Enter, Goto
  <1>1. TypeOK'
    BY PoolAssumption DEF PoolInv, TypeOK, ThreadInv, Phases, Slots
  <1>2. PointersInv' /\ ContextsConserved'
    BY PoolUntouched
  <1>3. ASSUME NEW u \in Threads PROVE ThreadInv(u)'
    BY PoolAssumption DEF PoolInv, TypeOK, ThreadInv, Slots
  <1>4. QED
    BY <1>1, <1>2, <1>3 DEF PoolInv

LEMMA LoadNullInv ==
  ASSUME PoolInv, NEW t \in Threads, LoadNull(t)
  PROVE  PoolInv'
  <1> USE DEF LoadNull, Goto
  <1>0. scan[t] \in Slots
    BY DEF PoolInv, TypeOK, ThreadInv
  <1>1. TypeOK'
    BY <1>0, PoolAssumption DEF PoolInv, TypeOK, Phases, Slots
  <1>2. PointersInv' /\ ContextsConserved'
    BY PoolUntouched
  <1>3. ASSUME NEW u \in Threads PROVE ThreadInv(u)'
    BY <1>0, PoolAssumption DEF PoolInv, TypeOK, ThreadInv, Slots
  <1>4. QED
    BY <1>1, <1>2, <1>3 DEF PoolInv

LEMMA LoadFreeInv ==
  ASSUME PoolInv, NEW t \in Threads, LoadFree(t)
  PROVE  PoolInv'
  <1> USE DEF LoadFree, Goto
  <1>0. scan[t] \in Slots /\ mFree[scan[t]] = scan[t]
    BY DEF PoolInv, TypeOK, ThreadInv, PointersInv
  <1>1. TypeOK'
    BY <1>0 DEF PoolInv, TypeOK, Phases
  <1>2. PointersInv' /\ ContextsConserved'
    BY PoolUntouched
  <1>3. ASSUME NEW u \in Threads PROVE ThreadInv(u)'
    BY <1>0 DEF PoolInv, TypeOK, ThreadInv
  <1>4. QED
    BY <1>1, <1>2, <1>3 DEF PoolInv

LEMMA CasSucceedsInv ==
  ASSUME PoolInv, NEW t \in Threads, CasSucceeds(t)
  PROVE  PoolInv'
  <1> USE DEF CasSucceeds, Take, Goto
  <1>0. /\ scan[t] \in Slots /\ ptr[t] = NULL
        /\ decryptor[t] \in {scan[t], NULL}
        /\ mFree[scan[t]] = decryptor[t]
    BY DEF PoolInv, TypeOK, ThreadInv
  <1>1. TypeOK'
    BY <1>0 DEF PoolInv, TypeOK, Phases
  <1>2. PointersInv'
    BY <1>0 DEF PoolInv, TypeOK, PointersInv
  <1>3. ContextsConserved'
    <2>1. CASE decryptor[t] = NULL
      <3>1. mFree' = mFree /\ ptr' = ptr
        BY <1>0, <2>1 DEF PoolInv, TypeOK
      <3>2. QED
        BY <3>1, PoolUntouched
    <2>2. CASE decryptor[t] # NULL
      <3>1. \A u \in Threads : ptr[u] # scan[t]
        BY <1>0, <2>2 DEF PoolInv, ContextsConserved
      <3>2. /\ ptr' = [ptr EXCEPT ![t] = scan[t]]
            /\ mFree' = [mFree EXCEPT ![scan[t]] = NULL]
        BY <1>0, <2>2
      <3>3. QED
        BY <1>0, <3>1, <3>2, PoolAssumption DEF PoolInv, TypeOK, ContextsConserved
    <2>3. QED
      BY <2>1, <2>2
  <1>4. ASSUME NEW u \in Threads PROVE ThreadInv(u)'
    BY <1>0 DEF PoolInv, TypeOK, ThreadInv
  <1>5. QED
    BY <1>1, <1>2, <1>3, <1>4 DEF PoolInv

LEMMA CasFailsInv ==
  ASSUME PoolInv, NEW t \in Threads, CasFails(t)
  PROVE  PoolInv'
  <1> USE DEF CasFails
  <1>0. scan[t] \in Slots /\ mFree[scan[t]] \in {scan[t], NULL}
    BY DEF PoolInv, TypeOK, ThreadInv, PointersInv
  <1>1. TypeOK'
    BY <1>0 DEF PoolInv, TypeOK
  <1>2. PointersInv' /\ ContextsConserved'
    BY PoolUntouched
  <1>3. ASSUME NEW u \in Threads PROVE ThreadInv(u)'
    BY <1>0 DEF PoolInv, TypeOK, ThreadInv
  <1>4. QED
    BY <1>1, <1>2, <1>3 DEF PoolInv

\* A thread's steps inside its own context leave every other thread's context
\* alone, because no other thread holds the same one.
LEMMA OwnContext ==
  ASSUME PoolInv, NEW t \in Threads, pc[t] \in {"resync", "seek", "process"}
  PROVE  /\ ptr[t] \in Slots
         /\ req[t] \in Requests
         /\ \A u \in Threads \ {t} : ptr[u] # ptr[t]
  BY DEF PoolInv, TypeOK, ThreadInv, ContextsConserved

LEMMA ResyncInv ==
  ASSUME PoolInv, NEW t \in Threads, Resync(t)
  PROVE  PoolInv'
  <1> USE DEF Resync, Goto
  <1>0. /\ ptr[t] \in Slots /\ req[t] \in Requests
        /\ \A u \in Threads \ {t} : ptr[u] # ptr[t]
    BY OwnContext
  <1>1. req[t] = [iv |-> req[t].iv, pos |-> req[t].pos] /\ req[t].pos \in Nat /\ req[t].iv \in Ivs
    BY <1>0, PoolAssumption DEF Ivs
  <1>2. TypeOK'
    <2>1. [iv |-> req[t].iv, pos |-> 0] \in Stretches
      BY <1>1 DEF Stretches
    <2>2. QED
      BY <1>0, <2>1 DEF PoolInv, TypeOK, Phases
  <1>3. PointersInv' /\ ContextsConserved'
    BY PoolUntouched
  <1>4. ASSUME NEW u \in Threads PROVE ThreadInv(u)'
    <2>1. CASE u = t
      <3>1. position'[ptr[t]] = [iv |-> req[t].iv, pos |-> 0]
        BY <1>0 DEF PoolInv, TypeOK
      <3>2. req[t].pos = 0 => position'[ptr[t]] = req[t]
        BY <1>1, <3>1
      <3>3. pc'[t] = IF req[t].pos > 0 THEN "seek" ELSE "process"
        BY DEF PoolInv, TypeOK
      <3>4. pc'[t] = "process" => req[t].pos = 0
        BY <1>1, <3>3
      <3>5. pc'[t] \in {"seek", "process"}
        BY <3>3
      <3>6. position'[ptr[t]].iv = req[t].iv
        BY <3>1
      <3>7. QED
        BY <2>1, <1>0, <3>2, <3>4, <3>5, <3>6 DEF PoolInv, TypeOK, ThreadInv
    <2>2. CASE u # t
      <3>1. pc[u] \in {"seek", "process"} => ptr[u] \in Slots /\ position'[ptr[u]] = position[ptr[u]]
        BY <1>0, <2>2 DEF PoolInv, TypeOK, ThreadInv
      <3>2. pc'[u] = pc[u]
        BY <2>2 DEF PoolInv, TypeOK
      <3>3. QED
        BY <2>2, <3>1, <3>2 DEF PoolInv, ThreadInv
    <2>3. QED
      BY <2>1, <2>2
  <1>5. QED
    BY <1>2, <1>3, <1>4 DEF PoolInv

LEMMA SeekInv ==
  ASSUME PoolInv, NEW t \in Threads, Seek(t)
  PROVE  PoolInv'
  <1> USE DEF Seek, Goto
  <1>0. /\ ptr[t] \in Slots /\ req[t] \in Requests
        /\ \A u \in Threads \ {t} : ptr[u] # ptr[t]
    BY OwnContext
  <1>1. req[t] = [iv |-> req[t].iv, pos |-> req[t].pos] /\ req[t].pos \in Nat
    BY <1>0, PoolAssumption
  <1>2. position[ptr[t]] \in Stretches /\ position[ptr[t]].iv = req[t].iv
    BY <1>0 DEF PoolInv, TypeOK, ThreadInv
  <1>3. position' = [position EXCEPT ![ptr[t]] = req[t]]
    BY <1>0, <1>1, <1>2 DEF PoolInv, TypeOK
  <1>4. TypeOK'
    BY <1>0, <1>3, RequestsAreStretches DEF PoolInv, TypeOK, Phases
  <1>5. PointersInv' /\ ContextsConserved'
    BY PoolUntouched
  <1>6. ASSUME NEW u \in Threads PROVE ThreadInv(u)'
    <2>1. CASE u = t
      BY <2>1, <1>0, <1>3 DEF PoolInv, TypeOK, ThreadInv
    <2>2. CASE u # t
      <3>1. pc[u] \in {"seek", "process"} => ptr[u] \in Slots /\ position'[ptr[u]] = position[ptr[u]]
        BY <1>0, <1>3, <2>2 DEF PoolInv, TypeOK, ThreadInv
      <3>2. pc'[u] = pc[u]
        BY <2>2 DEF PoolInv, TypeOK
      <3>3. QED
        BY <2>2, <3>1, <3>2 DEF PoolInv, ThreadInv
    <2>3. QED
      BY <2>1, <2>2
  <1>7. QED
    BY <1>4, <1>5, <1>6 DEF PoolInv

LEMMA ProcessInv ==
  ASSUME PoolInv, NEW t \in Threads, Process(t)
  PROVE  PoolInv'
  <1> USE DEF Process, Goto
  <1>0. /\ ptr[t] \in Slots /\ req[t] \in Requests
        /\ \A u \in Threads \ {t} : ptr[u] # ptr[t]
    BY OwnContext
  <1>1. position[ptr[t]] = req[t] /\ position[ptr[t]] \in Stretches
    BY <1>0 DEF PoolInv, TypeOK, ThreadInv
  <1>2. PICK outcome \in {req[t], Failed} : used' = [used EXCEPT ![t] = outcome]
    BY <1>1
  <1>3. TypeOK'
    <2>1. [iv |-> position[ptr[t]].iv, pos |-> position[ptr[t]].pos + 1] \in Stretches
      BY <1>1 DEF Stretches
    <2>2. position' \in [Slots -> Stretches]
      BY <1>0, <2>1 DEF PoolInv, TypeOK
    <2>3. outcome \in Stretches \cup {NULL, Failed}
      BY <1>0, <1>2, RequestsAreStretches
    <2>4. used' \in [Threads -> Stretches \cup {NULL, Failed}]
      BY <1>2, <2>3 DEF PoolInv, TypeOK
    <2>5. QED
      BY <2>2, <2>4 DEF PoolInv, TypeOK, Phases
  <1>4. PointersInv' /\ ContextsConserved'
    BY PoolUntouched
  <1>5. ASSUME NEW u \in Threads PROVE ThreadInv(u)'
    <2>1. CASE u = t
      <3>1. used'[t] = outcome
        BY <1>2 DEF PoolInv, TypeOK
      <3>2. QED
        BY <2>1, <1>0, <1>2, <3>1 DEF PoolInv, TypeOK, ThreadInv
    <2>2. CASE u # t
      <3>1. pc[u] \in {"seek", "process"} => ptr[u] \in Slots /\ position'[ptr[u]] = position[ptr[u]]
        BY <1>0, <2>2 DEF PoolInv, TypeOK, ThreadInv
      <3>2. pc'[u] = pc[u] /\ used'[u] = used[u]
        BY <1>2, <2>2 DEF PoolInv, TypeOK
      <3>3. QED
        BY <2>2, <3>1, <3>2 DEF PoolInv, ThreadInv
    <2>3. QED
      BY <2>1, <2>2
  <1>6. QED
    BY <1>3, <1>4, <1>5 DEF PoolInv

LEMMA OneShotInv ==
  ASSUME PoolInv, NEW t \in Threads, OneShot(t)
  PROVE  PoolInv'
  <1> USE DEF OneShot, Goto
  <1>0. req[t] \in Requests
    BY DEF PoolInv, TypeOK, ThreadInv
  <1>1. PICK outcome \in {req[t], Failed} : used' = [used EXCEPT ![t] = outcome]
    OBVIOUS
  <1>2. TypeOK'
    BY <1>0, <1>1, RequestsAreStretches DEF PoolInv, TypeOK, Phases
  <1>3. PointersInv' /\ ContextsConserved'
    BY PoolUntouched
  <1>4. ASSUME NEW u \in Threads PROVE ThreadInv(u)'
    BY <1>0, <1>1 DEF PoolInv, TypeOK, ThreadInv
  <1>5. QED
    BY <1>2, <1>3, <1>4 DEF PoolInv

LEMMA ReleaseInv ==
  ASSUME PoolInv, NEW t \in Threads, Release(t)
  PROVE  PoolInv'
  <1> USE DEF Release, Return, Goto
  <1>1. TypeOK'
    BY PoolAssumption DEF PoolInv, TypeOK, Phases, Slots
  <1>2. PointersInv'
    BY DEF PoolInv, TypeOK, PointersInv
  <1>3. ContextsConserved'
    <2>1. CASE ptr[t] = NULL
      <3>1. mFree' = mFree /\ ptr' = ptr
        BY <2>1 DEF PoolInv, TypeOK
      <3>2. QED
        BY <3>1, PoolUntouched
    <2>2. CASE ptr[t] # NULL
      <3>1. ptr[t] \in Slots /\ \A u \in Threads \ {t} : ptr[u] # ptr[t]
        BY <2>2 DEF PoolInv, TypeOK, ContextsConserved
      <3>2. /\ mFree' = [mFree EXCEPT ![ptr[t]] = ptr[t]]
            /\ ptr' = [ptr EXCEPT ![t] = NULL]
        BY <2>2
      <3>3. QED
        BY <3>1, <3>2, PoolAssumption DEF PoolInv, TypeOK, ContextsConserved
    <2>3. QED
      BY <2>1, <2>2
  <1>4. ASSUME NEW u \in Threads PROVE ThreadInv(u)'
    BY DEF PoolInv, TypeOK, ThreadInv
  <1>5. QED
    BY <1>1, <1>2, <1>3, <1>4 DEF PoolInv

LEMMA NextPoolInv == PoolInv /\ [Next]_vars => PoolInv'
  <1> SUFFICES ASSUME PoolInv, [Next]_vars PROVE PoolInv'
    OBVIOUS
  <1>1. CASE UNCHANGED vars
    BY <1>1 DEF vars, PoolInv, TypeOK, PointersInv, ContextsConserved, ThreadInv
  <1>2. ASSUME NEW t \in Threads, Step(t) PROVE PoolInv'
    BY <1>2, LoadNullInv, LoadFreeInv, CasSucceedsInv, CasFailsInv, ResyncInv,
       SeekInv, ProcessInv, OneShotInv, ReleaseInv DEF Step
  <1>3. ASSUME NEW t \in Threads, NEW r \in Requests, Enter(t, r) PROVE PoolInv'
    BY <1>3, EnterInv
  <1>4. QED
    BY <1>1, <1>2, <1>3 DEF Next

\* The inductive invariant holds throughout.
THEOREM PoolInvariant == Spec => []PoolInv
  BY InitPoolInv, NextPoolInv, PTL DEF Spec

\* Type correctness of the pool, its contexts and the threads' locals.
THEOREM PoolTypeCorrect == Spec => []TypeOK
  <1>1. PoolInv => TypeOK
    BY DEF PoolInv
  <1>2. QED
    BY <1>1, PoolInvariant, PTL

\* Whatever the number of threads and contexts, tryAcquire and free never let
\* two threads into one cipher context and never lose one.
THEOREM ContextsAlwaysConserved == Spec => []ContextsConserved
  <1>1. PoolInv => ContextsConserved
    BY DEF PoolInv
  <1>2. QED
    BY <1>1, PoolInvariant, PTL

-----------------------------------------------------------------------------
\* A null pointer in the pool is in another thread's hands, not the reader's.
LEMMA NullIsHeld ==
  ASSUME PoolInv, NEW t \in Threads, pc[t] \in {"load", "cas"}, mFree[scan[t]] = NULL
  PROVE  \E u \in Threads \ {t} : ptr[u] # NULL
  <1>1. scan[t] \in Slots /\ ptr[t] = NULL
    BY DEF PoolInv, TypeOK, ThreadInv
  <1>2. PICK u \in Threads : ptr[u] = scan[t]
    BY <1>1 DEF PoolInv, ContextsConserved
  <1>3. QED
    BY <1>1, <1>2, PoolAssumption

\* Only two steps lead past the pool, and each has just seen a null pointer.
LEMMA BypassStep ==
  ASSUME PoolInv, Next, NEW t \in Threads, pc[t] # "oneshot", pc'[t] = "oneshot"
  PROVE  \E u \in Threads \ {t} : ptr[u] # NULL
  <1>1. PICK v \in Threads : Step(v) \/ \E r \in Requests : Enter(v, r)
    BY DEF Next
  <1>2. LoadNull(t) \/ (CasSucceeds(t) /\ decryptor[t] = NULL)
    <2>1. pc \in [Threads -> Phases]
      BY DEF PoolInv, TypeOK
    <2>2. ASSUME NEW phase, Goto(v, phase) PROVE v = t /\ phase = "oneshot"
      BY <2>1, <2>2 DEF Goto
    <2>3. ~ \E r \in Requests : Enter(v, r)
      BY <2>2 DEF Enter
    <2>4. /\ ~ LoadFree(v) /\ ~ CasFails(v) /\ ~ Seek(v)
          /\ ~ Process(v) /\ ~ OneShot(v)
      BY <2>2 DEF LoadFree, CasFails, Seek, Process, OneShot
    <2>5. ~ Resync(v)
      BY <2>2 DEF Resync
    <2>6. ~ Release(v)
      BY <2>2 DEF Release, Return
    <2>7. CASE LoadNull(v)
      <3>1. v = t
        BY <2>2, <2>7 DEF LoadNull
      <3>2. QED
        BY <2>7, <3>1
    <2>8. CASE CasSucceeds(v)
      <3>1. v = t /\ (IF decryptor[v] = NULL THEN "oneshot" ELSE "resync") = "oneshot"
        BY <2>2, <2>8 DEF CasSucceeds, Take
      <3>2. QED
        BY <2>8, <3>1
    <2>9. QED
      BY <1>1, <2>3, <2>4, <2>5, <2>6, <2>7, <2>8 DEF Step
  <1>3. QED
    BY <1>2, NullIsHeld DEF LoadNull, CasSucceeds

\* A reader goes past the pool only while another one holds a context.
THEOREM BypassNeedsContention == Spec => BypassOnlyUnderContention
  <1>1. PoolInv /\ [Next]_vars =>
          [\A t \in Threads :
             pc[t] # "oneshot" /\ pc'[t] = "oneshot" =>
               \E u \in Threads \ {t} : ptr[u] # NULL]_vars
    BY BypassStep
  <1>2. QED
    BY <1>1, PoolInvariant, PTL DEF Spec, BypassOnlyUnderContention

-----------------------------------------------------------------------------
Waiting == [t \in Threads |-> IF pc[t] \in {"idle", "release"} THEN NULL ELSE req[t]]

\* A step inside the scan or inside the context is invisible to the service.
LEMMA HiddenStep ==
  ASSUME PoolInv, NEW t \in Threads, NEW phase,
         pc[t] \notin {"idle", "release"}, phase \notin {"idle", "release"},
         Goto(t, phase), UNCHANGED <<req, used>>
  PROVE  UNCHANGED Service!serviceVars
  BY DEF PoolInv, TypeOK, Goto, Service!serviceVars

\* Both ways of deciphering answer with the stretch asked for, or fail.
LEMMA AnswerStep ==
  ASSUME PoolInv, NEW t \in Threads, NEW outcome \in {req[t], Failed},
         pc[t] \notin {"idle", "release"}, Goto(t, "release"), UNCHANGED req,
         used' = [used EXCEPT ![t] = outcome]
  PROVE  Service!Next
  <1>1. req[t] # NULL
    BY PoolAssumption DEF PoolInv, ThreadInv
  <1>2. Waiting[t] = req[t] /\ Waiting' = [Waiting EXCEPT ![t] = NULL]
    BY DEF PoolInv, TypeOK, Goto, Waiting
  <1>3. Service!Answer(t)
    BY <1>1, <1>2 DEF Service!Answer, Waiting
  <1>4. QED
    BY <1>3 DEF Service!Next

\* Every step of the pool is a step of the service or none at all.
LEMMA ServiceStep ==
  ASSUME PoolInv, [Next]_vars
  PROVE  [Service!Next]_(Service!serviceVars)
  <1>1. CASE UNCHANGED vars
    BY <1>1 DEF vars, Service!serviceVars
  <1>2. ASSUME NEW t \in Threads, NEW r \in Requests, Enter(t, r)
        PROVE  Service!Next
    <2>1. Waiting[t] = NULL /\ used[t] = NULL
      BY <1>2 DEF Enter, PoolInv, ThreadInv, Waiting
    <2>2. Waiting' = [Waiting EXCEPT ![t] = r] /\ used' = used
      BY <1>2 DEF Enter, Goto, PoolInv, TypeOK, Waiting
    <2>3. Service!Ask(t, r)
      BY <2>1, <2>2 DEF Service!Ask, Waiting
    <2>4. QED
      BY <2>3 DEF Service!Next
  <1>3. ASSUME NEW t \in Threads, Step(t)
        PROVE  [Service!Next]_(Service!serviceVars)
    <2>1. CASE LoadNull(t)
      BY <2>1, HiddenStep DEF LoadNull
    <2>2. CASE LoadFree(t)
      BY <2>2, HiddenStep DEF LoadFree
    <2>3. CASE CasSucceeds(t)
      BY <2>3, HiddenStep DEF CasSucceeds, Take
    <2>4. CASE CasFails(t)
      BY <2>4 DEF CasFails, Service!serviceVars
    <2>5. CASE Resync(t)
      BY <2>5, HiddenStep DEF Resync
    <2>6. CASE Seek(t)
      BY <2>6, HiddenStep DEF Seek
    <2>7. CASE Process(t)
      <3>1. position[ptr[t]] = req[t]
        BY <2>7 DEF Process, PoolInv, ThreadInv
      <3>2. QED
        BY <2>7, <3>1, AnswerStep DEF Process
    <2>8. CASE OneShot(t)
      BY <2>8, AnswerStep DEF OneShot
    <2>9. CASE Release(t)
      <3>1. used[t] \in {req[t], Failed} /\ req[t] \in Requests
        BY <2>9 DEF Release, PoolInv, ThreadInv
      <3>2. used[t] # NULL /\ used' = [used EXCEPT ![t] = NULL]
        BY <2>9, <3>1, PoolAssumption DEF Release, Return
      <3>3. Waiting' = Waiting
        BY <2>9 DEF Release, Return, Goto, PoolInv, TypeOK, Waiting
      <3>4. Service!Return(t)
        BY <3>2, <3>3 DEF Service!Return, Waiting
      <3>5. QED
        BY <3>4 DEF Service!Next
    <2>10. QED
      BY <1>3, <2>1, <2>2, <2>3, <2>4, <2>5, <2>6, <2>7, <2>8, <2>9 DEF Step
  <1>4. QED
    BY <1>1, <1>2, <1>3 DEF Next

\* decrypt() over the pool implements the keystream service: every reader's
\* data is deciphered with the keystream of its own request.
THEOREM PoolServesOwnKeystream == Spec => ServesOwnKeystream
  <1>1. Init => Service!Init
    BY DEF Init, Service!Init
  <1>2. PoolInv /\ [Next]_vars => [Service!Next]_(Service!serviceVars)
    BY ServiceStep
  <1>3. QED
    BY <1>1, <1>2, PoolInvariant, PTL DEF Spec, ServesOwnKeystream, Service!Spec
=============================================================================
