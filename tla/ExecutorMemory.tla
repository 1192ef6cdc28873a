--------------------------- MODULE ExecutorMemory ---------------------------
(***************************************************************************)
(* Executors and the memory their objects live in: ExecutorLifecycle says  *)
(* which thread or executor has the index of which pool, HugeMemPool what  *)
(* the pool of that index does.  Phase one allocates from the pool its     *)
(* thread names; FreeHugeMem empties the pool it finds in the context of   *)
(* the thread that deleted the executor, block by block, and only then     *)
(* returns the index.                                                      *)
(***************************************************************************)
EXTENDS HugeMemPool, ExecutorLifecycle

ASSUME IndexAssumption == Pool = Index

VARIABLE objects    \* objects[h]: what phase one of h has allocated

vars == <<lifecycleVars, poolVars, objects>>

Init == LifecycleInit /\ PoolInit /\ objects = [h \in Handle |-> {}]

\* A step of the caller that leaves the memory alone.
MemoryUnchanged == UNCHANGED <<poolVars, objects>>

\* Phase one makes an object.
Allocate(t, size) ==
    /\ call[t] = "one" /\ tls[t] # Invalid
    /\ GetAddr(tls[t], size)
    /\ UNCHANGED <<lifecycleVars, objects>>

\* Phase one returns its executor.
EndPhaseOne(t, h, m) ==
    /\ PhaseOne(t, h, m)
    /\ objects' = [objects EXCEPT ![h] = {g \in given : g.pool = tls[t]}]
    /\ UNCHANGED poolVars

\* Phase two or destruction: the memory waits for FreeHugeMem.
UseHandle(t, h) ==
    /\ OnHandle(t, h)
    /\ objects' = [objects EXCEPT ![h] = IF h \in alive' THEN @ ELSE {}]
    /\ UNCHANGED poolVars

\* FreeHugeMem: the index leaves the thread, its pool gives up the objects,
\* then every block, and is ready again before the index is returned.
Release(t) ==
    /\ ReleaseHugeMem(t)
    /\ IF tls[t] = Invalid THEN UNCHANGED poolVars ELSE FreeHugeMem(tls[t])
    /\ UNCHANGED objects

FreeBlocks(t) ==
    /\ freeing[t] # Invalid
    /\ FreeOneHugeBlock(freeing[t]) \/ Reopen(freeing[t])
    /\ UNCHANGED <<lifecycleVars, objects>>

\* As Return, but the index is returned as soon as it has left the thread.
ReturnEarly(t) == freeing[t] # Invalid /\ ReturnIndex(t) /\ MemoryUnchanged

Return(t) ==
    /\ freeing[t] # Invalid /\ state[freeing[t]] = "open"
    /\ ReturnIndex(t) /\ MemoryUnchanged

Next ==
    \E t \in Thread :
        \/ \E size \in Size : Allocate(t, size)
        \/ InitHugeMemThreadLocal(t) /\ MemoryUnchanged
        \/ StartPlain(t) /\ MemoryUnchanged
        \/ SetRepeatable(t) /\ MemoryUnchanged
        \/ UnInitHugeMemThreadLocal(t) /\ MemoryUnchanged
        \/ Release(t) \/ FreeBlocks(t) \/ Return(t)
        \/ \E h \in Handle :
              \/ UseHandle(t, h)
              \/ \E m \in {"once", "default"} : EndPhaseOne(t, h, m)

Spec == Init /\ [][Next]_vars
-----------------------------------------------------------------------------
(* Properties *)

\* The places an index can be: on the stack, with a thread that is about to
\* make its handle, with a handle, or on its way back.
Places(i) ==
         {<<"stack", k>> : k \in {k \in DOMAIN indices : indices[k] = i}}
    \cup {<<"thread", t>> : t \in {t \in Thread : tls[t] = i /\ call[t] \in {"one", "two"}}}
    \cup {<<"handle", h>> : h \in {h \in alive : index[h] = i}}
    \cup {<<"free", t>> : t \in {t \in Thread : freeing[t] = i}}

\* What phase one has allocated stays as it is until the executor is deleted,
\* whatever other threads allocate, release and return in the meantime: no
\* pool is emptied while an executor's objects live in it, and none has two
\* users, although a thread may keep an old copy of an index after phase one.
\* A repeatable executor, which outlives its call, has nothing in a pool.
\* The only indices lost are those of phase ones that made no handle.
ObjectsKept ==
    /\ \A h \in alive : objects[h] \subseteq given
    /\ \A h \in alive : mode[h] = "repeat" => objects[h] = {}
    /\ \A i \in Index : Cardinality(Places(i)) = (IF i \in dropped THEN 0 ELSE 1)

\* The pool of an index that can be taken is as good as new, although its
\* blocks went back one by one while other pools were taking them: no block,
\* no object and no release of its last user is left in it.
ReturnedEmpty ==
    \A i \in Range(indices) :
        /\ state[i] = "open" /\ giving[i] = <<>>
        /\ Blocks(i) = {} /\ cur[i] = 0
        /\ \A g \in given : g.pool # i
-----------------------------------------------------------------------------
(* The inductive invariant of the composition, beside LifecycleInv and     *)
(* PoolInv of the parts.                                                   *)

\* A pool nobody uses.
Clean(i) == /\ state[i] = "open" /\ giving[i] = <<>>
            /\ Blocks(i) = {} /\ cur[i] = 0
            /\ \A g \in given : g.pool # i

\* Only the thread that releases an index has its pool in a state other than
\* open, and when it is open again, it is clean.
Released ==
    /\ \A i \in Range(indices) : Clean(i)
    /\ \A i \in Index : state[i] # "open" => \E t \in Thread : freeing[t] = i
    /\ \A t \in Thread : freeing[t] # Invalid /\ state[freeing[t]] = "open" => Clean(freeing[t])

\* The objects of a handle are those of the pool it remembers.
Remembered ==
    /\ objects \in [Handle -> SUBSET Object]
    /\ \A h \in alive : objects[h] \subseteq {g \in given : g.pool = index[h]}

MemoryInv == LifecycleInv /\ PoolInv /\ Released /\ Remembered
=============================================================================
