------------------------- MODULE ExecutorLifecycle -------------------------
(***************************************************************************)
(* The life of an operator call's handle (an aclOpExecutor, or the wrap    *)
(* around a recorded launch) and of the huge-memory pool index that        *)
(* travels with it (op_executor.cpp, op_cache.cpp, huge_mem.cpp).          *)
(*                                                                         *)
(* A caller takes a pool index into its thread-local context               *)
(* (InitHugeMemThreadLocal), makes a handle in phase one, which remembers  *)
(* the index, and drops the thread-local copy (UnInitHugeMemThreadLocal).  *)
(* Phase two, on any thread, runs and deletes the handle; the destructor   *)
(* puts the index into the context of that thread, from where              *)
(* ReleaseHugeMem returns it.  A repeatable handle survives phase two and  *)
(* is deleted by aclDestroyAclOpExecutor.                                  *)
(*                                                                         *)
(* The caller's order of calls is the one the unit tests and the           *)
(* documentation show; it is code outside this repository.                 *)
(***************************************************************************)
EXTENDS Integers, Sequences, FiniteSets, Functions

CONSTANTS
    Thread,      \* threads of the caller
    Handle,      \* handles that may be made
    Index,       \* pool indices, kMaxHugeMemObjectNum of them
    Invalid,     \* kInvalidHugeMemIndexId
    None

ASSUME HandleAssumption ==
    IsFiniteSet(Index) /\ Invalid \notin Index /\ None \notin Handle

VARIABLES
    indices,  \* gHugeMemPoolIndex, a stack
    tls,      \* tls[t]: poolIndex_ of the thread's OpThreadLocalContext
    alive,    \* handles that exist
    mode,     \* mode[h]: repeatMode_ of an executor; "once" when it is UNREPEATABLE
              \* or the handle is a wrap
    index,    \* index[h]: hugeMemPoolIndex_
    held,     \* handles the caller may still use, by the documentation
    call,     \* call[t]: what the caller does on thread t
    made,     \* made[t]: the handle phase one has just returned
    freeing,  \* freeing[t]: the index FreeHugeMem of thread t is releasing
    dropped   \* indices whose thread-local copy was the last one

lifecycleVars == <<indices, tls, alive, mode, index, held, call, made, freeing, dropped>>

New == {h \in Handle : mode[h] = "new"}

LifecycleInit ==
        /\ indices \in {s \in [1 .. Cardinality(Index) -> Index] : Range(s) = Index}
        /\ tls = [t \in Thread |-> Invalid]
        /\ alive = {} /\ held = {}
        /\ mode = [h \in Handle |-> "new"]
        /\ index = [h \in Handle |-> Invalid]
        /\ call = [t \in Thread |-> "idle"]
        /\ made = [t \in Thread |-> None]
        /\ freeing = [t \in Thread |-> Invalid]
        /\ dropped = {}
-----------------------------------------------------------------------------
(* Before and after phase one *)

\* GetAvaiablePoolIndex; Invalid when all indices are in use.
InitHugeMemThreadLocal(t) ==
    /\ call[t] = "idle"
    /\ call' = [call EXCEPT ![t] = "one"]
    /\ tls' = [tls EXCEPT ![t] = IF indices = <<>> THEN Invalid ELSE indices[Len(indices)]]
    /\ indices' = IF indices = <<>> THEN <<>> ELSE SubSeq(indices, 1, Len(indices) - 1)
    /\ UNCHANGED <<alive, mode, index, held, made, freeing, dropped>>

\* A caller that does not use huge memory starts with phase one.
StartPlain(t) ==
    /\ call[t] = "idle"
    /\ call' = [call EXCEPT ![t] = "one"]
    /\ UNCHANGED <<indices, tls, alive, mode, index, held, made, freeing, dropped>>

\* UnInitHugeMemThreadLocal forgets the thread-local copy.
UnInitHugeMemThreadLocal(t) ==
    /\ call[t] \in {"one", "made"}
    /\ call' = [call EXCEPT ![t] = "idle"]
    /\ tls' = [tls EXCEPT ![t] = Invalid]
    /\ made' = [made EXCEPT ![t] = None]
    /\ dropped' = dropped \cup (IF call[t] = "one" THEN {tls[t]} \ {Invalid} ELSE {})
    /\ UNCHANGED <<indices, alive, mode, index, held, freeing>>
-----------------------------------------------------------------------------
(* Phase one *)

\* The constructors of OpExecutorImpl and OpExecCacheWrap.  An executor with
\* launchers that cannot be replayed is Unrepeatable from the start.
PhaseOne(t, h, m) ==
    /\ call[t] = "one" /\ h \in New
    /\ m \in {"once", "default"}
    /\ alive' = alive \cup {h}
    /\ held' = held \cup {h}
    /\ mode' = [mode EXCEPT ![h] = m]
    /\ index' = [index EXCEPT ![h] = tls[t]]
    /\ call' = [call EXCEPT ![t] = "made"]
    /\ made' = [made EXCEPT ![t] = h]
    /\ UNCHANGED <<indices, tls, freeing, dropped>>

\* Mutant: executors on huge memory are accepted.
MayRepeatAnywhere(h) == mode[h] \in {"default", "repeat"}

\* OpExecutorImpl::SetRepeatable; a wrap is refused by its magic number.
MayRepeat(h) == mode[h] \in {"default", "repeat"} /\ index[h] = Invalid

\* aclSetAclOpExecutorRepeatable, right after phase one.  CheckRepeatable of
\* a launcher may refuse, too: then nothing happens.
SetRepeatable(t) ==
    /\ call[t] = "made" /\ made[t] \in held \cap alive
    /\ MayRepeat(made[t])
    /\ mode' = [mode EXCEPT ![made[t]] = "repeat"]
    /\ UNCHANGED <<indices, tls, alive, index, held, call, made, freeing, dropped>>
-----------------------------------------------------------------------------
(* Phase two and destruction *)

\* ~aclOpExecutor and ~OpExecCacheWrap: the context is reset, then gets the
\* index of the handle.
Delete(t, h) ==
    /\ alive' = alive \ {h}
    /\ tls' = [tls EXCEPT ![t] = index[h]]

\* The caller runs phase two only after phase one has returned.
Ready(t, h) == call[t] \in {"idle", "made"} /\ h \in held \cap alive

\* Phase two may run on the thread of phase one before it drops its index.
AfterTwo(t) == [call EXCEPT ![t] = "two"]

\* CommonOpExecutorRun with a workspace, successful or not.
PhaseTwo(t, h) ==
    /\ Ready(t, h) /\ (call[t] = "made" => made[t] = h)
    /\ \/ /\ mode[h] # "repeat"
          /\ Delete(t, h)
          /\ held' = held \ {h}
       \/ /\ mode[h] = "repeat"
          /\ UNCHANGED <<alive, tls, held>>
    /\ call' = AfterTwo(t)
    /\ made' = [made EXCEPT ![t] = None]
    /\ UNCHANGED <<indices, mode, index, freeing, dropped>>

\* CommonOpExecutorRun without the workspace it asked for:
\* DeleteExecutorForError deletes whatever handle it was given.
PhaseTwoNoWorkspace(t, h) ==
    /\ Ready(t, h) /\ (call[t] = "made" => made[t] = h)
    /\ Delete(t, h)
    /\ held' = IF mode[h] = "repeat" THEN held ELSE held \ {h}
    /\ call' = AfterTwo(t)
    /\ made' = [made EXCEPT ![t] = None]
    /\ UNCHANGED <<indices, mode, index, freeing, dropped>>

\* aclDestroyAclOpExecutor
Destroy(t, h) ==
    /\ Ready(t, h) /\ (call[t] = "made" => made[t] = h)
    /\ Delete(t, h)
    /\ held' = held \ {h}
    /\ call' = AfterTwo(t)
    /\ made' = [made EXCEPT ![t] = None]
    /\ UNCHANGED <<indices, mode, index, freeing, dropped>>

\* Mutant: the thread-local copy survives.
ReleaseKeepsCopy(t) ==
    /\ call[t] = "two" /\ freeing[t] = Invalid
    /\ freeing' = [freeing EXCEPT ![t] = tls[t]]
    /\ call' = [call EXCEPT ![t] = IF tls[t] = Invalid THEN "idle" ELSE "free"]
    /\ UNCHANGED <<indices, tls, alive, mode, index, held, made, dropped>>

\* ReleaseHugeMem: FreeHugeMem takes the thread-local index and empties its
\* pool (HugeMemPool) ...
ReleaseHugeMem(t) ==
    /\ call[t] = "two" /\ freeing[t] = Invalid
    /\ freeing' = [freeing EXCEPT ![t] = tls[t]]
    /\ tls' = [tls EXCEPT ![t] = Invalid]
    /\ call' = [call EXCEPT ![t] = IF tls[t] = Invalid THEN "idle" ELSE "free"]
    /\ UNCHANGED <<indices, alive, mode, index, held, made, dropped>>

\* ... and returns the index.  A caller may release once more; the second
\* time nothing is left to do.
ReturnIndex(t) ==
    /\ call[t] = "free"
    /\ indices' = Append(indices, freeing[t])
    /\ freeing' = [freeing EXCEPT ![t] = Invalid]
    /\ \E next \in {"idle", "two"} : call' = [call EXCEPT ![t] = next]
    /\ UNCHANGED <<tls, alive, mode, index, held, made, dropped>>
-----------------------------------------------------------------------------
OnHandle(t, h) == PhaseTwo(t, h) \/ PhaseTwoNoWorkspace(t, h) \/ Destroy(t, h)
Cleanup(t) == ReleaseHugeMem(t) \/ ReturnIndex(t)

LifecycleNext ==
        \E t \in Thread :
           \/ InitHugeMemThreadLocal(t) \/ StartPlain(t) \/ UnInitHugeMemThreadLocal(t)
           \/ SetRepeatable(t) \/ Cleanup(t)
           \/ \E h \in Handle : \/ OnHandle(t, h)
                                \/ \E m \in {"once", "default"} : PhaseOne(t, h, m)

LifecycleSpec == LifecycleInit /\ [][LifecycleNext]_lifecycleVars

-----------------------------------------------------------------------------
(* Properties *)

\* The documentation of aclSetAclOpExecutorRepeatable: a repeatable executor
\* is not cleaned up by phase two, so what the caller still holds exists.
HeldIsAlive == held \subseteq alive
-----------------------------------------------------------------------------
(* The inductive invariant.                                                *)

LifecycleTypeOK ==
    /\ indices \in Seq(Index)
    /\ tls \in [Thread -> Index \cup {Invalid}]
    /\ alive \subseteq Handle /\ held \subseteq Handle
    /\ mode \in [Handle -> {"new", "once", "default", "repeat"}]
    /\ index \in [Handle -> Index \cup {Invalid}]
    /\ call \in [Thread -> {"idle", "one", "made", "two", "free"}]
    /\ made \in [Thread -> Handle \cup {None}]
    /\ freeing \in [Thread -> Index \cup {Invalid}]
    /\ dropped \subseteq Index

\* Index i is at place k, with thread or handle u.
At(i, k, u) ==
    \/ k = "stack"  /\ u = None      /\ i \in Range(indices)
    \/ k = "thread" /\ u \in Thread /\ tls[u] = i /\ call[u] \in {"one", "two"}
    \/ k = "handle" /\ u \in alive  /\ index[u] = i
    \/ k = "free"   /\ u \in Thread /\ freeing[u] = i

\* Every index has one place, unless it was dropped: then it has none.
OnePlace ==
    /\ IsInjective(indices)
    /\ \A i \in Index : \A k, l, u, v : At(i, k, u) /\ At(i, l, v) => k = l /\ u = v
    /\ \A i \in Index : i \in dropped <=> ~ \E k, u : At(i, k, u)

\* A thread's copy of an index is gone before its next call; the copy it keeps
\* after phase one is the index of its handle as long as that exists.
Copies ==
    /\ \A t \in Thread : call[t] \in {"idle", "free"} => tls[t] = Invalid
    /\ \A t \in Thread : freeing[t] # Invalid <=> call[t] = "free"
    /\ \A t \in Thread : call[t] = "made" =>
           /\ made[t] \in Handle /\ mode[made[t]] # "new"
           /\ made[t] \in alive => index[made[t]] = tls[t]
    /\ \A h \in Handle : /\ h \in alive => mode[h] # "new"
                         /\ mode[h] = "repeat" => index[h] = Invalid

LifecycleInv == LifecycleTypeOK /\ OnePlace /\ Copies
=============================================================================
