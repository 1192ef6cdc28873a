----------------------------- MODULE BlockPool -----------------------------
(***************************************************************************)
(* The small-object allocator behind tensors, executors and launch         *)
(* arguments: BlockStore (a free list of equal blocks), the process-wide   *)
(* BlockPool that guards it with a spinlock and falls back to malloc, and  *)
(* the thread-local BlockCache in front of it                              *)
(* (src/nnopbase/common/inc/block_store.h, block_pool.h).                  *)
(*                                                                         *)
(* One size class is modelled: the six classes share nothing but the lock; *)
(* StoreIndex is how an allocation chooses among them.                     *)
(* A block travels store -> batch of an allocation -> cache of the thread  *)
(* or user -> cache of whichever thread frees it, or back to the store.    *)
(* The free lists are last-in first-out; a stack is a sequence whose last  *)
(* element is on top.                                                      *)
(***************************************************************************)
EXTENDS StoreIndex, Sequences, FiniteSets, Functions

CONSTANTS
    Thread,     \* the threads that allocate and free
    Block,      \* the blocks of the store
    SysBlock,   \* blocks malloc can still provide (SYS_TAG)
    Batch,      \* CacheBatchSize of the class
    CacheMax,   \* cacheMaxCount_ of the class
    NoThread, NoBlock

ASSUME BlockAssumption ==
    /\ Block \cap SysBlock = {} /\ IsFiniteSet(Block)
    /\ Batch \in Nat \ {0} /\ CacheMax \in Nat
    /\ NoThread \notin Thread /\ NoBlock \notin Block \cup SysBlock

AnyBlock == Block \cup SysBlock

\* What the cacheExt_ word of a header says outside a cache list: allocated
\* through the cache of thread t, or never in a cache.
NotInCache == NoThread

VARIABLES
    free,       \* the store's free list, freeHead_ on top
    guard,      \* BlockPool::guard_, the thread inside it
    heap,       \* malloced blocks that are live
    cache,      \* cache[t]: cacheHead_ list of thread t
    count,      \* count[t]: cacheCount_ of thread t
    ext,        \* ext[b]: cacheExt_ of a block that is in no list
    user,       \* blocks handed to callers and not freed yet
    pc,         \* what thread t does next
    batch,      \* batch[t]: addrList of the allocation under way
    block,      \* block[t]: the block thread t is popping or freeing
    lost        \* blocks in the caches of threads that have exited

local == <<pc, batch, block>>
vars == <<free, guard, heap, cache, count, ext, user, lost, local>>

Top(s) == s[Len(s)]
Pop(s) == [i \in 1 .. Len(s) - 1 |-> s[i]]

\* BlockStore::Init links the blocks in some fixed order.
Init == /\ free \in {s \in [1 .. Cardinality(Block) -> Block] : Range(s) = Block}
        /\ guard = NoThread
        /\ heap = {}
        /\ cache = [t \in Thread |-> <<>>]
        /\ count = [t \in Thread |-> 0]
        /\ ext = [b \in AnyBlock |-> NotInCache]
        /\ user = {}
        /\ pc = [t \in Thread |-> "idle"]
        /\ batch = [t \in Thread |-> <<>>]
        /\ block = [t \in Thread |-> NoBlock]
        /\ lost = {}
-----------------------------------------------------------------------------
(* BlockCache::CacheAlloc *)

\* The cache of the calling thread is not empty: its top block is handed out.
CacheAlloc(t) ==
    /\ pc[t] = "idle" /\ cache[t] # <<>>
    /\ cache' = [cache EXCEPT ![t] = Pop(@)]
    /\ count' = [count EXCEPT ![t] = @ - 1]
    /\ ext' = [ext EXCEPT ![Top(cache[t])] = t]
    /\ user' = user \cup {Top(cache[t])}
    /\ UNCHANGED <<free, guard, heap, lost, local>>

\* It is empty: PoolAlloc fetches a batch, first from the store.
PoolAlloc(t) ==
    /\ pc[t] = "idle" /\ cache[t] = <<>>
    /\ pc' = [pc EXCEPT ![t] = "lock"]
    /\ batch' = [batch EXCEPT ![t] = <<>>]
    /\ UNCHANGED <<free, guard, heap, cache, count, ext, user, lost, block>>

\* Where the three users of guard_ go once they have it.
Locked == [lock |-> "load", freelock |-> "push", mlock |-> "mload"]

\* Mutant: the pool is entered without waiting for the lock.
LockAlwaysFree(t) ==
    /\ pc[t] \in DOMAIN Locked
    /\ guard' = t
    /\ pc' = [pc EXCEPT ![t] = Locked[@]]
    /\ UNCHANGED <<free, heap, cache, count, ext, user, lost, batch, block>>

\* OpSpinlock::lock succeeds: its exchange found the flag clear.
Lock(t) ==
    /\ pc[t] \in DOMAIN Locked
    /\ guard = NoThread
    /\ guard' = t
    /\ pc' = [pc EXCEPT ![t] = Locked[@]]
    /\ UNCHANGED <<free, heap, cache, count, ext, user, lost, batch, block>>

\* The loop of BatchMatchImpl: leave it when the batch is complete or the
\* store empty, otherwise BlockStore::Alloc loads freeHead_ ...
BatchLoad(t) ==
    /\ pc[t] = "load"
    /\ IF Len(batch[t]) < Batch /\ free # <<>>
       THEN /\ block' = [block EXCEPT ![t] = Top(free)]
            /\ pc' = [pc EXCEPT ![t] = "pop"]
            /\ UNCHANGED guard
       ELSE /\ pc' = [pc EXCEPT ![t] = "fallback"]
            /\ guard' = NoThread
            /\ UNCHANGED block
    /\ UNCHANGED <<free, heap, cache, count, ext, user, lost, batch>>

\* ... and stores the next index of the loaded block.
BatchPop(t) ==
    /\ pc[t] = "pop"
    /\ free' = Pop(free)
    /\ batch' = [batch EXCEPT ![t] = Append(@, block[t])]
    /\ block' = [block EXCEPT ![t] = NoBlock]
    /\ pc' = [pc EXCEPT ![t] = "load"]
    /\ UNCHANGED <<guard, heap, cache, count, ext, user, lost>>

\* The rest of the batch comes from malloc, while it succeeds.
BatchFallback(t) ==
    /\ pc[t] = "fallback"
    /\ IF Len(batch[t]) < Batch /\ heap # SysBlock
       THEN \E b \in SysBlock \ heap :
              /\ heap' = heap \cup {b}
              /\ batch' = [batch EXCEPT ![t] = Append(@, b)]
              /\ UNCHANGED pc
       ELSE /\ pc' = [pc EXCEPT ![t] = "fill"]
            /\ UNCHANGED <<heap, batch>>
    /\ UNCHANGED <<free, guard, cache, count, ext, user, lost, block>>

\* Mutant: only the block for the caller is taken from the batch.
FillCacheFirstOnly(t) ==
    /\ pc[t] = "fill"
    /\ pc' = [pc EXCEPT ![t] = "idle"]
    /\ batch' = [batch EXCEPT ![t] = <<>>]
    /\ IF batch[t] = <<>>
       THEN UNCHANGED <<ext, user>>
       ELSE /\ ext' = [ext EXCEPT ![Head(batch[t])] = t]
            /\ user' = user \cup {Head(batch[t])}
    /\ UNCHANGED <<free, guard, heap, cache, count, lost, block>>

\* The end of PoolAlloc: the first block of the batch goes to the caller (who
\* gets nullptr from an empty batch), the others onto the thread's cache.
FillCache(t) ==
    /\ pc[t] = "fill"
    /\ pc' = [pc EXCEPT ![t] = "idle"]
    /\ batch' = [batch EXCEPT ![t] = <<>>]
    /\ IF batch[t] = <<>>
       THEN UNCHANGED <<cache, count, ext, user>>
       ELSE /\ cache' = [cache EXCEPT ![t] = @ \o Tail(batch[t])]
            /\ count' = [count EXCEPT ![t] = @ + Len(batch[t]) - 1]
            /\ ext' = [ext EXCEPT ![Head(batch[t])] = t]
            /\ user' = user \cup {Head(batch[t])}
    /\ UNCHANGED <<free, guard, heap, lost, block>>

-----------------------------------------------------------------------------
(* BlockPool::Malloc: requests of no size class (0 bytes, or more than 64 KB) *)
(* and the ones HugeMemPool::GetAddr sends past the cache.                    *)

Malloc(t) ==
    /\ pc[t] = "idle"
    /\ pc' = [pc EXCEPT ![t] = "mlock"]
    /\ UNCHANGED <<free, guard, heap, cache, count, ext, user, lost, batch, block>>

\* PoolMalloc: the store of the size class is asked; there may be no class.
PoolMalloc(t) ==
    /\ pc[t] = "mload"
    /\ \/ /\ free # <<>>
          /\ block' = [block EXCEPT ![t] = Top(free)]
          /\ pc' = [pc EXCEPT ![t] = "mpop"]
          /\ UNCHANGED guard
       \/ /\ guard' = NoThread
          /\ pc' = [pc EXCEPT ![t] = "malloc"]
          /\ UNCHANGED block
    /\ UNCHANGED <<free, heap, cache, count, ext, user, lost, batch>>

\* A block of the store keeps the cacheExt_ it has there.
PoolMallocPop(t) ==
    /\ pc[t] = "mpop"
    /\ free' = Pop(free)
    /\ user' = user \cup {block[t]}
    /\ block' = [block EXCEPT ![t] = NoBlock]
    /\ guard' = NoThread
    /\ pc' = [pc EXCEPT ![t] = "idle"]
    /\ UNCHANGED <<heap, cache, count, ext, lost, batch>>

\* The fallback to malloc marks the block NOT_IN_CACHE; or malloc fails.
SysMalloc(t) ==
    /\ pc[t] = "malloc"
    /\ pc' = [pc EXCEPT ![t] = "idle"]
    /\ IF heap = SysBlock
       THEN UNCHANGED <<heap, ext, user>>
       ELSE \E b \in SysBlock \ heap :
              /\ heap' = heap \cup {b}
              /\ ext' = [ext EXCEPT ![b] = NotInCache]
              /\ user' = user \cup {b}
    /\ UNCHANGED <<free, guard, cache, count, lost, batch, block>>
-----------------------------------------------------------------------------
(* BlockCache::CacheFree, by any thread *)

ToPool(t, b) ==
    \/ ext[b] = NotInCache
    \/ ext[b] # t /\ count[t] > CacheMax

\* The block enters the cache of the freeing thread.
FreeToCache(t, b) ==
    /\ pc[t] = "idle" /\ b \in user
    /\ ~ ToPool(t, b)
    /\ cache' = [cache EXCEPT ![t] = Append(@, b)]
    /\ count' = [count EXCEPT ![t] = @ + 1]
    /\ user' = user \ {b}
    /\ UNCHANGED <<free, guard, heap, ext, lost, local>>

\* BlockPool::Free of a malloced block gives it back to the system.
FreeToSystem(t, b) ==
    /\ pc[t] = "idle" /\ b \in user
    /\ ToPool(t, b) /\ b \in SysBlock
    /\ heap' = heap \ {b}
    /\ user' = user \ {b}
    /\ UNCHANGED <<free, guard, cache, count, ext, lost, local>>

\* BlockPool::Free of a block of the store waits for the lock ...
FreeToStore(t, b) ==
    /\ pc[t] = "idle" /\ b \in user
    /\ ToPool(t, b) /\ b \in Block
    /\ block' = [block EXCEPT ![t] = b]
    /\ user' = user \ {b}
    /\ pc' = [pc EXCEPT ![t] = "freelock"]
    /\ UNCHANGED <<free, guard, heap, cache, count, ext, lost, batch>>

\* Mutant: the lock is kept after the block is on the free list.
StoreFreeKeepsLock(t) ==
    /\ pc[t] = "push"
    /\ ext' = [ext EXCEPT ![block[t]] = NotInCache]
    /\ free' = Append(free, block[t])
    /\ block' = [block EXCEPT ![t] = NoBlock]
    /\ pc' = [pc EXCEPT ![t] = "idle"]
    /\ UNCHANGED <<guard, heap, cache, count, user, lost, batch>>

\* ... and puts the block on the free list (BlockStore::Free).
StoreFree(t) ==
    /\ pc[t] = "push"
    /\ ext' = [ext EXCEPT ![block[t]] = NotInCache]
    /\ free' = Append(free, block[t])
    /\ block' = [block EXCEPT ![t] = NoBlock]
    /\ guard' = NoThread
    /\ pc' = [pc EXCEPT ![t] = "idle"]
    /\ UNCHANGED <<heap, cache, count, user, lost, batch>>

\* A thread exits; ~BlockCache() = default leaves its cached blocks behind.
\* A thread started later is a new t with an empty cache.
ThreadExit(t) ==
    /\ pc[t] = "idle"
    /\ lost' = lost \cup Range(cache[t])
    /\ cache' = [cache EXCEPT ![t] = <<>>]
    /\ count' = [count EXCEPT ![t] = 0]
    /\ UNCHANGED <<free, guard, heap, ext, user, local>>
-----------------------------------------------------------------------------
\* The steps of an allocation or a free that has begun.
Continue(t) == \/ Lock(t) \/ BatchLoad(t) \/ BatchPop(t) \/ BatchFallback(t)
               \/ FillCache(t) \/ StoreFree(t)
               \/ PoolMalloc(t) \/ PoolMallocPop(t) \/ SysMalloc(t)

Begin(t) == \/ CacheAlloc(t) \/ PoolAlloc(t) \/ Malloc(t) \/ ThreadExit(t)
            \/ \E b \in AnyBlock :
                 FreeToCache(t, b) \/ FreeToSystem(t, b) \/ FreeToStore(t, b)

Next == \E t \in Thread : Begin(t) \/ Continue(t)

Spec == Init /\ [][Next]_vars

\* A thread that is running is scheduled again; nothing is assumed of who
\* wins the spinlock.
LiveSpec == Spec /\ \A t \in Thread : WF_vars(Continue(t))
-----------------------------------------------------------------------------
(* Properties *)

Phase == {"idle", "lock", "load", "pop", "fallback", "fill",
          "freelock", "push", "mlock", "mload", "mpop", "malloc"}

TypeOK == /\ free \in Seq(Block)
          /\ guard \in Thread \cup {NoThread}
          /\ heap \subseteq SysBlock
          /\ cache \in [Thread -> Seq(AnyBlock)]
          /\ count \in [Thread -> Nat]
          /\ ext \in [AnyBlock -> Thread \cup {NotInCache}]
          /\ user \subseteq AnyBlock
          /\ pc \in [Thread -> Phase]
          /\ batch \in [Thread -> Seq(AnyBlock)]
          /\ block \in [Thread -> AnyBlock \cup {NoBlock}]
          /\ lost \subseteq AnyBlock

\* Blocks on their way back to the store.
Returning(t) == IF pc[t] \in {"freelock", "push"} THEN {block[t]} ELSE {}

\* No block is in two places: on the store's free list, in some thread's
\* cache, in an allocation or a free under way, lost, or with a user; and it
\* is nowhere twice.  So CacheAlloc never hands out memory that is in use,
\* although blocks are freed by other threads than the ones they were
\* allocated by.
Exclusive ==
    /\ IsInjective(free)
    /\ user \cap (Range(free) \cup lost) = {}
    /\ lost \cap Range(free) = {}
    /\ \A t \in Thread :
         /\ IsInjective(cache[t]) /\ IsInjective(batch[t])
         /\ Range(cache[t]) \cap (Range(free) \cup user \cup lost) = {}
         /\ Range(batch[t]) \cap (Range(free) \cup user \cup lost) = {}
         /\ Returning(t) \cap (Range(free) \cup user \cup lost) = {}
         /\ \A s \in Thread :
              /\ s # t => /\ Range(cache[s]) \cap Range(cache[t]) = {}
                          /\ Range(batch[s]) \cap Range(batch[t]) = {}
                          /\ Returning(s) \cap Returning(t) = {}
              /\ Range(cache[s]) \cap Range(batch[t]) = {}
              /\ Returning(s) \cap (Range(cache[t]) \cup Range(batch[t])) = {}

\* No block of the store disappears except with the cache of a thread that
\* exited, and a malloced block is live exactly while somebody has it.  What
\* cacheExt_ says decides where a freed block goes: every block in the store
\* says NOT_IN_CACHE again, however many threads have cached it before.
Conserved ==
    LET places == user \cup lost \cup
                  UNION {Range(cache[t]) \cup Range(batch[t]) \cup Returning(t) :
                         t \in Thread}
    IN  /\ places \cup Range(free) = Block \cup heap
        /\ \A b \in Range(free) : ext[b] = NotInCache

\* Whoever holds the pool's spinlock releases it.
GuardReleased == \A t \in Thread : (guard = t) ~> (guard # t)
-----------------------------------------------------------------------------
(* The inductive invariant *)

\* guard_ says who is inside BlockPool, and what its holder has read of the
\* free list is still so.
Guarded ==
    \A t \in Thread :
        /\ guard = t <=> pc[t] \in {"load", "pop", "push", "mload", "mpop"}
        /\ pc[t] \in {"pop", "mpop"} => free # <<>> /\ block[t] = Top(free)

\* Outside an allocation there is no batch, a block on its way back is one of
\* the store, and cacheCount_ is the length of the list.
Local ==
    \A t \in Thread :
        /\ pc[t] \notin {"load", "pop", "fallback", "fill"} => batch[t] = <<>>
        /\ Returning(t) \subseteq Block
        /\ count[t] = Len(cache[t])

IndInv == TypeOK /\ Guarded /\ Local /\ Exclusive /\ Conserved
=============================================================================
