-------------------------- MODULE BlockPoolProofs --------------------------
(***************************************************************************)
(* For every number of threads, blocks, batch size and cache limit: no     *)
(* block is in two places, none of the store disappears but with a thread  *)
(* that exits, and what the holder of the spinlock has read stays true.    *)
(*                                                                         *)
(* The argument follows one block.  In(b, k, u) says that block b is at    *)
(* place k of thread u; every step leaves a block where it is or moves it  *)
(* from the one place it was at to one other place.                        *)
(***************************************************************************)
EXTENDS BlockPool, BasicFacts, FiniteSetTheorems, TLAPS

USE BlockAssumption
-----------------------------------------------------------------------------
(* The places of a block.                                                  *)

In(b, k, u) ==
    \/ k = "free"   /\ u = NoThread /\ b \in Range(free)
    \/ k = "user"   /\ u = NoThread /\ b \in user
    \/ k = "lost"   /\ u = NoThread /\ b \in lost
    \/ k = "cache"  /\ u \in Thread /\ b \in Range(cache[u])
    \/ k = "batch"  /\ u \in Thread /\ b \in Range(batch[u])
    \/ k = "return" /\ u \in Thread /\ b \in Returning(u)

OneHome == \A b, k, l, u, v : In(b, k, u) /\ In(b, l, v) => k = l /\ u = v

AllHome == \A b : (\E k, u : In(b, k, u)) <=> b \in Block \cup heap

Lists == /\ IsInjective(free)
         /\ \A t \in Thread : IsInjective(cache[t]) /\ IsInjective(batch[t])

\* Exclusive says that no list names a block twice and every block has one place.
LEMMA ExclusiveByHome == Exclusive <=> Lists /\ OneHome
<1>1. ASSUME Exclusive PROVE Lists
  BY <1>1 DEF Exclusive, Lists
<1>2. ASSUME Exclusive, NEW b, NEW k, NEW l, NEW u, NEW v, In(b, k, u), In(b, l, v)
      PROVE  k = l /\ u = v
  BY <1>2 DEF Exclusive, In
<1>3. ASSUME Lists, OneHome PROVE Exclusive
  <2>0. IsInjective(free) /\ \A t \in Thread : IsInjective(cache[t]) /\ IsInjective(batch[t])
    BY <1>3 DEF Lists
  <2>1. /\ user \cap (Range(free) \cup lost) = {}
        /\ lost \cap Range(free) = {}
    BY <1>3 DEF OneHome, In
  <2>2. ASSUME NEW t \in Thread
        PROVE  /\ Range(cache[t]) \cap (Range(free) \cup user \cup lost) = {}
               /\ Range(batch[t]) \cap (Range(free) \cup user \cup lost) = {}
               /\ Returning(t) \cap (Range(free) \cup user \cup lost) = {}
    BY <1>3 DEF OneHome, In
  <2>3. ASSUME NEW t \in Thread, NEW s \in Thread
        PROVE  /\ s # t => /\ Range(cache[s]) \cap Range(cache[t]) = {}
                           /\ Range(batch[s]) \cap Range(batch[t]) = {}
                           /\ Returning(s) \cap Returning(t) = {}
               /\ Range(cache[s]) \cap Range(batch[t]) = {}
               /\ Returning(s) \cap (Range(cache[t]) \cup Range(batch[t])) = {}
    BY <1>3 DEF OneHome, In
  <2> QED BY <2>0, <2>1, <2>2, <2>3 DEF Exclusive
<1> QED BY <1>1, <1>2, <1>3 DEF OneHome

\* Conserved says that the blocks that have a place are those of the store and
\* the live malloced ones.
LEMMA ConservedByHome ==
    Conserved <=> AllHome /\ \A b \in Range(free) : ext[b] = NotInCache
<1> DEFINE T == UNION {Range(cache[t]) \cup Range(batch[t]) \cup Returning(t) : t \in Thread}
           places == user \cup lost \cup T
<1>1. \A b : b \in T <=> \E t \in Thread : \/ b \in Range(cache[t]) \/ b \in Range(batch[t])
                                           \/ b \in Returning(t)
  OBVIOUS
<1>2. \A b : (\E k, u : In(b, k, u)) <=> b \in places \cup Range(free)
  <2> HIDE DEF T
  <2>1. ASSUME NEW b, NEW k, NEW u, In(b, k, u) PROVE b \in places \cup Range(free)
    BY <1>1, <2>1 DEF In
  <2>2. ASSUME NEW b \in Range(free) PROVE In(b, "free", NoThread)
    BY DEF In
  <2>3. ASSUME NEW b \in user PROVE In(b, "user", NoThread)
    BY DEF In
  <2>4. ASSUME NEW b \in lost PROVE In(b, "lost", NoThread)
    BY DEF In
  <2>5. ASSUME NEW b \in T PROVE \E k, u : In(b, k, u)
    <3>1. PICK t \in Thread : \/ b \in Range(cache[t]) \/ b \in Range(batch[t])
                              \/ b \in Returning(t)
      BY <1>1
    <3>2. In(b, "cache", t) \/ In(b, "batch", t) \/ In(b, "return", t)
      BY <3>1 DEF In
    <3> QED BY <3>2
  <2> QED BY <2>1, <2>2, <2>3, <2>4, <2>5
<1>3. Conserved <=> /\ places \cup Range(free) = Block \cup heap
                    /\ \A b \in Range(free) : ext[b] = NotInCache
  BY DEF Conserved
<1> HIDE DEF T, places
<1> QED BY <1>2, <1>3 DEF AllHome

\* The inductive invariant, and the same of the next state, block by block.
LEMMA IndInvByHome ==
    /\ IndInv <=> /\ TypeOK /\ Guarded /\ Local /\ Lists /\ OneHome /\ AllHome
                  /\ \A b \in Range(free) : ext[b] = NotInCache
    /\ IndInv' <=> /\ TypeOK' /\ Guarded' /\ Local' /\ Lists' /\ OneHome' /\ AllHome'
                   /\ (\A b \in Range(free) : ext[b] = NotInCache)'
<1>1. IndInv <=> /\ TypeOK /\ Guarded /\ Local /\ Lists /\ OneHome /\ AllHome
                 /\ \A b \in Range(free) : ext[b] = NotInCache
  BY ExclusiveByHome, ConservedByHome DEF IndInv
<1> QED BY <1>1, PTL

\* Blocks that are given a new place each, while all the others stay.
LEMMA Relocated ==
    ASSUME OneHome, AllHome, NEW X,
           \A b, k, u : b \notin X => (In(b, k, u)' <=> In(b, k, u)),
           \A b \in X : \E l, v : \A k, u : In(b, k, u)' <=> k = l /\ u = v,
           X \subseteq Block \cup heap', heap \ X = heap' \ X
    PROVE  OneHome' /\ AllHome'
<1>1. ASSUME NEW b, NEW k, NEW l, NEW u, NEW v, In(b, k, u)', In(b, l, v)'
      PROVE  k = l /\ u = v
  BY <1>1 DEF OneHome
<1>2. ASSUME NEW b PROVE (\E k, u : In(b, k, u)') <=> b \in Block \cup heap'
  <2>1. CASE b \in X
    BY <2>1
  <2>2. CASE b \notin X
    BY <2>2 DEF AllHome
  <2> QED BY <2>1, <2>2
<1> QED BY <1>1, <1>2 DEF OneHome, AllHome

\* Block x moves to place l of thread v, and no other block moves.
Move(x, l, v) ==
    /\ \A b, k, u : b # x => (In(b, k, u)' <=> In(b, k, u))
    /\ \A k, u : In(x, k, u)' <=> k = l /\ u = v
    /\ x \in Block \cup heap'
    /\ heap \ {x} = heap' \ {x}

\* One block that moves.
LEMMA Moved ==
    ASSUME OneHome, AllHome, NEW x, NEW l, NEW v, Move(x, l, v)
    PROVE  OneHome' /\ AllHome'
<1>1. \A b, k, u : b \notin {x} => (In(b, k, u)' <=> In(b, k, u))
  BY DEF Move
<1>2. \A b \in {x} : \E m, w : \A k, u : In(b, k, u)' <=> k = m /\ u = w
  BY DEF Move
<1>3. {x} \subseteq Block \cup heap' /\ heap \ {x} = heap' \ {x}
  BY DEF Move
<1> QED BY <1>1, <1>2, <1>3, Relocated

\* Steps that move no block.
LEMMA Stayed ==
    ASSUME OneHome, AllHome, \A b, k, u : In(b, k, u)' <=> In(b, k, u), heap' = heap
    PROVE  OneHome' /\ AllHome'
BY DEF OneHome, AllHome

\* A block that is at one place is at no other.
LEMMA OnlyHome ==
    ASSUME OneHome, NEW x, NEW k, NEW v, In(x, k, v)
    PROVE  /\ x \in Range(free) => k = "free"
           /\ x \in user => k = "user"
           /\ x \in lost => k = "lost"
           /\ \A u \in Thread : /\ x \in Range(cache[u]) => k = "cache" /\ u = v
                                /\ x \in Range(batch[u]) => k = "batch" /\ u = v
                                /\ x \in Returning(u) => k = "return" /\ u = v
<1>1. x \in Range(free) => In(x, "free", NoThread)
  BY DEF In
<1>2. x \in user => In(x, "user", NoThread)
  BY DEF In
<1>3. x \in lost => In(x, "lost", NoThread)
  BY DEF In
<1>4. \A u \in Thread : /\ x \in Range(cache[u]) => In(x, "cache", u)
                        /\ x \in Range(batch[u]) => In(x, "batch", u)
                        /\ x \in Returning(u) => In(x, "return", u)
  BY DEF In
<1> QED BY <1>1, <1>2, <1>3, <1>4 DEF OneHome
-----------------------------------------------------------------------------
(* One lemma per step.                                                     *)

Known == /\ TypeOK /\ Guarded /\ Local /\ Lists /\ OneHome /\ AllHome
         /\ \A b \in Range(free) : ext[b] = NotInCache

\* A pop takes the top.
LEMMA Popped ==
    ASSUME NEW S, NEW s \in Seq(S), s # <<>>, IsInjective(s)
    PROVE  /\ Pop(s) \in Seq(S) /\ Len(Pop(s)) = Len(s) - 1 /\ IsInjective(Pop(s))
           /\ Top(s) \in S /\ Top(s) \in Range(s) /\ Range(Pop(s)) = Range(s) \ {Top(s)}
<1>1. Pop(s) = SubSeq(s, 1, Len(s) - 1)
  <2>1. Len(s) \in Nat \ {0} /\ Len(s) - 1 \in 0 .. Len(s)
    OBVIOUS
  <2> QED BY <2>1 DEF Pop
<1>2. Top(s) \in S
  BY DEF Top
<1> QED BY <1>1, <1>2, PopList DEF Top

\* The block on top of a thread's cache goes to the caller.
LEMMA CacheAllocStep ==
    ASSUME Known, NEW t \in Thread, CacheAlloc(t)
    PROVE  Known'
<1>0. PICK x : x = Top(cache[t])
  OBVIOUS
<1>1. /\ cache[t] \in Seq(AnyBlock) /\ cache[t] # <<>> /\ IsInjective(cache[t])
  BY DEF Known, TypeOK, Lists, CacheAlloc
<1>2. /\ Pop(cache[t]) \in Seq(AnyBlock) /\ Len(Pop(cache[t])) = Len(cache[t]) - 1
      /\ IsInjective(Pop(cache[t])) /\ x \in AnyBlock /\ x \in Range(cache[t])
      /\ Range(Pop(cache[t])) = Range(cache[t]) \ {x}
  BY <1>0, <1>1, Popped
<1>3. In(x, "cache", t)
  BY <1>2 DEF In
<1>4. /\ cache' = [cache EXCEPT ![t] = Pop(cache[t])] /\ ext' = [ext EXCEPT ![x] = t]
      /\ user' = user \cup {x} /\ count' = [count EXCEPT ![t] = @ - 1]
      /\ UNCHANGED <<free, guard, heap, lost, pc, batch, block>>
  BY <1>0 DEF CacheAlloc, local
<1>5. \A u \in Thread : Returning(u)' = Returning(u)
  BY <1>4 DEF Returning
<1>6. TypeOK'
  BY <1>2, <1>4 DEF TypeOK, Known, Local
<1>7. Guarded' /\ Local'
  BY <1>2, <1>4, <1>5 DEF Guarded, Local, Known, TypeOK
<1>8. Lists'
  BY <1>2, <1>4 DEF Lists, Known, TypeOK
<1>11. /\ x \notin Range(free) /\ x \notin user /\ x \notin lost
       /\ \A u \in Thread : /\ x \notin Range(batch[u]) /\ x \notin Returning(u)
                            /\ x \in Range(cache[u]) => u = t
  BY <1>3, OnlyHome DEF Known
<1>9. OneHome' /\ AllHome'
  <2>1. \A b, k, u : b # x => (In(b, k, u)' <=> In(b, k, u))
    BY <1>2, <1>4, <1>5 DEF In, Known, TypeOK
  <2>2. \A k, u : In(x, k, u)' <=> k = "user" /\ u = NoThread
    BY <1>2, <1>4, <1>5, <1>11 DEF In, Known, TypeOK
  <2>3. x \in Block \cup heap'
    BY <1>3, <1>4 DEF Known, AllHome
  <2>4. Move(x, "user", NoThread)
    BY <1>4, <2>1, <2>2, <2>3 DEF Move
  <2> QED BY <2>4, Moved DEF Known
<1>10. (\A b \in Range(free) : ext[b] = NotInCache)'
  BY <1>4, <1>11, RangeOfList DEF Known, TypeOK, AnyBlock
<1> QED BY <1>6, <1>7, <1>8, <1>9, <1>10 DEF Known

\* Steps that leave every list of blocks as it is.
LEMMA Still ==
    ASSUME Known, UNCHANGED <<free, heap, cache, user, lost, ext, batch>>,
           \A u \in Thread : Returning(u)' = Returning(u)
    PROVE  /\ Lists' /\ OneHome' /\ AllHome'
           /\ (\A b \in Range(free) : ext[b] = NotInCache)'
<1>1. \A b, k, u : In(b, k, u)' <=> In(b, k, u)
  BY DEF In
<1>2. OneHome' /\ AllHome'
  BY <1>1, Stayed DEF Known
<1>3. Lists' /\ (\A b \in Range(free) : ext[b] = NotInCache)'
  BY DEF Lists, Known
<1> QED BY <1>2, <1>3

\* An allocation begins.
LEMMA BeginStep ==
    ASSUME Known, NEW t \in Thread, PoolAlloc(t) \/ Malloc(t)
    PROVE  Known'
<1>1. UNCHANGED <<free, heap, cache, count, user, lost, ext, batch, guard, block>>
  <2>1. CASE PoolAlloc(t)
    <3>1. batch[t] = <<>>
      BY <2>1 DEF PoolAlloc, Known, Local
    <3>2. batch \in [Thread -> Seq(AnyBlock)]
      BY DEF Known, TypeOK
    <3> QED BY <2>1, <3>1, <3>2 DEF PoolAlloc
  <2> QED BY <2>1 DEF Malloc
<1>2. /\ pc \in [Thread -> Phase] /\ pc[t] = "idle"
      /\ pc' = [pc EXCEPT ![t] = "lock"] \/ pc' = [pc EXCEPT ![t] = "mlock"]
  BY DEF PoolAlloc, Malloc, Known, TypeOK
<1>3. TypeOK'
  BY <1>1, <1>2 DEF Known, TypeOK, Phase
<1>4. \A u \in Thread : Returning(u)' = Returning(u)
  BY <1>1, <1>2 DEF Returning
<1>5. Guarded' /\ Local'
  BY <1>1, <1>2, <1>4 DEF Known, Guarded, Local
<1> QED BY <1>1, <1>3, <1>4, <1>5, Still DEF Known

\* The spinlock is taken.
LEMMA LockStep ==
    ASSUME Known, NEW t \in Thread, Lock(t)
    PROVE  Known'
<1>1. UNCHANGED <<free, heap, cache, count, user, lost, ext, batch, block>>
  BY DEF Lock
<1>2. /\ pc \in [Thread -> Phase] /\ guard = NoThread /\ guard' = t
      /\ \/ pc[t] = "lock" /\ pc' = [pc EXCEPT ![t] = "load"]
         \/ pc[t] = "freelock" /\ pc' = [pc EXCEPT ![t] = "push"]
         \/ pc[t] = "mlock" /\ pc' = [pc EXCEPT ![t] = "mload"]
  <2>1. DOMAIN Locked = {"lock", "freelock", "mlock"}
    BY DEF Locked
  <2>2. Locked["lock"] = "load" /\ Locked["freelock"] = "push" /\ Locked["mlock"] = "mload"
    BY DEF Locked
  <2>3. /\ pc[t] \in DOMAIN Locked /\ guard = NoThread /\ guard' = t
        /\ pc' = [pc EXCEPT ![t] = Locked[pc[t]]]
    BY DEF Lock
  <2> QED BY <2>1, <2>2, <2>3 DEF Known, TypeOK
<1>3. TypeOK'
  BY <1>1, <1>2 DEF Known, TypeOK, Phase
<1>4. \A u \in Thread : Returning(u)' = Returning(u)
  BY <1>1, <1>2 DEF Returning
<1>5. Guarded' /\ Local'
  BY <1>1, <1>2, <1>4 DEF Known, Guarded, Local
<1> QED BY <1>1, <1>3, <1>4, <1>5, Still DEF Known

\* The holder of the lock looks at the free list.
LEMMA LoadStep ==
    ASSUME Known, NEW t \in Thread, BatchLoad(t) \/ PoolMalloc(t)
    PROVE  Known'
<1>1. UNCHANGED <<free, heap, cache, count, user, lost, ext, batch>>
  BY DEF BatchLoad, PoolMalloc
<1>2. /\ pc \in [Thread -> Phase] /\ block \in [Thread -> AnyBlock \cup {NoBlock}]
      /\ free # <<>> => Top(free) \in AnyBlock
  BY DEF Known, TypeOK, Top, AnyBlock
<1>3. \/ /\ free # <<>> /\ block' = [block EXCEPT ![t] = Top(free)] /\ guard' = guard
         /\ \/ pc[t] = "load" /\ pc' = [pc EXCEPT ![t] = "pop"]
            \/ pc[t] = "mload" /\ pc' = [pc EXCEPT ![t] = "mpop"]
      \/ /\ guard' = NoThread /\ block' = block
         /\ \/ pc[t] = "load" /\ pc' = [pc EXCEPT ![t] = "fallback"]
            \/ pc[t] = "mload" /\ pc' = [pc EXCEPT ![t] = "malloc"]
  BY DEF BatchLoad, PoolMalloc
<1>4. TypeOK'
  BY <1>1, <1>2, <1>3 DEF Known, TypeOK, Phase
<1>5. \A u \in Thread : Returning(u)' = Returning(u)
  BY <1>2, <1>3 DEF Returning
<1>6. Guarded'
  BY <1>1, <1>2, <1>3 DEF Known, Guarded
<1>7. Local'
  BY <1>1, <1>2, <1>3, <1>5 DEF Known, Local
<1> QED BY <1>1, <1>4, <1>5, <1>6, <1>7, Still DEF Known

\* What the lemmas about a moving block conclude from.
LEMMA MovedKnown ==
    ASSUME Known, TypeOK', Guarded', Local', Lists',
           NEW x, NEW l, NEW v, Move(x, l, v),
           (\A b \in Range(free) : ext[b] = NotInCache)'
    PROVE  Known'
BY Moved DEF Known

\* BlockStore::Alloc: the top of the free list goes to the batch or the caller.
LEMMA PopStep ==
    ASSUME Known, NEW t \in Thread, BatchPop(t) \/ PoolMallocPop(t)
    PROVE  Known'
<1>0. PICK x : x = block[t]
  OBVIOUS
<1>1. /\ free \in Seq(Block) /\ free # <<>> /\ IsInjective(free) /\ x = Top(free)
      /\ pc[t] \in {"pop", "mpop"} /\ guard = t
  BY <1>0 DEF Known, TypeOK, Lists, Guarded, BatchPop, PoolMallocPop
<1>2. /\ Pop(free) \in Seq(Block) /\ IsInjective(Pop(free)) /\ x \in Block
      /\ x \in Range(free) /\ Range(Pop(free)) = Range(free) \ {x}
  BY <1>1, Popped
<1>3. In(x, "free", NoThread)
  BY <1>2 DEF In
<1>4. /\ x \notin user /\ x \notin lost
      /\ \A u \in Thread : /\ x \notin Range(batch[u]) /\ x \notin Returning(u)
                           /\ x \notin Range(cache[u])
  BY <1>3, OnlyHome DEF Known
<1>5. /\ pc \in [Thread -> Phase] /\ block \in [Thread -> AnyBlock \cup {NoBlock}]
      /\ batch \in [Thread -> Seq(AnyBlock)] /\ user \subseteq AnyBlock
      /\ ext \in [AnyBlock -> Thread \cup {NotInCache}] /\ x \in AnyBlock
  BY <1>2 DEF Known, TypeOK, AnyBlock
<1>6. (\A b \in Range(Pop(free)) : ext[b] = NotInCache)
  BY <1>2 DEF Known
<1>7. CASE BatchPop(t)
  <2>1. /\ pc[t] = "pop" /\ free' = Pop(free) /\ batch' = [batch EXCEPT ![t] = Append(@, x)]
        /\ block' = [block EXCEPT ![t] = NoBlock] /\ pc' = [pc EXCEPT ![t] = "load"]
        /\ UNCHANGED <<guard, heap, cache, count, ext, user, lost>>
    BY <1>0, <1>7 DEF BatchPop
  <2>2. /\ Append(batch[t], x) \in Seq(AnyBlock) /\ IsInjective(Append(batch[t], x))
        /\ Range(Append(batch[t], x)) = Range(batch[t]) \cup {x}
    BY <1>4, <1>5, PushList DEF Known, Lists
  <2>3. TypeOK'
    BY <1>2, <1>5, <2>1, <2>2 DEF Known, TypeOK, Phase
  <2>4. \A u \in Thread : Returning(u)' = Returning(u)
    BY <1>5, <2>1 DEF Returning
  <2>5. Guarded' /\ Local'
    BY <1>1, <1>5, <2>1, <2>4 DEF Known, Guarded, Local
  <2>6. Lists'
    BY <1>2, <1>5, <2>1, <2>2 DEF Known, Lists
  <2>7. \A b, k, u : b # x => (In(b, k, u)' <=> In(b, k, u))
    BY <1>2, <1>5, <2>1, <2>2, <2>4 DEF In
  <2>8. \A k, u : In(x, k, u)' <=> k = "batch" /\ u = t
    BY <1>2, <1>4, <1>5, <2>1, <2>2, <2>4 DEF In
  <2>9. Move(x, "batch", t)
    BY <1>2, <2>1, <2>7, <2>8 DEF Move
  <2> QED BY <1>6, <2>1, <2>3, <2>5, <2>6, <2>9, MovedKnown
<1>8. CASE PoolMallocPop(t)
  <2>1. /\ pc[t] = "mpop" /\ free' = Pop(free) /\ user' = user \cup {x}
        /\ block' = [block EXCEPT ![t] = NoBlock] /\ pc' = [pc EXCEPT ![t] = "idle"]
        /\ guard' = NoThread
        /\ UNCHANGED <<heap, cache, count, ext, lost, batch>>
    BY <1>0, <1>8 DEF PoolMallocPop
  <2>2. TypeOK'
    BY <1>2, <1>5, <2>1 DEF Known, TypeOK, Phase
  <2>3. \A u \in Thread : Returning(u)' = Returning(u)
    BY <1>5, <2>1 DEF Returning
  <2>4. Guarded' /\ Local'
    BY <1>1, <1>5, <2>1, <2>3 DEF Known, Guarded, Local
  <2>5. Lists'
    BY <1>2, <2>1 DEF Known, Lists
  <2>6. \A b, k, u : b # x => (In(b, k, u)' <=> In(b, k, u))
    BY <1>2, <2>1, <2>3 DEF In
  <2>7. \A k, u : In(x, k, u)' <=> k = "user" /\ u = NoThread
    BY <1>2, <1>4, <2>1, <2>3 DEF In
  <2>8. Move(x, "user", NoThread)
    BY <1>2, <2>1, <2>6, <2>7 DEF Move
  <2> QED BY <1>6, <2>1, <2>2, <2>4, <2>5, <2>8, MovedKnown
<1> QED BY <1>7, <1>8

\* A malloced block is new: it is at no place yet.
LEMMA NewBlock ==
    ASSUME Known, NEW x \in SysBlock \ heap
    PROVE  /\ x \notin user /\ x \notin lost /\ x \notin Range(free)
           /\ \A u \in Thread : /\ x \notin Range(batch[u]) /\ x \notin Returning(u)
                                /\ x \notin Range(cache[u])
<1>1. \A k, u : ~ In(x, k, u)
  BY DEF Known, AllHome
<1>2. /\ ~ In(x, "user", NoThread) /\ ~ In(x, "lost", NoThread) /\ ~ In(x, "free", NoThread)
      /\ \A u \in Thread : /\ ~ In(x, "batch", u) /\ ~ In(x, "return", u)
                           /\ ~ In(x, "cache", u)
  BY <1>1
<1> QED BY <1>2 DEF In

\* The rest of a batch comes from malloc, or the batch is left as it is.
LEMMA FallbackStep ==
    ASSUME Known, NEW t \in Thread, BatchFallback(t)
    PROVE  Known'
<1>1. /\ pc \in [Thread -> Phase] /\ batch \in [Thread -> Seq(AnyBlock)]
      /\ UNCHANGED <<free, guard, cache, count, ext, user, lost, block>> /\ pc[t] = "fallback"
  BY DEF BatchFallback, Known, TypeOK
<1>2. CASE pc' = [pc EXCEPT ![t] = "fill"] /\ UNCHANGED <<heap, batch>>
  <2>1. TypeOK'
    BY <1>1, <1>2 DEF Known, TypeOK, Phase
  <2>2. \A u \in Thread : Returning(u)' = Returning(u)
    BY <1>1, <1>2 DEF Returning
  <2>3. Guarded' /\ Local'
    BY <1>1, <1>2, <2>2 DEF Known, Guarded, Local
  <2> QED BY <1>1, <1>2, <2>1, <2>2, <2>3, Still DEF Known
<1>3. ASSUME NEW x \in SysBlock \ heap, heap' = heap \cup {x},
             batch' = [batch EXCEPT ![t] = Append(@, x)], pc' = pc
      PROVE  Known'
  <2>1. /\ x \notin user /\ x \notin lost /\ x \notin Range(free)
        /\ \A u \in Thread : /\ x \notin Range(batch[u]) /\ x \notin Returning(u)
                             /\ x \notin Range(cache[u])
    BY NewBlock
  <2>2. /\ Append(batch[t], x) \in Seq(AnyBlock) /\ IsInjective(Append(batch[t], x))
        /\ Range(Append(batch[t], x)) = Range(batch[t]) \cup {x}
    <3>1. batch[t] \in Seq(AnyBlock) /\ x \in AnyBlock /\ IsInjective(batch[t])
      BY <1>1 DEF AnyBlock, Known, Lists
    <3> QED BY <2>1, <3>1, PushList
  <2>3. TypeOK'
    BY <1>1, <1>3, <2>2 DEF Known, TypeOK
  <2>4. \A u \in Thread : Returning(u)' = Returning(u)
    BY <1>1, <1>3 DEF Returning
  <2>5. Guarded' /\ Local'
    BY <1>1, <1>3, <2>4 DEF Known, Guarded, Local
  <2>6. Lists'
    BY <1>1, <1>3, <2>2 DEF Known, Lists
  <2>7. \A b, k, u : b # x => (In(b, k, u)' <=> In(b, k, u))
    BY <1>1, <1>3, <2>2, <2>4 DEF In
  <2>8. \A k, u : In(x, k, u)' <=> k = "batch" /\ u = t
    BY <1>1, <1>3, <2>1, <2>2, <2>4 DEF In
  <2>9. Move(x, "batch", t)
    BY <1>3, <2>7, <2>8 DEF Move
  <2>10. (\A b \in Range(free) : ext[b] = NotInCache)'
    BY <1>1 DEF Known
  <2> QED BY <2>3, <2>5, <2>6, <2>9, <2>10, MovedKnown
<1> QED BY <1>1, <1>2, <1>3 DEF BatchFallback

\* The first block of the batch goes to the caller, the others to the cache.
LEMMA FillStep ==
    ASSUME Known, NEW t \in Thread, FillCache(t)
    PROVE  Known'
<1>1. /\ pc \in [Thread -> Phase] /\ batch \in [Thread -> Seq(AnyBlock)]
      /\ cache \in [Thread -> Seq(AnyBlock)]
      /\ UNCHANGED <<free, guard, heap, lost, block>> /\ pc[t] = "fill"
      /\ pc' = [pc EXCEPT ![t] = "idle"] /\ batch' = [batch EXCEPT ![t] = <<>>]
  BY DEF FillCache, Known, TypeOK
<1>2. \A u \in Thread : Returning(u)' = Returning(u)
  BY <1>1 DEF Returning
<1>3. CASE batch[t] = <<>>
  <2>1. batch' = batch
    BY <1>1, <1>3
  <2>2. UNCHANGED <<cache, count, ext, user>>
    BY <1>3 DEF FillCache
  <2>3. TypeOK'
    BY <1>1, <2>1, <2>2 DEF Known, TypeOK, Phase
  <2>4. Guarded' /\ Local'
    BY <1>1, <1>2, <1>3, <2>1, <2>2 DEF Known, Guarded, Local
  <2> QED BY <1>1, <1>2, <2>1, <2>2, <2>3, <2>4, Still DEF Known
<1>4. CASE batch[t] # <<>>
  <2>0. PICK x, r : x = Head(batch[t]) /\ r = Tail(batch[t])
    OBVIOUS
  <2>1. /\ cache[t] \in Seq(AnyBlock) /\ batch[t] \in Seq(AnyBlock)
        /\ IsInjective(cache[t]) /\ IsInjective(batch[t])
    BY <1>1 DEF Known, Lists
  <2>2. /\ r \in Seq(AnyBlock) /\ x \in AnyBlock /\ x \in Range(batch[t])
        /\ Len(r) = Len(batch[t]) - 1
        /\ Range(batch[t]) = {x} \cup Range(r) /\ x \notin Range(r) /\ IsInjective(r)
    BY <1>4, <2>0, <2>1, HeadTail
  <2>3. ASSUME NEW b \in Range(batch[t])
        PROVE  /\ b \notin user /\ b \notin lost /\ b \notin Range(free)
               /\ \A u \in Thread : /\ b \notin Range(cache[u]) /\ b \notin Returning(u)
                                    /\ b \in Range(batch[u]) => u = t
    <3>1. In(b, "batch", t)
      BY DEF In
    <3> QED BY <3>1, OnlyHome DEF Known
  <2>4. /\ cache[t] \o r \in Seq(AnyBlock) /\ IsInjective(cache[t] \o r)
        /\ Len(cache[t] \o r) = Len(cache[t]) + Len(r)
        /\ Range(cache[t] \o r) = Range(cache[t]) \cup Range(r)
    <3>1. Range(cache[t]) \cap Range(r) = {}
      BY <2>2, <2>3
    <3>2. PICK c : c = cache[t]
      OBVIOUS
    <3>3. /\ c \in Seq(AnyBlock) /\ r \in Seq(AnyBlock) /\ IsInjective(c)
          /\ IsInjective(r) /\ Range(c) \cap Range(r) = {}
      BY <2>1, <2>2, <3>1, <3>2
    <3>4. /\ c \o r \in Seq(AnyBlock) /\ IsInjective(c \o r)
          /\ Len(c \o r) = Len(c) + Len(r) /\ Range(c \o r) = Range(c) \cup Range(r)
      BY <3>3, JoinLists
    <3> QED BY <3>2, <3>4
  <2>5. /\ cache' = [cache EXCEPT ![t] = cache[t] \o r] /\ user' = user \cup {x}
        /\ count' = [count EXCEPT ![t] = @ + Len(batch[t]) - 1]
        /\ ext' = [ext EXCEPT ![x] = t]
    BY <1>4, <2>0 DEF FillCache
  <2>6. /\ count \in [Thread -> Nat] /\ Len(batch[t]) \in Nat \ {0}
        /\ count[t] = Len(cache[t])
    BY <1>4, <2>1 DEF Known, TypeOK, Local
  <2>7. TypeOK'
    <3>1. cache' \in [Thread -> Seq(AnyBlock)]
      BY <1>1, <2>4, <2>5
    <3>2. count' \in [Thread -> Nat]
      <4>1. count[t] + Len(batch[t]) - 1 \in Nat
        <5>1. count[t] \in Nat /\ Len(batch[t]) \in Nat \ {0}
          BY <2>6
        <5> QED BY <5>1
      <4>2. count' = [count EXCEPT ![t] = count[t] + Len(batch[t]) - 1]
        BY <2>5
      <4> QED BY <2>6, <4>1, <4>2
    <3>3. pc' \in [Thread -> Phase] /\ batch' \in [Thread -> Seq(AnyBlock)]
      BY <1>1 DEF Phase
    <3> QED BY <1>1, <2>2, <2>5, <3>1, <3>2, <3>3 DEF Known, TypeOK
  <2>8. Guarded'
    BY <1>1 DEF Known, Guarded
  <2>9. Local'
    <3>1. count'[t] = Len(cache'[t])
      BY <1>1, <2>1, <2>2, <2>4, <2>5, <2>6
    <3>2. \A u \in Thread \ {t} : count'[u] = count[u] /\ cache'[u] = cache[u]
      BY <1>1, <2>5, <2>6
    <3>3. \A u \in Thread : count'[u] = Len(cache'[u])
      BY <3>1, <3>2 DEF Known, Local
    <3> QED BY <1>1, <1>2, <3>3 DEF Known, Local
  <2>10. Lists'
    BY <1>1, <2>4, <2>5, EmptyList DEF Known, Lists
  <2>11. OneHome' /\ AllHome'
    <3>0. PICK X : X = Range(batch[t])
      OBVIOUS
    <3>1. \A b, k, u : b \notin X => (In(b, k, u)' <=> In(b, k, u))
      BY <1>1, <1>2, <2>2, <2>4, <2>5, <3>0, EmptyList DEF In
    <3>2. \A k, u : In(x, k, u)' <=> k = "user" /\ u = NoThread
      BY <1>1, <1>2, <2>2, <2>3, <2>4, <2>5, EmptyList DEF In
    <3>3. \A b \in Range(r) : \A k, u : In(b, k, u)' <=> k = "cache" /\ u = t
      BY <1>1, <1>2, <2>2, <2>3, <2>4, <2>5, EmptyList DEF In
    <3>4. \A b \in X : \E l, v : \A k, u : In(b, k, u)' <=> k = l /\ u = v
      <4> TAKE b \in X
      <4>1. CASE b = x
        BY <3>2, <4>1
      <4>2. CASE b \in Range(r)
        BY <3>3, <4>2
      <4> QED BY <2>2, <3>0, <4>1, <4>2
    <3>5. X \subseteq Block \cup heap'
      <4> SUFFICES ASSUME NEW b \in X PROVE b \in Block \cup heap'
        OBVIOUS
      <4>1. In(b, "batch", t)
        BY <3>0 DEF In
      <4> QED BY <1>1, <4>1 DEF Known, AllHome
    <3>6. OneHome /\ AllHome /\ heap \ X = heap' \ X
      BY <1>1 DEF Known
    <3> QED BY <3>1, <3>4, <3>5, <3>6, Relocated
  <2>12. (\A b \in Range(free) : ext[b] = NotInCache)'
    <3>1. x \notin Range(free) /\ Range(free) \subseteq AnyBlock
      BY <2>2, <2>3, RangeOfList DEF Known, TypeOK, AnyBlock
    <3> QED BY <1>1, <2>5, <3>1 DEF Known, TypeOK
  <2> QED BY <2>7, <2>8, <2>9, <2>10, <2>11, <2>12 DEF Known
<1> QED BY <1>3, <1>4

\* A request that no store serves gets a malloced block, or nothing.
LEMMA SysMallocStep ==
    ASSUME Known, NEW t \in Thread, SysMalloc(t)
    PROVE  Known'
<1>1. /\ pc \in [Thread -> Phase] /\ pc[t] = "malloc" /\ pc' = [pc EXCEPT ![t] = "idle"]
      /\ UNCHANGED <<free, guard, cache, count, lost, batch, block>>
  BY DEF SysMalloc, Known, TypeOK
<1>2. \A u \in Thread : Returning(u)' = Returning(u)
  BY <1>1 DEF Returning
<1>3. Guarded' /\ Local'
  BY <1>1, <1>2 DEF Known, Guarded, Local
<1>4. CASE UNCHANGED <<heap, ext, user>>
  <2>1. TypeOK'
    BY <1>1, <1>4 DEF Known, TypeOK, Phase
  <2> QED BY <1>1, <1>2, <1>3, <1>4, <2>1, Still DEF Known
<1>5. ASSUME NEW x \in SysBlock \ heap, heap' = heap \cup {x}, user' = user \cup {x},
             ext' = [ext EXCEPT ![x] = NotInCache]
      PROVE  Known'
  <2>1. /\ x \notin user /\ x \notin lost /\ x \notin Range(free)
        /\ \A u \in Thread : /\ x \notin Range(batch[u]) /\ x \notin Returning(u)
                             /\ x \notin Range(cache[u])
    BY NewBlock
  <2>2. x \in AnyBlock
    BY DEF AnyBlock
  <2>3. TypeOK'
    BY <1>1, <1>5, <2>2 DEF Known, TypeOK, Phase, NotInCache
  <2>4. Lists'
    BY <1>1 DEF Known, Lists
  <2>5. \A b, k, u : b # x => (In(b, k, u)' <=> In(b, k, u))
    BY <1>1, <1>2, <1>5 DEF In
  <2>6. \A k, u : In(x, k, u)' <=> k = "user" /\ u = NoThread
    BY <1>1, <1>2, <1>5, <2>1 DEF In
  <2>7. Move(x, "user", NoThread)
    BY <1>5, <2>5, <2>6 DEF Move
  <2>8. (\A b \in Range(free) : ext[b] = NotInCache)'
    <3>1. Range(free) \subseteq AnyBlock
      BY RangeOfList DEF Known, TypeOK, AnyBlock
    <3> QED BY <1>1, <1>5, <2>1, <3>1 DEF Known, TypeOK
  <2> QED BY <1>3, <2>3, <2>4, <2>7, <2>8, MovedKnown
<1> QED BY <1>4, <1>5 DEF SysMalloc

\* A block that a user has is nowhere else.
LEMMA UserBlock ==
    ASSUME Known, NEW x \in user
    PROVE  /\ x \in Block \cup heap /\ x \in AnyBlock
           /\ x \notin lost /\ x \notin Range(free)
           /\ \A u \in Thread : /\ x \notin Range(batch[u]) /\ x \notin Returning(u)
                                /\ x \notin Range(cache[u])
<1>1. In(x, "user", NoThread)
  BY DEF In
<1>2. x \in Block \cup heap
  BY <1>1 DEF Known, AllHome
<1>3. x \in AnyBlock
  BY DEF Known, TypeOK
<1> QED BY <1>1, <1>2, <1>3, OnlyHome DEF Known

\* A freed block enters the cache of the thread that frees it.
LEMMA FreeToCacheStep ==
    ASSUME Known, NEW t \in Thread, NEW x \in AnyBlock, FreeToCache(t, x)
    PROVE  Known'
<1>1. /\ cache' = [cache EXCEPT ![t] = Append(@, x)] /\ count' = [count EXCEPT ![t] = @ + 1]
      /\ user' = user \ {x} /\ x \in user
      /\ UNCHANGED <<free, guard, heap, ext, lost, pc, batch, block>>
  BY DEF FreeToCache, local
<1>2. /\ x \in Block \cup heap /\ x \notin lost /\ x \notin Range(free)
      /\ \A u \in Thread : /\ x \notin Range(batch[u]) /\ x \notin Returning(u)
                           /\ x \notin Range(cache[u])
  BY <1>1, UserBlock
<1>3. /\ cache \in [Thread -> Seq(AnyBlock)] /\ count \in [Thread -> Nat]
      /\ count[t] = Len(cache[t]) /\ IsInjective(cache[t])
  BY DEF Known, TypeOK, Local, Lists
<1>4. /\ Append(cache[t], x) \in Seq(AnyBlock) /\ IsInjective(Append(cache[t], x))
      /\ Len(Append(cache[t], x)) = Len(cache[t]) + 1
      /\ Range(Append(cache[t], x)) = Range(cache[t]) \cup {x}
  BY <1>2, <1>3, PushList
<1>5. \A u \in Thread : Returning(u)' = Returning(u)
  BY <1>1 DEF Returning
<1>6. TypeOK'
  BY <1>1, <1>3, <1>4 DEF Known, TypeOK
<1>7. Guarded' /\ Local'
  BY <1>1, <1>3, <1>4, <1>5 DEF Known, Guarded, Local
<1>8. Lists'
  BY <1>1, <1>3, <1>4 DEF Known, Lists
<1>9. Move(x, "cache", t)
  <2>1. \A b, k, u : b # x => (In(b, k, u)' <=> In(b, k, u))
    BY <1>1, <1>3, <1>4, <1>5 DEF In
  <2>2. \A k, u : In(x, k, u)' <=> k = "cache" /\ u = t
    BY <1>1, <1>2, <1>3, <1>4, <1>5 DEF In
  <2> QED BY <1>1, <1>2, <2>1, <2>2 DEF Move
<1>10. (\A b \in Range(free) : ext[b] = NotInCache)'
  BY <1>1 DEF Known
<1> QED BY <1>6, <1>7, <1>8, <1>9, <1>10, MovedKnown

\* A freed malloced block leaves the program.
LEMMA FreeToSystemStep ==
    ASSUME Known, NEW t \in Thread, NEW x \in AnyBlock, FreeToSystem(t, x)
    PROVE  Known'
<1>1. /\ heap' = heap \ {x} /\ user' = user \ {x} /\ x \in user /\ x \in SysBlock
      /\ UNCHANGED <<free, guard, cache, count, ext, lost, pc, batch, block>>
  BY DEF FreeToSystem, local
<1>2. /\ x \in Block \cup heap /\ x \notin lost /\ x \notin Range(free)
      /\ \A u \in Thread : /\ x \notin Range(batch[u]) /\ x \notin Returning(u)
                           /\ x \notin Range(cache[u])
  BY <1>1, UserBlock
<1>3. \A u \in Thread : Returning(u)' = Returning(u)
  BY <1>1 DEF Returning
<1>4. TypeOK'
  BY <1>1 DEF Known, TypeOK
<1>5. Guarded' /\ Local' /\ Lists' /\ (\A b \in Range(free) : ext[b] = NotInCache)'
  BY <1>1, <1>3 DEF Known, Guarded, Local, Lists
<1>6. \A b, k, u : In(b, k, u)' <=> b # x /\ In(b, k, u)
  BY <1>1, <1>2, <1>3 DEF In
<1>7. OneHome'
  BY <1>6 DEF Known, OneHome
<1>8. AllHome'
  BY <1>1, <1>6 DEF Known, AllHome
<1> QED BY <1>4, <1>5, <1>7, <1>8 DEF Known

\* A freed block of the store waits for the lock ...
LEMMA FreeToStoreStep ==
    ASSUME Known, NEW t \in Thread, NEW x \in AnyBlock, FreeToStore(t, x)
    PROVE  Known'
<1>1. /\ pc[t] = "idle" /\ x \in user /\ x \in Block
      /\ block' = [block EXCEPT ![t] = x] /\ user' = user \ {x}
      /\ pc' = [pc EXCEPT ![t] = "freelock"]
      /\ UNCHANGED <<free, guard, heap, cache, count, ext, lost, batch>>
  BY DEF FreeToStore
<1>2. /\ x \notin lost /\ x \notin Range(free)
      /\ \A u \in Thread : /\ x \notin Range(batch[u]) /\ x \notin Returning(u)
                           /\ x \notin Range(cache[u])
  BY <1>1, UserBlock
<1>3. pc \in [Thread -> Phase] /\ block \in [Thread -> AnyBlock \cup {NoBlock}]
  BY DEF Known, TypeOK
<1>4. \A u \in Thread : Returning(u)' = IF u = t THEN {x} ELSE Returning(u)
  BY <1>1, <1>3 DEF Returning
<1>5. Returning(t) = {}
  BY <1>1 DEF Returning
<1>6. TypeOK'
  BY <1>1, <1>3 DEF Known, TypeOK, Phase
<1>7. Guarded' /\ Local'
  BY <1>1, <1>3, <1>4 DEF Known, Guarded, Local
<1>8. Lists' /\ (\A b \in Range(free) : ext[b] = NotInCache)'
  BY <1>1 DEF Known, Lists
<1>9. Move(x, "return", t)
  <2>1. \A b, k, u : b # x => (In(b, k, u)' <=> In(b, k, u))
    BY <1>1, <1>4, <1>5 DEF In
  <2>2. \A k, u : In(x, k, u)' <=> k = "return" /\ u = t
    BY <1>1, <1>2, <1>4 DEF In
  <2> QED BY <1>1, <2>1, <2>2 DEF Move
<1> QED BY <1>6, <1>7, <1>8, <1>9, MovedKnown

\* ... and is put on the free list, where it says NOT_IN_CACHE again.
LEMMA StoreFreeStep ==
    ASSUME Known, NEW t \in Thread, StoreFree(t)
    PROVE  Known'
<1>0. PICK x : x = block[t]
  OBVIOUS
<1>1. /\ pc[t] = "push" /\ ext' = [ext EXCEPT ![x] = NotInCache] /\ free' = Append(free, x)
      /\ block' = [block EXCEPT ![t] = NoBlock] /\ guard' = NoThread
      /\ pc' = [pc EXCEPT ![t] = "idle"]
      /\ UNCHANGED <<heap, cache, count, user, lost, batch>>
  BY <1>0 DEF StoreFree
<1>2. /\ pc \in [Thread -> Phase] /\ block \in [Thread -> AnyBlock \cup {NoBlock}]
      /\ ext \in [AnyBlock -> Thread \cup {NotInCache}] /\ free \in Seq(Block)
      /\ IsInjective(free) /\ guard = t
  BY <1>1 DEF Known, TypeOK, Lists, Guarded
<1>3. x \in Returning(t) /\ x \in Block /\ Returning(t) = {x}
  BY <1>0, <1>1 DEF Returning, Known, Local
<1>4. /\ x \notin user /\ x \notin lost /\ x \notin Range(free)
      /\ \A u \in Thread : /\ x \notin Range(batch[u]) /\ x \notin Range(cache[u])
                           /\ x \in Returning(u) => u = t
  <2>1. In(x, "return", t)
    BY <1>3 DEF In
  <2> QED BY <2>1, OnlyHome DEF Known
<1>5. /\ Append(free, x) \in Seq(Block) /\ IsInjective(Append(free, x))
      /\ Range(Append(free, x)) = Range(free) \cup {x}
  BY <1>2, <1>3, <1>4, PushList
<1>6. \A u \in Thread : Returning(u)' = IF u = t THEN {} ELSE Returning(u)
  BY <1>1, <1>2 DEF Returning
<1>7. TypeOK'
  BY <1>1, <1>2, <1>5 DEF Known, TypeOK, Phase
<1>8. Guarded' /\ Local'
  BY <1>1, <1>2, <1>6 DEF Known, Guarded, Local
<1>9. Lists'
  BY <1>1, <1>5 DEF Known, Lists
<1>10. Move(x, "free", NoThread)
  <2>1. \A b, k, u : b # x => (In(b, k, u)' <=> In(b, k, u))
    BY <1>1, <1>3, <1>5, <1>6 DEF In
  <2>2. \A k, u : In(x, k, u)' <=> k = "free" /\ u = NoThread
    BY <1>1, <1>4, <1>5, <1>6 DEF In
  <2> QED BY <1>1, <1>3, <2>1, <2>2 DEF Move
<1>11. (\A b \in Range(free) : ext[b] = NotInCache)'
  BY <1>1, <1>2, <1>3, <1>5, RangeOfList DEF Known, AnyBlock
<1> QED BY <1>7, <1>8, <1>9, <1>10, <1>11, MovedKnown

\* A thread exits and its cached blocks are lost.
LEMMA ThreadExitStep ==
    ASSUME Known, NEW t \in Thread, ThreadExit(t)
    PROVE  Known'
<1>0. PICK X : X = Range(cache[t])
  OBVIOUS
<1>1. /\ lost' = lost \cup X /\ cache' = [cache EXCEPT ![t] = <<>>]
      /\ count' = [count EXCEPT ![t] = 0]
      /\ UNCHANGED <<free, guard, heap, ext, user, pc, batch, block>>
  BY <1>0 DEF ThreadExit, local
<1>2. /\ cache \in [Thread -> Seq(AnyBlock)] /\ count \in [Thread -> Nat]
      /\ X \subseteq AnyBlock
  BY <1>0, RangeOfList DEF Known, TypeOK
<1>3. ASSUME NEW b \in X
      PROVE  /\ b \notin user /\ b \notin lost /\ b \notin Range(free)
             /\ b \in Block \cup heap
             /\ \A u \in Thread : /\ b \notin Range(batch[u]) /\ b \notin Returning(u)
                                  /\ b \in Range(cache[u]) => u = t
  <2>1. In(b, "cache", t)
    BY <1>0 DEF In
  <2> QED BY <2>1, OnlyHome DEF Known, AllHome
<1>4. \A u \in Thread : Returning(u)' = Returning(u)
  BY <1>1 DEF Returning
<1>5. TypeOK'
  BY <1>1, <1>2 DEF Known, TypeOK
<1>6. Guarded' /\ Local'
  BY <1>1, <1>2, <1>4 DEF Known, Guarded, Local
<1>7. Lists' /\ (\A b \in Range(free) : ext[b] = NotInCache)'
  BY <1>1, <1>2, EmptyList DEF Known, Lists
<1>8. OneHome' /\ AllHome'
  <2>1. \A b, k, u : b \notin X => (In(b, k, u)' <=> In(b, k, u))
    BY <1>0, <1>1, <1>2, <1>4, EmptyList DEF In
  <2>2. \A b \in X : \A k, u : In(b, k, u)' <=> k = "lost" /\ u = NoThread
    BY <1>1, <1>2, <1>3, <1>4, EmptyList DEF In
  <2>3. \A b \in X : \E l, v : \A k, u : In(b, k, u)' <=> k = l /\ u = v
    BY <2>2
  <2>4. X \subseteq Block \cup heap'
    BY <1>1, <1>3
  <2> QED BY <1>1, <2>1, <2>3, <2>4, Relocated DEF Known
<1> QED BY <1>5, <1>6, <1>7, <1>8 DEF Known
-----------------------------------------------------------------------------
(* The theorems.                                                           *)

\* BlockStore::Init lists every block of the store once.
LEMMA InitKnown == Init => IndInv
<1> SUFFICES ASSUME Init PROVE IndInv
  OBVIOUS
<1>1. Cardinality(Block) \in Nat
  BY FS_CardinalityType
<1>2. free \in [1 .. Cardinality(Block) -> Block] /\ Range(free) = Block
  BY DEF Init
<1>3. free \in Seq(Block)
  BY <1>1, <1>2
<1>4. IsInjective(free)
  <2>1. free \in Surjection(1 .. Cardinality(Block), Block)
    BY <1>2 DEF Surjection, Range
  <2>2. IsFiniteSet(1 .. Cardinality(Block)) /\ Cardinality(1 .. Cardinality(Block)) = Cardinality(Block)
    BY <1>1, FS_Interval
  <2>3. free \in Injection(1 .. Cardinality(Block), Block)
    BY <2>1, <2>2, FS_SurjSameCardinalityImpliesInj
  <2> QED BY <1>2, <2>3 DEF Injection, IsInjective
<1>5. Exclusive
  BY <1>4, EmptyList DEF Init, Exclusive, Returning
<1>6. Conserved
  <2>1. \A t \in Thread : Range(cache[t]) = {} /\ Range(batch[t]) = {} /\ Returning(t) = {}
    BY EmptyList DEF Init, Returning
  <2>2. user = {} /\ lost = {} /\ heap = {} /\ ext = [b \in AnyBlock |-> NotInCache]
    BY DEF Init
  <2> QED BY <1>2, <2>1, <2>2 DEF Conserved, AnyBlock
<1>7. Guarded /\ Local
  BY DEF Init, Guarded, Local, Returning
<1>8. TypeOK
  BY <1>3 DEF Init, TypeOK, Phase, NotInCache
<1> QED BY <1>5, <1>6, <1>7, <1>8 DEF IndInv

\* Every step of the allocator keeps the inductive invariant.
LEMMA NextKnown == IndInv /\ [Next]_vars => IndInv'
<1> SUFFICES ASSUME Known, [Next]_vars PROVE Known'
  BY IndInvByHome DEF Known
<1>1. ASSUME NEW t \in Thread, Begin(t) PROVE Known'
  BY <1>1, CacheAllocStep, BeginStep, ThreadExitStep, FreeToCacheStep,
     FreeToSystemStep, FreeToStoreStep DEF Begin
<1>2. ASSUME NEW t \in Thread, Continue(t) PROVE Known'
  BY <1>2, LockStep, LoadStep, PopStep, FallbackStep, FillStep, StoreFreeStep,
     SysMallocStep DEF Continue
<1>3. CASE UNCHANGED vars
  <2>1. /\ UNCHANGED <<free, heap, cache, user, lost, ext, batch>>
        /\ UNCHANGED <<guard, count, pc, block>>
    BY <1>3 DEF vars, local
  <2>2. \A u \in Thread : Returning(u)' = Returning(u)
    BY <2>1 DEF Returning
  <2>3. TypeOK' /\ Guarded' /\ Local'
    BY <2>1, <2>2 DEF Known, TypeOK, Guarded, Local
  <2> QED BY <2>1, <2>2, <2>3, Still DEF Known
<1> QED BY <1>1, <1>2, <1>3 DEF Next

\* The inductive invariant holds in every reachable state.
THEOREM PoolInvariance == Spec => []IndInv
BY InitKnown, NextKnown, PTL DEF Spec

\* CacheAlloc and BlockPool::Malloc never hand out memory that is in use, on the
\* free list or in the cache of another thread.
THEOREM BlocksExclusive == Spec => []Exclusive
<1>1. IndInv => Exclusive
  BY DEF IndInv
<1> QED BY <1>1, PoolInvariance, PTL

\* No block of the store is lost but with a thread that exits, and blocks of the
\* store say NOT_IN_CACHE.
THEOREM BlocksConserved == Spec => []Conserved
<1>1. IndInv => Conserved
  BY DEF IndInv
<1> QED BY <1>1, PoolInvariance, PTL
-----------------------------------------------------------------------------
(* The size class of a request.                                            *)

\* Every request gets the store with the smallest blocks that hold it: one
\* less and the caller would write past the end of its block.
THEOREM SmallestFit ==
    ASSUME NEW size \in Nat, Fitting(size) # {}
    PROVE  /\ GetStoreIndex(size) \in Fitting(size)
           /\ \A i \in Fitting(size) : GetStoreIndex(size) <= i
<1> DEFINE r == (size - 1) \div 64
<1>1. 0 < size /\ size <= 65536
  <2>1. PICK i \in Fitting(size) : TRUE
    OBVIOUS
  <2>2. i \in 0 .. 5 /\ 0 < size /\ size <= StoreSize[i]
    BY <2>1 DEF Fitting, StoreSize
  <2>3. StoreSize[i] <= 65536
    BY <2>2 DEF StoreSize, BlockBase, BlockMax
  <2>4. StoreSize[i] \in Nat
    BY <2>2 DEF StoreSize, BlockBase, BlockMax
  <2> QED BY <2>2, <2>3, <2>4
<1>2. CASE size <= 64
  BY <1>1, <1>2 DEF GetStoreIndex, Fitting, StoreSize, BlockBase, BlockMax
<1>3. CASE size > 64
  <2>1. r \in 1 .. 1023 /\ 64 * r <= size - 1 /\ size <= 64 * r + 64
    BY <1>1, <1>3
  <2>2. GetStoreIndex(size) = 1 + Shifts(r)
    BY <1>1, <1>3 DEF GetStoreIndex, BlockBase, BlockMax
  <2> HIDE DEF r
  <2>3. /\ r < 4 => Shifts(r) = 0
        /\ r >= 4 /\ r < 16 => Shifts(r) = 1
        /\ r >= 16 /\ r < 64 => Shifts(r) = 2
        /\ r >= 64 /\ r < 256 => Shifts(r) = 3
        /\ r >= 256 => Shifts(r) = 4
    BY <2>1 DEF Shifts
  <2>4. CASE r < 4
    BY <1>1, <1>3, <2>1, <2>2, <2>3, <2>4 DEF Fitting, StoreSize, BlockBase, BlockMax
  <2>5. CASE r >= 4 /\ r < 16
    BY <1>1, <1>3, <2>1, <2>2, <2>3, <2>5 DEF Fitting, StoreSize, BlockBase, BlockMax
  <2>6. CASE r >= 16 /\ r < 64
    BY <1>1, <1>3, <2>1, <2>2, <2>3, <2>6 DEF Fitting, StoreSize, BlockBase, BlockMax
  <2>7. CASE r >= 64 /\ r < 256
    BY <1>1, <1>3, <2>1, <2>2, <2>3, <2>7 DEF Fitting, StoreSize, BlockBase, BlockMax
  <2>8. CASE r >= 256
    BY <1>1, <1>3, <2>1, <2>2, <2>3, <2>8 DEF Fitting, StoreSize, BlockBase, BlockMax
  <2> QED BY <2>1, <2>4, <2>5, <2>6, <2>7, <2>8
<1> QED BY <1>2, <1>3

\* Only requests that no store can hold are sent to malloc.
THEOREM MallocOnlyIfTooLarge ==
    ASSUME NEW size \in Nat
    PROVE  GetStoreIndex(size) = InvalidStore <=> Fitting(size) = {}
<1>1. CASE Fitting(size) # {}
  <2>1. GetStoreIndex(size) \in 0 .. 5
    BY <1>1, SmallestFit DEF Fitting, StoreSize
  <2> QED BY <1>1, <2>1 DEF InvalidStore
<1>2. CASE Fitting(size) = {}
  <2>1. 5 \in DOMAIN StoreSize /\ StoreSize[5] = 65536
    BY DEF StoreSize, BlockBase, BlockMax
  <2>2. size = 0 \/ size > 65536
    BY <1>2, <2>1 DEF Fitting
  <2> QED BY <1>2, <2>2 DEF GetStoreIndex, BlockBase, BlockMax
<1> QED BY <1>1, <1>2
=============================================================================
