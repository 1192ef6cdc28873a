---------------------------- MODULE OpExecCache ----------------------------
(***************************************************************************)
(* The cache of recorded operator launches                                 *)
(* (src/nnopbase/common/utils/op_cache.cpp) and the executors that fill    *)
(* and use it (composite_op/aclnn_engine/op_executor.cpp).                 *)
(*                                                                         *)
(* An operator call has two phases.  Phase one, on the main thread, looks  *)
(* the call up in the thread's OpExecCacheManager: a hit returns a wrap    *)
(* around the recorded OpExecCache, a miss builds an executor that will    *)
(* record a new one.  Phase two, on the runner thread, runs the handle,    *)
(* makes a new recording usable and drops the handle.  Phase twos run in   *)
(* the order of their phase ones.  A garbage-collection thread per thread  *)
(* deletes the entries that are evicted.                                   *)
(*                                                                         *)
(* A call is identified by a 64-bit hash (container cache_) or by a key    *)
(* (container cache2_, kept in least-recently-used order), never by both.  *)
(***************************************************************************)
EXTENDS Integers, Sequences, FiniteSets, Functions

CONSTANTS
    Cache,       \* the OpExecCache objects that may be created
    Hash, Key,   \* identities of calls looked up in cache_ and in cache2_
    Limit,       \* cacheLimit_
    ShrinkNum,   \* K_CACHE_SHRINK_NUM
    GcCapacity,  \* values a LockFreeQueue holds
    MaxPending,  \* calls between phase one and phase two
    None

ASSUME LimitAssumption ==
    /\ Limit \in Nat /\ ShrinkNum \in Nat \ {0} /\ GcCapacity \in Nat
    /\ MaxPending \in Nat /\ 2 * MaxPending <= Limit - ShrinkNum + 3
    /\ IsFiniteSet(Hash) /\ Hash \cap Key = {} /\ None \notin Cache \cup Hash \cup Key

Queue == {"main", "runner", "gc"}   \* the threads that submit garbage

VARIABLES
    obj,       \* obj[c]: the OpExecCache objects
    table,     \* cache_: the object filed under a hash
    lru,       \* cache2_: objects, most recently used first
    useCount,  \* useCount_
    hasFull,   \* cacheHasFull_ of the main thread
    calls,     \* handles waiting for phase two, oldest first
    step,      \* progress of the runner on the oldest handle
    repeat,    \* objects owned by repeatable executors
    gc,        \* gc[q]: objects queued for deletion by thread q
    leaked,    \* objects whose queue entry was dropped undeleted
    clearing,  \* the main thread is in WaitCacheCompleteUse
    counting,  \* g_enableOpCacheCount
    unwaited,  \* history: some clearing went ahead of the uses
    freed      \* history: recordings deleted while a handle referred to them

manager == <<table, lru, hasFull>>
wait == <<clearing, counting, unwaited, freed>>
vars == <<obj, useCount, calls, step, repeat, gc, leaked, wait, manager>>

Ident == Hash \cup Key
Min(a, b) == IF a < b THEN a ELSE b

\* Take c out of a list of different objects.
Place(s, c) == CHOOSE i \in DOMAIN s : s[i] = c
Remove(s, c) == IF c \in Range(s)
                THEN [i \in 1 .. Len(s) - 1 |-> s[IF i < Place(s, c) THEN i ELSE i + 1]]
                ELSE s

New == {c \in Cache : obj[c].state = "new"}
Live == {c \in Cache : obj[c].state = "live"}

\* OpExecCache::IsOpCacheValid; an invalid object has neither hash nor key.
Valid(c) == obj[c].id # None

Init == /\ obj = [c \in Cache |->
                    [state |-> "new", id |-> None, canUse |-> FALSE, shrink |-> {}]]
        /\ table = [h \in Hash |-> None]
        /\ lru = <<>>
        /\ useCount = 0 /\ hasFull = FALSE
        /\ calls = <<>> /\ step = "run"
        /\ repeat = {}
        /\ gc = [q \in Queue |-> {}]
        /\ leaked = {}
        /\ clearing = FALSE /\ counting = TRUE /\ unwaited = FALSE /\ freed = {}
-----------------------------------------------------------------------------
(* Deleting objects *)

\* SubmitGcTask for every element of S: what does not fit into the queue is
\* deleted through its ListHead base, which leaves the object behind.
Submit(q, S) ==
    \E fit \in SUBSET S :
       /\ Cardinality(fit) = Min(Cardinality(S), GcCapacity - Cardinality(gc[q]))
       /\ gc' = [gc EXCEPT ![q] = @ \cup fit]
       /\ leaked' = leaked \cup (S \ fit)

Dead == [state |-> "dead", id |-> None, canUse |-> FALSE, shrink |-> {}]

\* The shrink lists that ~OpExecCache of the objects in S passes on.
ShrinkOf(S) == UNION {obj[c].shrink : c \in S}
-----------------------------------------------------------------------------
(* Phase one, main thread *)

\* The object OpExecCacheManager would find for an identity.
Found(id) ==
    IF id \in Hash THEN table[id]
    ELSE IF \E c \in Range(lru) : obj[c].id = id
         THEN CHOOSE c \in Range(lru) : obj[c].id = id
         ELSE None

\* OpCacheContainer::find moves what it finds to the front.
Activate(s, c) == IF c \in Range(s) THEN <<c>> \o Remove(s, c) ELSE s

Usable(c) == c # None /\ obj[c].canUse

\* Mutant: the wrap is not counted.
Phase1HitUncounted(id) ==
    /\ ~ clearing /\ Len(calls) < MaxPending
    /\ Usable(Found(id))
    /\ lru' = Activate(lru, Found(id))
    /\ calls' = Append(calls, [kind |-> "wrap", cache |-> Found(id)])
    /\ UNCHANGED <<obj, table, useCount, hasFull, step, repeat, gc, leaked, wait>>

\* GetFromCache, PTAGetExecCache, PTAFindExecCache: a usable recording is
\* wrapped, and the wrap counts as a use of the manager.
Phase1Hit(id) ==
    /\ ~ clearing /\ Len(calls) < MaxPending
    /\ Usable(Found(id))
    /\ lru' = Activate(lru, Found(id))
    /\ useCount' = useCount + 1
    /\ calls' = Append(calls, [kind |-> "wrap", cache |-> Found(id)])
    /\ UNCHANGED <<obj, table, hasFull, step, repeat, gc, leaked, wait>>

\* A miss when caching is switched off builds an executor that records
\* nothing (OpExecutorImpl with cacheHasFull_).
Phase1Plain(id) ==
    /\ ~ clearing /\ Len(calls) < MaxPending
    /\ ~ Usable(Found(id)) /\ hasFull
    /\ lru' = Activate(lru, Found(id))
    /\ calls' = Append(calls, [kind |-> "exec", cache |-> None])
    /\ UNCHANGED <<obj, table, useCount, hasFull, step, repeat, gc, leaked, wait>>

\* CheckCacheable fails while a dump or profiling option is on: nothing is
\* looked up, and recording is switched off for good.
Phase1Dfx ==
    /\ ~ clearing /\ Len(calls) < MaxPending
    /\ hasFull' = TRUE
    /\ calls' = Append(calls, [kind |-> "exec", cache |-> None])
    /\ UNCHANGED <<obj, table, lru, useCount, step, repeat, gc, leaked, wait>>

\* ShrinkCache: the least recently used entries leave cache2_.
Evicted(s) == {s[i] : i \in {j \in DOMAIN s : j > Len(s) - ShrinkNum}}

\* Mutant: the evicted entries stay in cache2_.
KeptAll(s) == s

Kept(s) == SubSeq(s, 1, Len(s) - Min(ShrinkNum, Len(s)))

\* A miss records into a new object c; ReleaseTo passes it to AddOpExecCache,
\* which files it or deletes it.  An executor built from launchers that
\* cannot be replayed has called AbandonCache before.
Phase1Record(id, abandoned) ==
    /\ ~ clearing /\ Len(calls) < MaxPending
    /\ ~ Usable(Found(id)) /\ ~ hasFull
    /\ New # {}
    /\ LET c == CHOOSE d \in New : TRUE
           seen == Activate(lru, Found(id))
           tableFull == Cardinality({h \in Hash : table[h] # None}) >= Limit
           shrinks == Len(seen) >= Limit
           kept == IF shrinks THEN Kept(seen) ELSE seen
           evicted == IF shrinks THEN Evicted(seen) ELSE {}
           filed == IF id \in Hash THEN table[id] = None
                    ELSE ~ \E d \in Range(kept) : obj[d].id = id
       IN  \/ /\ abandoned \/ tableFull
              /\ hasFull' = (hasFull \/ (~ abandoned /\ tableFull))
              /\ obj' = [obj EXCEPT ![c] = Dead]
              /\ lru' = seen
              /\ calls' = Append(calls, [kind |-> "exec", cache |-> None])
              /\ UNCHANGED <<table, useCount, gc, leaked>>
           \/ /\ ~ abandoned /\ ~ tableFull /\ filed
              /\ obj' = [obj EXCEPT ![c] = [state |-> "live", id |-> id,
                                            canUse |-> FALSE, shrink |-> evicted]]
              /\ table' = IF id \in Hash THEN [table EXCEPT ![id] = c] ELSE table
              /\ lru' = IF id \in Key THEN <<c>> \o kept ELSE kept
              /\ useCount' = useCount + 1
              /\ calls' = Append(calls, [kind |-> "exec", cache |-> c])
              /\ UNCHANGED <<hasFull, gc, leaked>>
           \/ /\ ~ abandoned /\ ~ tableFull /\ ~ filed
              /\ obj' = [obj EXCEPT ![c] = Dead]
              /\ Submit("main", evicted)
              /\ lru' = kept
              /\ calls' = Append(calls, [kind |-> "exec", cache |-> None])
              /\ UNCHANGED <<table, useCount, hasFull>>
    /\ UNCHANGED <<step, repeat, wait>>
-----------------------------------------------------------------------------
(* Phase two, runner thread *)

Oldest == Head(calls)

\* The recordings that handles refer to.
Pending == {calls[i].cache : i \in DOMAIN calls} \ ({None} \cup freed)

\* What a phase two does with a recording that has been deleted is undefined:
\* the handle is followed no further.
Intact == Oldest.cache \notin freed

\* MarkOpCacheInvalid is refused once the object can be used.
Invalidate(c) == [obj EXCEPT ![c].id = IF obj[c].canUse THEN @ ELSE None]

\* The shrink list of c has been passed on, and SetUse decides on its use.
Finished(o, c, use) == [o EXCEPT ![c].shrink = {}, ![c].canUse = use]

\* CommonOpExecutorRun on a wrap, or on an executor without a recording.
RunWrap ==
    /\ calls # <<>> /\ step = "run"
    /\ Oldest.kind = "wrap" /\ Intact
    /\ step' = "release"
    /\ UNCHANGED <<obj, useCount, calls, repeat, gc, leaked, wait, manager>>

RunPlain ==
    /\ calls # <<>> /\ step = "run"
    /\ Oldest.kind = "exec" /\ Oldest.cache = None
    /\ calls' = Tail(calls)
    /\ UNCHANGED <<obj, useCount, step, repeat, gc, leaked, wait, manager>>

\* An executor with a recording runs; a failed launch, a missing workspace or
\* destruction without a phase two invalidates the recording.
RunRecord ==
    /\ calls # <<>> /\ step = "run"
    /\ Oldest.kind = "exec" /\ Oldest.cache # None /\ Intact
    /\ obj' \in {obj, Invalidate(Oldest.cache)}
    /\ step' = "finalize"
    /\ UNCHANGED <<useCount, calls, repeat, gc, leaked, wait, manager>>

\* Mutant: the evicted entries are forgotten.
FinalizeForgetsShrink ==
    /\ step = "finalize" /\ Intact
    /\ LET c == Oldest.cache
       IN  obj' = Finished(obj, c, obj[c].canUse \/ Valid(c))
    /\ step' = "release"
    /\ UNCHANGED <<useCount, calls, repeat, gc, leaked, wait, manager>>

\* ~OpExecutorImpl: Finalize hands the evicted entries to the garbage
\* collector, SetUse makes a valid recording usable.
Finalize ==
    /\ step = "finalize" /\ Intact
    /\ LET c == Oldest.cache
       IN  /\ Submit("runner", obj[c].shrink)
           /\ obj' = Finished(obj, c, obj[c].canUse \/ Valid(c))
    /\ step' = "release"
    /\ UNCHANGED <<useCount, calls, repeat, wait, manager>>

\* Mutant: the use is not given back.
ReleaseKeepsCount ==
    /\ step = "release"
    /\ calls' = Tail(calls)
    /\ step' = "run"
    /\ UNCHANGED <<obj, useCount, repeat, gc, leaked, wait, manager>>

\* ReleaseOpExecCacheManager, and the handle is gone.
Release ==
    /\ step = "release"
    /\ useCount' = useCount - 1
    /\ calls' = Tail(calls)
    /\ step' = "run"
    /\ UNCHANGED <<obj, repeat, gc, leaked, wait, manager>>
-----------------------------------------------------------------------------
(* Repeatable executors *)

Last == calls[Len(calls)]

\* Mutant: the recording stays in the cache.
SetRepeatableKeepsEntry ==
    /\ ~ clearing
    /\ calls # <<>> /\ Last.kind = "exec" /\ (Len(calls) > 1 \/ step = "run")
    /\ Last.cache \notin freed
    /\ calls' = SubSeq(calls, 1, Len(calls) - 1)
    /\ IF Last.cache = None
       THEN UNCHANGED <<useCount, repeat, table, lru>>
       ELSE /\ useCount' = useCount - 1
            /\ repeat' = repeat \cup {Last.cache}
            /\ UNCHANGED <<table, lru>>
    /\ UNCHANGED <<obj, hasFull, step, gc, leaked, wait>>

\* aclSetAclOpExecutorRepeatable, right after phase one: the executor takes
\* its recording out of the cache (RemoveOpExecCache) and owns it.
SetRepeatable ==
    /\ ~ clearing
    /\ calls # <<>> /\ Last.kind = "exec" /\ (Len(calls) > 1 \/ step = "run")
    /\ Last.cache \notin freed
    /\ calls' = SubSeq(calls, 1, Len(calls) - 1)
    /\ IF Last.cache = None
       THEN UNCHANGED <<useCount, repeat, table, lru>>
       ELSE LET id == obj[Last.cache].id
            IN  /\ useCount' = useCount - 1
                /\ repeat' = repeat \cup {Last.cache}
                /\ table' = IF id \in Hash THEN [table EXCEPT ![id] = None] ELSE table
                /\ lru' = IF id \in Key THEN Remove(lru, Found(id)) ELSE lru
    /\ UNCHANGED <<obj, hasFull, step, gc, leaked, wait>>

\* Phase two of a repeatable executor; the first run finalizes it.
RunRepeatable(c) ==
    /\ c \in repeat /\ ~ obj[c].canUse
    /\ \E o \in {obj, Invalidate(c)} :
         obj' = Finished(o, c, o[c].id # None)
    /\ Submit("runner", obj[c].shrink)
    /\ UNCHANGED <<useCount, calls, step, repeat, wait, manager>>

\* aclDestroyAclOpExecutor deletes the executor and its recording; so does a
\* phase two that is called without its workspace (DeleteExecutorForError).
DestroyRepeatable(c) ==
    /\ c \in repeat
    /\ repeat' = repeat \ {c}
    /\ obj' = [obj EXCEPT ![c] = Dead]
    /\ Submit("runner", obj[c].shrink)
    /\ UNCHANGED <<useCount, calls, step, wait, manager>>
-----------------------------------------------------------------------------
(* Clearing the cache: aclnnReselectStaticKernel -> ReinitOpCacheManager *)

\* The wait begins, unless uses are no longer counted.
BeginClear ==
    /\ ~ clearing /\ counting
    /\ clearing' = TRUE
    /\ UNCHANGED <<obj, useCount, calls, step, repeat, gc, leaked, counting, unwaited, freed,
                   manager>>

\* ClearCacheManually deletes every object of both containers.
DeleteAll ==
    LET all == ({table[h] : h \in Hash} \cup Range(lru)) \ {None}
    IN  /\ obj' = [c \in Cache |-> IF c \in all THEN Dead ELSE obj[c]]
        /\ Submit("main", ShrinkOf(all))
        /\ table' = [h \in Hash |-> None]
        /\ lru' = <<>>
        /\ hasFull' = FALSE
        /\ clearing' = FALSE
        /\ freed' = freed \cup (all \cap Pending)
        /\ UNCHANGED <<useCount, calls, step, repeat, counting>>

\* Mutant: the uses are not waited for.
EndClearAtOnce == clearing /\ DeleteAll /\ UNCHANGED unwaited

\* The uses are over.
EndClear == clearing /\ useCount <= 0 /\ DeleteAll /\ UNCHANGED unwaited

\* The minute that WaitCacheCompleteUse waits is over, the uses are not.
ClearExpires == clearing /\ useCount > 0 /\ DeleteAll /\ unwaited' = TRUE

\* Uses are no longer counted: WaitCacheCompleteUse returns at once.
ClearUncounted == ~ clearing /\ ~ counting /\ DeleteAll /\ unwaited' = TRUE

\* ~OpCacheGuard: a thread of the process that has run a phase two ends, and
\* with it its cacheGuard; nothing switches the counting on again.
ThreadEnds ==
    /\ counting
    /\ counting' = FALSE
    /\ UNCHANGED <<obj, useCount, calls, step, repeat, gc, leaked, clearing, unwaited, freed,
                   manager>>
-----------------------------------------------------------------------------
\* A garbage-collection thread deletes a value it has dequeued; the shrink
\* list of the deleted object goes to the collector's own queue.
Collect(q) ==
    \E c \in gc[q] :
      /\ obj' = [obj EXCEPT ![c] = Dead]
      /\ gc' = [p \in Queue |-> (IF p = q THEN gc[p] \ {c} ELSE gc[p])
                                \cup (IF p = "gc" THEN obj[c].shrink ELSE {})]
      /\ UNCHANGED <<useCount, calls, step, repeat, leaked, wait, manager>>
-----------------------------------------------------------------------------
Phase1 == \/ Phase1Dfx
          \/ \E id \in Ident : \/ Phase1Hit(id) \/ Phase1Plain(id)
                               \/ \E abandoned \in BOOLEAN : Phase1Record(id, abandoned)
Phase2 == RunWrap \/ RunPlain \/ RunRecord \/ Finalize \/ Release
Repeatable == \/ SetRepeatable
              \/ \E c \in Cache : RunRepeatable(c) \/ DestroyRepeatable(c)

Next == \/ Phase1 \/ Phase2 \/ Repeatable
        \/ BeginClear \/ EndClear \/ ClearExpires \/ ClearUncounted \/ ThreadEnds
        \/ \E q \in Queue : Collect(q)

Spec == Init /\ [][Next]_vars

\* The runner works off the calls it was given, the collectors poll for ever
\* and a wait that is over is noticed.
Fairness == WF_vars(Phase2) /\ WF_vars(EndClear) /\ \A q \in Queue : WF_vars(Collect(q))

LiveSpec == Spec /\ Fairness
-----------------------------------------------------------------------------
(* Properties *)

Handle == [kind : {"exec", "wrap"}, cache : Cache \cup {None}]

Object == [state : {"new", "live", "dead"}, id : Ident \cup {None},
           canUse : BOOLEAN, shrink : SUBSET Cache]

TypeOK == /\ obj \in [Cache -> Object]
          /\ table \in [Hash -> Cache \cup {None}]
          /\ lru \in Seq(Cache)
          /\ useCount \in Nat /\ hasFull \in BOOLEAN
          /\ calls \in Seq(Handle)
          /\ step \in {"run", "finalize", "release"}
          /\ repeat \subseteq Cache
          /\ gc \in [Queue -> SUBSET Cache]
          /\ leaked \subseteq Cache
          /\ clearing \in BOOLEAN /\ counting \in BOOLEAN /\ unwaited \in BOOLEAN
          /\ freed \subseteq Cache

\* No handle that waits for its phase two, and no repeatable executor, refers
\* to an object that has been deleted, unless a clearing deleted it under the
\* handle; and a clearing does that only when it went ahead of the uses, after
\* a minute (CACHE_DESTRUCT_MAX_WAIT_TIME) or because a thread that had run a
\* phase two has ended.  Eviction, garbage collection and a clearing that waits
\* for useCount_ never free a recording somebody is going to run.  Only a
\* finished recording is handed out: its phase two succeeded, its evictions
\* have been passed on, and nobody is still writing to it.
NoDangling ==
    /\ \A i \in DOMAIN calls : calls[i].cache # None => calls[i].cache \in Live \cup freed
    /\ freed # {} => unwaited
    /\ repeat \subseteq Live
    /\ \A i \in DOMAIN calls : calls[i].kind = "wrap" /\ calls[i].cache \notin freed =>
           LET c == calls[i].cache IN obj[c].canUse /\ Valid(c) /\ obj[c].shrink = {}

\* The places that will delete an object.
Owners(c) == {<<"table", h>> : h \in {h \in Hash : table[h] = c}}
        \cup {<<"lru", i>> : i \in {i \in DOMAIN lru : lru[i] = c}}
        \cup {<<"shrink", d>> : d \in {d \in Cache : c \in obj[d].shrink}}
        \cup {<<"gc", q>> : q \in {q \in Queue : c \in gc[q]}}
        \cup (IF c \in repeat THEN {<<"repeat", c>>} ELSE {})
        \cup (IF c \in leaked THEN {<<"leaked", c>>} ELSE {})

\* Every object that exists has exactly one owner, and a deleted one has
\* none: nothing is deleted twice and nothing is lost, except for what a full
\* garbage queue drops.
OneOwner == \A c \in Cache : Cardinality(Owners(c)) = (IF c \in Live THEN 1 ELSE 0)

\* useCount_ is the number of handles that refer to an object of the
\* manager; ReinitOpCacheManager relies on it.
UsesCounted ==
    useCount = Cardinality({i \in DOMAIN calls : calls[i].cache # None})

\* The two accounts the manager keeps of its objects, who deletes them and how
\* many handles refer to them, are right in every state.
Accounted == OneOwner /\ UsesCounted

\* The containers never hold more objects than the limit, and a key leads to
\* at most one object.
WithinLimit ==
    /\ Len(lru) <= Limit
    /\ Cardinality({h \in Hash : table[h] # None}) <= Limit
    /\ \A c, d \in Range(lru) : Valid(c) /\ obj[c].id = obj[d].id => c = d

\* The runner has come to a recording that was deleted under its handle.
Lost == calls # <<>> /\ ~ Intact

\* A clearing that waits for the uses comes to an end, without the help of
\* the minute's limit, unless the runner is lost.
ClearEnds == clearing ~> ~ clearing \/ Lost

\* What a call evicts is deleted in the end, unless a full queue dropped it,
\* the executor that holds it was made repeatable and is never run, or the
\* runner is lost.
EvictedIsCollected ==
    \A c \in Cache : c \in ShrinkOf(Cache) ~> \/ c \notin Live \/ c \in leaked
                                              \/ c \in ShrinkOf(repeat)
                                              \/ Lost
-----------------------------------------------------------------------------
(* The inductive invariant *)

\* What is known of an object from its state and its flags; there are
\* recordings deleted under a handle only after a clearing went ahead.
Flags ==
    /\ \A c \in Cache :
         /\ c \notin Live => ~ Valid(c) /\ ~ obj[c].canUse /\ obj[c].shrink = {}
         /\ obj[c].canUse => Valid(c) /\ obj[c].shrink = {}
         /\ c \in freed => obj[c].state = "dead"
    /\ freed # {} => unwaited

\* Objects are filed under their own identity, handles refer to objects of the
\* manager, and a valid entry that cannot be used is being recorded.
Filed ==
    /\ \A h \in Hash : table[h] # None => obj[table[h]].id \in {h, None}
    /\ \A c \in Range(lru) : /\ obj[c].id \in Key \cup {None}
                             /\ Valid(c) /\ ~ obj[c].canUse => c \in Pending
    /\ Pending \subseteq Range(lru) \cup Range(table)

\* How far the recording of each handle is.
Handles ==
    /\ \A i \in DOMAIN calls :
         LET k == calls[i].kind
             c == calls[i].cache
         IN  /\ k = "wrap" => c # None /\ (c \in freed \/ obj[c].canUse)
             /\ k = "exec" /\ c \notin freed \cup {None} =>
                  /\ i # 1 \/ step = "run" => Valid(c)
                  /\ i # 1 \/ step # "release" => ~ obj[c].canUse
                  /\ i = 1 /\ step = "release" => (Valid(c) => obj[c].canUse)
    /\ \A i, j \in DOMAIN calls :
         i # j /\ calls[i].kind = "exec" /\ calls[j].kind = "exec" /\ calls[i].cache # None
         => calls[i].cache # calls[j].cache

Stepped ==
    /\ Len(calls) <= MaxPending
    /\ step # "run" => calls # <<>> /\ Oldest.cache # None
    /\ step = "finalize" => Oldest.kind = "exec"

\* The entries of a list that were used more recently than c.
Ahead(s, c) == {s[j] : j \in {j \in DOMAIN s : \E k \in DOMAIN s : j < k /\ s[k] = c}}

\* A recording that a handle waits for is near the front of cache2_: what is
\* ahead of it is waited for, too, or was when the handle was made.
Recent ==
    \A i \in DOMAIN calls :
        /\ i < MaxPending =>
              Cardinality(Ahead(lru, calls[i].cache) \ Pending) + i + 1 <= MaxPending
        /\ i = MaxPending => Ahead(lru, calls[i].cache) = {}
=============================================================================
