-------------------------- MODULE AicpuKernelCache --------------------------
(***************************************************************************)
(* The device side of AI CPU kernels (aicpu_common/context): the entry     *)
(* points RunCpuKernel and RunCpuKernelWithBlock, the cache of kernel      *)
(* caches (SessionCache), the kernel caches (KernelCache: an LRU list with *)
(* an index), and a run: find or build the context of the kernel, write    *)
(* the tensors of this launch into it, compute, report the output shapes.  *)
(*                                                                         *)
(* A context is shared by everything that runs under one kernel id in one  *)
(* cache, and its tensors and attributes point into a NodeDef that is      *)
(* owned by the cache entry, or by the run that built it until it returns. *)
(*                                                                         *)
(* External: the runtime starts the launches of a stream one after the     *)
(* other, the blocks of one launch on several workers at once, and an      *)
(* asynchronous launch is over when its event has been notified.           *)
(***************************************************************************)
EXTENDS AicpuExtInfo, FiniteSets, Functions

CONSTANTS
    Stream,           \* streams with launches of AI CPU kernels
    Session,          \* session ids
    Blocks,           \* workers a launch with blocks is split over
    Capacity,         \* kMaxLRUCacheNum
    SessionCacheNum   \* kSessionCacheNum

ASSUME CacheAssumption == Blocks \in Nat /\ Capacity \in Nat /\ SessionCacheNum \in Nat

Worker == Stream \X (0 .. Blocks - 1)
Idle == [pc |-> "idle"]
NoCache == <<0, 0>>

VARIABLES
    queue,     \* queue[s]: the launches of stream s, the head is running
    work,      \* work[w]: what worker w does with its block of the head
    caches,    \* the KernelCache objects, named by the launch and block that made them
    session_kernel_cache,  \* session id -> KernelCache, NoCache if none
    stream_kernel_cache,   \* stream id -> KernelCache, NoCache if none
    session_id_cache,      \* sessions in the order of their making, newest first
    ctxs,      \* the contexts, named in the same way
    fails      \* how many more steps may fail

devVars == <<queue, work, caches, session_kernel_cache, stream_kernel_cache,
             session_id_cache, ctxs, fails>>

\* A launch: its number (which stands for the addresses of its tensors), the
\* serialized node, the blocks (0 for the entry without blocks) and the
\* extended information.
Launch(n, node, blocks, ext) ==
    [n |-> n, node |-> node, blocks |-> blocks, ext |-> ext]

DevInit ==
    /\ queue = [s \in Stream |-> << >>]
    /\ work = [w \in Worker |-> Idle]
    /\ caches = << >>
    /\ session_kernel_cache = [i \in Session |-> NoCache]
    /\ stream_kernel_cache = [s \in Stream |-> NoCache]
    /\ session_id_cache = << >>
    /\ ctxs = << >>

BlockNum(r) == IF r.blocks = 0 THEN 1 ELSE r.blocks
Busy(s) == \E b \in 0 .. Blocks - 1 : work[<<s, b>>] # Idle
At(w, pc) == work[w].pc = pc
With(f, key, val) == [k \in DOMAIN f \cup {key} |-> IF k = key THEN val ELSE f[k]]
Without(f, key) == [k \in DOMAIN f \ {key} |-> f[k]]
Name(w) == <<work[w].req.n, w[2]>>
Goto(w, pc) == work' = [work EXCEPT ![w].pc = pc]
-----------------------------------------------------------------------------
(* KernelCache: keys in LRU order, newest first, and the index of them *)

NewCache(sess) == [sess_flag |-> sess, lru |-> << >>, iter |-> << >>]

\* The entry the index names is moved to the front of the list.
ToFront(lru, key) == <<key>> \o RemoveAt(lru, CHOOSE i \in DOMAIN lru : lru[i] = key)

\* A hit moves the entry to the front, outside a session.
GetCache(c, key) ==
    IF key \in DOMAIN c.iter /\ ~c.sess_flag
    THEN [c EXCEPT !.lru = ToFront(@, key)] ELSE c

\* An existing entry is replaced; otherwise the last entry makes room when
\* there are more than Capacity.
SetCache(c, key, ctx) ==
    IF key \in DOMAIN c.iter
    THEN [c EXCEPT !.iter = With(@, key, ctx),
                   !.lru = IF c.sess_flag THEN @ ELSE ToFront(@, key)]
    ELSE LET full == Capacity < Len(c.lru) IN
         [c EXCEPT !.lru = <<key>> \o IF full THEN Front(@) ELSE @,
                   !.iter = With(IF full THEN Without(@, Last(c.lru)) ELSE @, key, ctx)]
-----------------------------------------------------------------------------
(* The start of a launch *)

\* The runtime hands the head of a stream to one worker per block.
Start(s) ==
    /\ queue[s] # << >> /\ ~Busy(s)
    /\ work' = [w \in Worker |->
          IF w[1] = s /\ w[2] < BlockNum(Head(queue[s]))
          THEN [pc |-> "open", req |-> Head(queue[s]), kernel |-> NoCache, ctx |-> NoCache,
                proto |-> FALSE, shape |-> << >>]
          ELSE work[w]]
    /\ UNCHANGED <<queue, caches, session_kernel_cache, stream_kernel_cache,
                   session_id_cache, ctxs, fails>>

Opened(w, k) == work' = [work EXCEPT ![w].kernel = k, ![w].pc = "lookup"]

\* RunCpuKernel without a session record: a cache on the worker's stack.
OpenDirect(w) ==
    /\ At(w, "open") /\ ParseExtSessionInfo(work[w].req.ext) = {}
    /\ caches' = With(caches, Name(w), NewCache(FALSE))
    /\ Opened(w, Name(w))
    /\ UNCHANGED <<queue, session_kernel_cache, stream_kernel_cache,
                   session_id_cache, ctxs, fails>>

SessionRecord(ext) == CHOOSE x \in ParseExtSessionInfo(ext) : TRUE
SessionOf(w) == SessionRecord(work[w].req.ext)

Asks(w, flag) == /\ At(w, "open")
                 /\ ParseExtSessionInfo(work[w].req.ext) # {}
                 /\ SessionOf(w).flag = flag

\* GetOrCreateKernelCache, under stream_mutex_: stream caches are never
\* dropped.
OpenStream(w) ==
    /\ Asks(w, FALSE)
    /\ IF stream_kernel_cache[w[1]] # NoCache
       THEN /\ Opened(w, stream_kernel_cache[w[1]])
            /\ UNCHANGED <<caches, stream_kernel_cache>>
       ELSE /\ caches' = With(caches, Name(w), NewCache(FALSE))
            /\ stream_kernel_cache' = [stream_kernel_cache EXCEPT ![w[1]] = Name(w)]
            /\ Opened(w, Name(w))
    /\ UNCHANGED <<queue, session_kernel_cache, session_id_cache, ctxs, fails>>

\* The oldest session makes room when there are more than SessionCacheNum.
SessionFull == Len(session_id_cache) > SessionCacheNum
Listed(id) == <<id>> \o IF SessionFull THEN Front(session_id_cache) ELSE session_id_cache

\* A plausible bug: the cache of the session that makes room stays.
MappedForGood == session_kernel_cache

Mapped == IF SessionFull
          THEN [session_kernel_cache EXCEPT ![Last(session_id_cache)] = NoCache]
          ELSE session_kernel_cache

\* GetOrCreateKernelCache, under session_mutex_.  The id is listed before the
\* cache is made, which may fail.
OpenSession(w) ==
    LET id == SessionOf(w).id IN
    /\ Asks(w, TRUE)
    /\ \/ /\ session_kernel_cache[id] # NoCache
          /\ Opened(w, session_kernel_cache[id])
          /\ UNCHANGED <<caches, session_kernel_cache, session_id_cache, fails>>
       \/ /\ session_kernel_cache[id] = NoCache
          /\ session_id_cache' = Listed(id)
          /\ caches' = With(caches, Name(w), NewCache(TRUE))
          /\ session_kernel_cache' = [Mapped EXCEPT ![id] = Name(w)]
          /\ Opened(w, Name(w))
          /\ UNCHANGED fails
       \/ /\ session_kernel_cache[id] = NoCache /\ fails > 0
          /\ fails' = fails - 1
          /\ session_id_cache' = Listed(id)
          /\ session_kernel_cache' = Mapped
          /\ Goto(w, "done")
          /\ UNCHANGED caches
    /\ UNCHANGED <<queue, stream_kernel_cache, ctxs>>
-----------------------------------------------------------------------------
(* A run: RunKernel and RunCpuKernelWithBlock *)

Msg(w) == ParseExtMsg(work[w].req.ext)
Blk(w) == IF work[w].req.blocks \in {0, 1} THEN <<0, 1>> ELSE <<w[2], work[w].req.blocks>>

\* Only launches of one block look into the cache.
MayHit(w) == Msg(w).has_sess /\ work[w].req.blocks \in {0, 1}

\* The first half of GetCpuKernelContext(WithBlock): extended information that
\* does not parse ends the launch; a hit takes the context and no share of
\* its NodeDef.
Lookup(w) ==
    LET k == work[w].kernel
        hit == MayHit(w) /\ Msg(w).kid \in DOMAIN caches[k].iter
    IN  /\ At(w, "lookup")
        /\ IF ~Msg(w).ok THEN Goto(w, "done") /\ UNCHANGED caches
           ELSE IF hit
           THEN /\ caches' = [caches EXCEPT ![k] = GetCache(@, Msg(w).kid)]
                /\ work' = [work EXCEPT ![w].ctx = caches[k].iter[Msg(w).kid],
                                        ![w].pc = "tensor"]
           ELSE Goto(w, "build") /\ UNCHANGED caches
        /\ UNCHANGED <<queue, session_kernel_cache, stream_kernel_cache,
                       session_id_cache, ctxs, fails>>

\* A plausible bug: asynchronous launches are not filed.
FiledSync(w) == Msg(w).has_sess /\ ~Msg(w).async

Filed(w) == Msg(w).has_sess

\* The second half: a context from the serialized node, filed under the
\* kernel id whatever the number of blocks.
Build(w) ==
    LET k == work[w].kernel
        c == Name(w)
    IN  /\ At(w, "build")
        /\ ctxs' = With(ctxs, c, [node |-> work[w].req.node, blk |-> Blk(w),
                                 io |-> 0, shape |-> << >>, space |-> <<0, 0>>])
        /\ caches' = IF Filed(w)
                     THEN [caches EXCEPT ![k] = SetCache(@, Msg(w).kid, c)] ELSE caches
        /\ work' = [work EXCEPT ![w].ctx = c, ![w].proto = TRUE, ![w].pc = "tensor"]
        /\ UNCHANGED <<queue, session_kernel_cache, stream_kernel_cache,
                       session_id_cache, fails>>

\* The node does not parse, or the context cannot be set up.
BuildFails(w) ==
    /\ At(w, "build") /\ fails > 0
    /\ fails' = fails - 1
    /\ Goto(w, "done")
    /\ UNCHANGED <<queue, caches, session_kernel_cache, stream_kernel_cache,
                   session_id_cache, ctxs>>

\* A plausible bug: the last block gets no more than the others.
PartOfEven(size, blk) == <<(size \div blk[2]) * blk[1], size \div blk[2]>>

\* Start and size of a block's part of the workspace; the last block takes
\* what the division leaves.
PartOf(size, blk) ==
    LET unit == size \div blk[2] IN
    <<unit * blk[1], IF blk[1] < blk[2] - 1 THEN unit ELSE size - unit * (blk[2] - 1)>>

\* UpdateCustWorkSpaceInfo, for a context this run has built.
Space(w) ==
    IF work[w].proto /\ Msg(w).workspace > 0
    THEN PartOf(Msg(w).workspace, Blk(w)) ELSE ctxs[work[w].ctx].space

\* The workspace, then UpdateTensor: the addresses of this launch and, if the
\* shapes are unknown to the node, its shapes.  Shape records that do not
\* match the tensors end the launch.
Tensor(w) ==
    LET m == Msg(w) IN
    /\ At(w, "tensor")
    /\ IF m.unknown /\ (Len(m.input) # 1 \/ Len(m.output) # 1)
       THEN Goto(w, "done") /\ UNCHANGED ctxs
       ELSE /\ ctxs' = [ctxs EXCEPT ![work[w].ctx] =
                  [@ EXCEPT !.io = work[w].req.n, !.space = Space(w),
                            !.shape = IF m.unknown THEN Dims(m.input[1]) ELSE @]]
            /\ Goto(w, "run")
    /\ UNCHANGED <<queue, caches, session_kernel_cache, stream_kernel_cache,
                   session_id_cache, fails>>

\* A plausible bug: the sizes of the input are reported.
SizesOfInput(dims, out) == dims

\* UpdateFWKOutputShape writes the sizes the kernel gave its output over the
\* sizes in the record, and no end mark.
Sizes(dims, out) == [i \in 1 .. MaxDims |-> IF i <= Len(out) THEN out[i] ELSE dims[i]]

\* The output shape is the kernel's: the announced one, with sizes that may
\* be smaller, or one of another rank.
Computed(w) ==
    LET max == Dims(Msg(w).output[1]) IN
    {[i \in DOMAIN max |-> IF i = 1 THEN d ELSE max[i]] :
        d \in IF max = << >> THEN {0} ELSE 1 .. max[1]}
      \cup {out \in {Tail(max), Append(max, 1)} : Len(out) \in (0 .. MaxDims) \ {Len(max)}}

Report(w) == IF Msg(w).unknown
             THEN {[dims |-> Sizes(Msg(w).output[1], out), out |-> out] : out \in Computed(w)}
             ELSE {<< >>}

\* A run that returns gives up the kernel cache and its share of the NodeDef.
Return(w, pc, shape) ==
    work' = [work EXCEPT ![w] = [@ EXCEPT !.kernel = NoCache, !.proto = FALSE, !.pc = pc,
                                          !.shape = shape]]

\* RunCpuKernelAsync: the kernel goes on after the run has returned.
ComputeAsync(w) ==
    /\ At(w, "run") /\ Msg(w).async
    /\ Return(w, "async", << >>)
    /\ UNCHANGED <<queue, caches, session_kernel_cache, stream_kernel_cache,
                   session_id_cache, ctxs, fails>>

\* There is no such kernel, it has no asynchronous form or does not start: the
\* run returns an error and nothing goes on.
AsyncFails(w) ==
    /\ At(w, "run") /\ Msg(w).async
    /\ fails > 0 /\ fails' = fails - 1
    /\ Return(w, "done", << >>)
    /\ UNCHANGED <<queue, caches, session_kernel_cache, stream_kernel_cache,
                   session_id_cache, ctxs>>

\* RunCpuKernel: the kernel computes and its output shape is reported, or it
\* fails.
Compute(w) ==
    /\ At(w, "run") /\ ~Msg(w).async
    /\ \/ (\E shape \in Report(w) : Return(w, "done", shape)) /\ UNCHANGED fails
       \/ fails > 0 /\ fails' = fails - 1 /\ Return(w, "done", << >>)
    /\ UNCHANGED <<queue, caches, session_kernel_cache, stream_kernel_cache,
                   session_id_cache, ctxs>>

\* The done callback of an asynchronous kernel: report, unless the kernel has
\* failed, then notify.
AsyncDone(w) ==
    /\ At(w, "async")
    /\ \/ (\E shape \in Report(w) : Return(w, "done", shape)) /\ UNCHANGED fails
       \/ fails > 0 /\ fails' = fails - 1 /\ Return(w, "done", << >>)
    /\ UNCHANGED <<queue, caches, session_kernel_cache, stream_kernel_cache,
                   session_id_cache, ctxs>>

\* Keep(f, S): f without what nobody holds any more.
Keep(f, S) == [k \in DOMAIN f \cap S |-> f[k]]

\* The workers of other streams, and the caches and contexts that are held
\* without stream s.
OthersOf(s) == {v \in Worker : v[1] # s /\ work[v] # Idle}
LiveWithout(s) == Range(session_kernel_cache) \cup Range(stream_kernel_cache)
                    \cup {work[w].kernel : w \in OthersOf(s)}
UsedWithout(s) == {work[w].ctx : w \in OthersOf(s)}
                    \cup UNION {Range(caches[k].iter) : k \in LiveWithout(s) \ {NoCache}}

\* The runtime goes on with the stream when all blocks are done.  Caches and
\* contexts are shared pointers: the last holder frees them.
Retire(s) ==
    /\ Busy(s)
    /\ \A b \in 0 .. Blocks - 1 : work[<<s, b>>].pc \in {"idle", "done"}
    /\ work' = [w \in Worker |-> IF w[1] = s THEN Idle ELSE work[w]]
    /\ queue' = [queue EXCEPT ![s] = Tail(@)]
    /\ caches' = Keep(caches, LiveWithout(s))
    /\ ctxs' = Keep(ctxs, UsedWithout(s))
    /\ UNCHANGED <<session_kernel_cache, stream_kernel_cache, session_id_cache, fails>>

WorkerStep(w) ==
    \/ OpenDirect(w) \/ OpenStream(w) \/ OpenSession(w)
    \/ Lookup(w) \/ Build(w) \/ BuildFails(w) \/ Tensor(w)
    \/ ComputeAsync(w) \/ AsyncFails(w) \/ Compute(w) \/ AsyncDone(w)

DevStep == (\E s \in Stream : Start(s) \/ Retire(s)) \/ \E w \in Worker : WorkerStep(w)
=============================================================================
