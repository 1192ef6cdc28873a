----------------------------- MODULE AicpuTask -----------------------------
(***************************************************************************)
(* The host side of AI CPU kernels (src/nnopbase/aicpu/task_handler),      *)
(* composed with the device side: operator calls find or make an AicpuTask *)
(* in the space of their operator type, keep it through an                 *)
(* AiCpuKernelLauncher of their executor and launch it on a stream.  A     *)
(* task keeps its launch arguments between launches: the kernel id under   *)
(* which the device caches the context, and the shape records.             *)
(*                                                                         *)
(* A kind is what the key of a task says of a call besides the thread: the *)
(* types and formats of the inputs and the attributes.  Kinds of class     *)
(* three (DEPEND_SHAPE_RANGE) learn the output shape from the device: their*)
(* records are copied to the device before Run and Run waits for the       *)
(* stream.  Tasks of the TensorFlow library (AicpuTfTask) run elsewhere.   *)
(*                                                                         *)
(* External: the caller's calls, and launches of other frameworks that the *)
(* device library serves in the same process.                              *)
(***************************************************************************)
EXTENDS AicpuKernelCache

CONSTANTS
    Thread,       \* host threads
    Executor,     \* executors alive at a time
    Kind,         \* kinds of calls
    Class3,       \* the kinds of class three
    Foreign,      \* launches of other frameworks: [stream, node, blocks, ext]
    HostSession,  \* the session id AppendSessionInfo writes, 0
    FirstKernelId,  \* gKernelId starts at 10000
    NoStream,     \* a task that has not been launched
    Budgets,      \* launches and failures in a behaviour: [own, foreign, fails],
                  \* and the shapes of the calls' tensors: shapes
    MaxTask,      \* tasks in a behaviour
    MaxList       \* launchers of an executor

ASSUME AicpuAssumption ==
    /\ NoStream \notin Stream /\ Class3 \subseteq Kind
    /\ HostSession \in Session /\ FirstKernelId \in Nat
    /\ Budgets \subseteq [own : Nat, foreign : Nat, fails : Nat, shapes : SUBSET Seq(Nat)]

\* A launch on stream s that has a session record uses a cache that others
\* use too: the session's or the stream's.
Sessioned(ext) == ParseExtSessionInfo(ext) # {}
Scope(s, ext) ==
    IF SessionRecord(ext).flag THEN <<"session", SessionRecord(ext).id>> ELSE <<"stream", s>>

\* It runs under a kernel id there.
Key(s, ext) == <<Scope(s, ext), ParseExtMsg(ext).kid>>
Small(r) == r.blocks \in {0, 1}

HostScope == <<"session", HostSession>>

\* What other frameworks keep to.  A kernel id of a session or of a stream
\* names one kernel, with or without blocks, and a session launches it on one
\* stream; in its session the ids from FirstKernelId on are this library's.
\* (That ParseExtMsg sees a session record only if the entry point has seen
\* one holds whatever the records are.)
ASSUME ForeignAssumption ==
    /\ \A f \in Foreign :
         /\ f.stream \in Stream /\ f.blocks \in 0 .. Blocks
         /\ ParseExtMsg(f.ext).workspace \in Nat
         /\ ParseExtMsg(f.ext).has_sess => Sessioned(f.ext)
         /\ Sessioned(f.ext) =>
              /\ SessionRecord(f.ext).id \in Session /\ ParseExtMsg(f.ext).kid \in Nat
              /\ Scope(f.stream, f.ext) = HostScope => ParseExtMsg(f.ext).kid < FirstKernelId
    /\ \A f, g \in Foreign :
         /\ Sessioned(f.ext) /\ Sessioned(g.ext)
         /\ Key(f.stream, f.ext) = Key(g.stream, g.ext)
         => f.node = g.node /\ f.stream = g.stream /\ Small(f) = Small(g)

VARIABLES
    tasks,      \* the tasks of the space
    execs,      \* execs[e]: the launchers of e and how far it is
    gKernelId,  \* the next kernel id
    left        \* what is left of the behaviour's budget of launches

hostVars == <<tasks, execs, gKernelId, left>>
vars == <<devVars, hostVars>>

Free == [st |-> "free", list |-> << >>, pos |-> 0, rep |-> FALSE, stream |-> NoStream]

Init == /\ DevInit
        /\ tasks = << >>
        /\ execs = [e \in Executor |-> Free]
        /\ gKernelId = FirstKernelId
        /\ left \in Budgets /\ fails = left.fails
-----------------------------------------------------------------------------
(* Phase one *)

\* A plausible bug: a task in use is found again.
FoundInUse(t, kind) ==
    {i \in DOMAIN tasks : tasks[i].thread = t /\ tasks[i].kind = kind}

\* FindTask, under the mutex of the space: the tasks of this thread and kind
\* that nobody holds; the first one is taken.
Found(t, kind) ==
    {i \in DOMAIN tasks : /\ tasks[i].thread = t /\ tasks[i].kind = kind
                          /\ ~tasks[i].visit}

First(S) == CHOOSE i \in S : \A j \in S : i <= j

\* Init of an AicpuCCTask: GenCCExtBuffer draws the first kernel id.
NewTask(t, kind) ==
    [thread |-> t, kind |-> kind, visit |-> TRUE, kid |-> gKernelId,
     stream |-> NoStream, in |-> Blank, out |-> Blank]

\* CreatAicpuKernelLauncher with GetOrCreateTask.
AddLauncher(t, e, kind) ==
    LET add(i) == execs' = [execs EXCEPT ![e].st = "open", ![e].list = Append(@, i)] IN
    /\ left.own > 0
    /\ execs[e].st \in {"free", "open"} /\ Len(execs[e].list) < MaxList
    /\ \A i \in Range(execs[e].list) : tasks[i].thread = t
    /\ IF Found(t, kind) # {}
       THEN /\ tasks' = [tasks EXCEPT ![First(Found(t, kind))].visit = TRUE]
            /\ add(First(Found(t, kind)))
            /\ UNCHANGED gKernelId
       ELSE /\ Len(tasks) < MaxTask
            /\ tasks' = Append(tasks, NewTask(t, kind))
            /\ gKernelId' = gKernelId + 1
            /\ add(Len(tasks'))
    /\ UNCHANGED <<devVars, left>>

\* The caller gives a call up; only a repeatable executor's launchers give
\* their tasks back when they are destroyed.
Abandon(e) ==
    /\ execs[e].st = "open"
    /\ execs' = [execs EXCEPT ![e] = Free]
    /\ UNCHANGED <<devVars, tasks, gKernelId, left>>
-----------------------------------------------------------------------------
(* Phase two *)

\* Where e is in its run.  A run starts on any stream; the first one fixes
\* whether the executor is repeatable, and only such a one runs again.
RunOf(e, s, rep) ==
    IF execs[e].st = "run" THEN {execs[e]}
    ELSE IF execs[e].st = "open" \/ (execs[e].st = "ready" /\ rep)
    THEN {[execs[e] EXCEPT !.st = "run", !.pos = 1, !.rep = rep, !.stream = s]}
    ELSE {}

\* A plausible bug: the kernel id stays when the stream changes.
KernelIdKept(i, s) == tasks[i].kid

\* AicpuCCTask::Run draws a new kernel id when the task changes its stream.
KernelId(i, s) ==
    IF tasks[i].stream \notin {NoStream, s} THEN gKernelId ELSE tasks[i].kid

\* The host waits for a kernel of class three.
Waits(i) == tasks[i].kind \in Class3

\* A launcher of run x is done: a task of an executor that runs once is given
\* back; after the last launcher the executor goes, unless it is repeatable.
Finished(e, x, ts) ==
    /\ tasks' = [ts EXCEPT ![x.list[x.pos]].visit = x.rep]
    /\ execs' = [execs EXCEPT ![e] =
          IF x.pos < Len(x.list) THEN [x EXCEPT !.st = "run", !.pos = @ + 1]
          ELSE IF x.rep THEN [x EXCEPT !.st = "ready"] ELSE Free]

\* Task i with what SetIoTensors and Run write into it for a launch.
Written(i, s, shape) ==
    [tasks[i] EXCEPT !.in = UpdateShape(@, shape), !.out = UpdateShape(@, shape),
                     !.kid = KernelId(i, s), !.stream = s]

DrawnBy(i, s) == gKernelId' = IF KernelId(i, s) = tasks[i].kid THEN gKernelId ELSE gKernelId + 1

\* AiCpuKernelLauncher::Launch: SetIoTensors writes the shapes, and for class
\* three copies the records to the device; Run then settles the kernel id,
\* writes the addresses and launches.  The runtime copies host arguments.
LaunchTask(e, x, shape) ==
    LET i == x.list[x.pos]
        t == Written(i, x.stream, shape)
        old == GenCCExtBuffer(i, t.in, t.out, SessionInfo(HostSession, tasks[i].kid, TRUE))
        ext == IF t.kind \in Class3 THEN old ELSE UpdateKernelId(old, t.kid)
    IN  /\ left.own > 0
        /\ queue' = [queue EXCEPT ![x.stream] =
                        Append(@, Launch(left.own + left.foreign, i, 0, ext))]
        /\ left' = [left EXCEPT !.own = @ - 1]
        /\ DrawnBy(i, x.stream)
        /\ IF Waits(i)
           THEN /\ tasks' = [tasks EXCEPT ![i] = t]
                /\ execs' = [execs EXCEPT ![e] = [x EXCEPT !.st = "sync"]]
           ELSE Finished(e, x, [tasks EXCEPT ![i] = t])
        /\ UNCHANGED <<work, caches, session_kernel_cache, stream_kernel_cache,
                       session_id_cache, ctxs, fails>>

\* aclrtLaunchKernelWithHostArgs fails.  Run does not look at what it returns
\* (aicpu_task.cpp, line 259) and goes on as if it had launched: the task is
\* written and given back, or the host waits for the stream.
LaunchLost(e, x, shape) ==
    LET i == x.list[x.pos]
        t == Written(i, x.stream, shape)
    IN  /\ fails > 0 /\ fails' = fails - 1
        /\ left.own > 0 /\ left' = [left EXCEPT !.own = @ - 1]
        /\ DrawnBy(i, x.stream)
        /\ IF Waits(i)
           THEN /\ tasks' = [tasks EXCEPT ![i] = t]
                /\ execs' = [execs EXCEPT ![e] = [x EXCEPT !.st = "sync"]]
           ELSE Finished(e, x, [tasks EXCEPT ![i] = t])
        /\ UNCHANGED <<queue, work, caches, session_kernel_cache, stream_kernel_cache,
                       session_id_cache, ctxs>>

\* A launcher fails and ends the run: in SetIoTensors, after which the task is
\* not given back, or in Run.
LaunchFails(e, x, shape, ran) ==
    LET i == x.list[x.pos] IN
    /\ fails > 0 /\ fails' = fails - 1
    /\ left.own > 0 /\ left' = [left EXCEPT !.own = @ - 1]
    /\ IF ran
       THEN /\ tasks' = [tasks EXCEPT ![i] = [Written(i, x.stream, shape) EXCEPT !.visit = x.rep]]
            /\ DrawnBy(i, x.stream)
       ELSE UNCHANGED <<tasks, gKernelId>>
    /\ execs' = [execs EXCEPT ![e] = IF x.rep THEN [x EXCEPT !.st = "ready"] ELSE Free]
    /\ UNCHANGED <<queue, work, caches, session_kernel_cache, stream_kernel_cache,
                   session_id_cache, ctxs>>

\* aclrtSynchronizeStream has returned; the host reads the output shapes.
Synchronized(e) ==
    /\ execs[e].st = "sync" /\ queue[execs[e].stream] = << >>
    /\ Finished(e, execs[e], tasks)
    /\ UNCHANGED <<devVars, gKernelId, left>>

\* aclDestroyAclOpExecutor of a repeatable executor.
Destroy(e) ==
    /\ execs[e].st = "ready"
    /\ tasks' = [i \in DOMAIN tasks |-> IF i \in Range(execs[e].list)
                                        THEN [tasks[i] EXCEPT !.visit = FALSE]
                                        ELSE tasks[i]]
    /\ execs' = [execs EXCEPT ![e] = Free]
    /\ UNCHANGED <<devVars, gKernelId, left>>

\* Another framework launches a kernel.
ForeignLaunch(f) ==
    /\ left.foreign > 0
    /\ left' = [left EXCEPT !.foreign = @ - 1]
    /\ queue' = [queue EXCEPT ![f.stream] =
                    Append(@, Launch(left.own + left.foreign, f.node, f.blocks, f.ext))]
    /\ UNCHANGED <<work, caches, session_kernel_cache, stream_kernel_cache, tasks,
                   session_id_cache, ctxs, fails, execs, gKernelId>>

HostStep ==
    \/ \E t \in Thread, e \in Executor, kind \in Kind : AddLauncher(t, e, kind)
    \/ \E e \in Executor : Abandon(e) \/ Synchronized(e) \/ Destroy(e)
    \/ \E e \in Executor, s \in Stream, rep \in BOOLEAN, shape \in left.shapes :
          \E x \in RunOf(e, s, rep) :
             \/ LaunchTask(e, x, shape)
             \/ LaunchLost(e, x, shape)
             \/ \E ran \in BOOLEAN : LaunchFails(e, x, shape, ran)
    \/ \E f \in Foreign : ForeignLaunch(f)

Next == HostStep \/ (DevStep /\ UNCHANGED hostVars)

Spec == Init /\ [][Next]_vars
-----------------------------------------------------------------------------
(* Properties *)

Using(w) == work[w].pc \in {"run", "async"}

\* Whoever computes works on a context that was built from its own node and
\* block and that holds the addresses and shapes of its own launch, although
\* contexts are shared through the cache by all launches under one kernel id
\* (UpdateTensor, cpu_kernel_cache.cc) and the host may launch one task again,
\* on another stream, before the first launch has run.
ComputeOwn ==
    \A w \in Worker : Using(w) =>
        LET c == ctxs[work[w].ctx]
            m == Msg(w)
        IN  /\ c.node = work[w].req.node /\ c.blk = Blk(w) /\ c.io = work[w].req.n
            /\ m.unknown => c.shape = Dims(m.input[1])

\* The kernel caches that somebody can reach.
LiveCaches == (Range(session_kernel_cache) \cup Range(stream_kernel_cache)
                  \cup {work[w].kernel : w \in {v \in Worker : work[v] # Idle}}) \ {NoCache}

\* An asynchronous launch whose NodeDef outlives its run: it is filed, in one
\* block, in the cache of the stream, which is never dropped.
Parked(w) ==
    Msg(w).async /\ Msg(w).has_sess /\ ~SessionOf(w).flag /\ Small(work[w].req)

\* The NodeDef behind a context in use exists: it is held by the run that
\* built it or by an entry of a cache somebody holds, through evictions of
\* whole sessions and of entries of a stream's cache (CpuCacheData,
\* cpu_kernel_cache.h).  A session's cache is shared by streams, and promises
\* this until it is full.  A kernel that runs on after its run has returned is
\* covered when it is parked; of the others the code keeps no NodeDef.
NodeDefAlive ==
    \A w \in Worker : At(w, "tensor") \/ At(w, "run") \/ (At(w, "async") /\ Parked(w)) =>
        \/ \E v \in Worker : work[v] # Idle /\ work[v].proto /\ work[v].ctx = work[w].ctx
        \/ \E k \in LiveCaches : work[w].ctx \in Range(caches[k].iter)
        \/ /\ work[w].kernel # NoCache /\ caches[work[w].kernel].sess_flag
           /\ Len(caches[work[w].kernel].lru) > Capacity

\* The caches keep to their bounds and can make room again: the list and the
\* index of a kernel cache name the same keys, each once, and at most one more
\* than the capacity (KernelCache::SetCache tests before it inserts); every
\* session with a cache is listed, and there are at most one more than
\* SessionCacheNum, although an id is listed before its cache is made and
\* stays listed when that fails.
CachesBounded ==
    /\ \A k \in DOMAIN caches :
           /\ IsInjective(caches[k].lru)
           /\ Range(caches[k].lru) = DOMAIN caches[k].iter
           /\ Len(caches[k].lru) <= Capacity + 1
    /\ LET mapped == {i \in Session : session_kernel_cache[i] # NoCache}
       IN  /\ mapped \subseteq Range(session_id_cache)
           /\ Cardinality(mapped) <= SessionCacheNum + 1

\* The parts of the workspace that the blocks of a launch use lie one behind
\* the other and fill it (GetCpuKernelContextWithBlock).
BlocksTile ==
    \A s \in Stream :
        LET r == Head(queue[s])
            on == 0 .. r.blocks - 1
            part(b) == ctxs[work[<<s, b>>].ctx].space
            last == part(r.blocks - 1)
        IN  (/\ Busy(s) /\ r.blocks > 1
             /\ \A b \in on : Using(<<s, b>>)) =>
            /\ part(0)[1] = 0
            /\ \A b \in on \ {0} : part(b)[1] = part(b - 1)[1] + part(b - 1)[2]
            /\ last[1] + last[2] = ParseExtMsg(r.ext).workspace

\* A reported shape of the rank the host has announced is read back.
ReadsBack(r, shape) ==
    Len(shape.out) = Len(Dims(ParseExtMsg(r.ext).output[1])) => Dims(shape.dims) = shape.out

\* What the host reads back as the shape of an output is the shape the kernel
\* gave it, although the device writes sizes and no end mark over an array
\* that the host has closed for its own shape (UpdateFWKOutputShape,
\* GetShapeAndType).  A shape of another rank has no such promise.
OutputShapeRead ==
    \A w \in Worker : At(w, "done") /\ work[w].shape # << >> =>
        ReadsBack(work[w].req, work[w].shape)

\* The launchers of an executor that hold their tasks.
Held(x) == {p \in DOMAIN x.list : x.st = "open" \/ x.rep \/ p >= x.pos}

\* Two launchers that are still to run never hold one task, which has one
\* buffer of arguments (FindTask, SetVisit).
TaskExclusive ==
    \A e, f \in Executor : \A p \in Held(execs[e]), q \in Held(execs[f]) :
        execs[e].list[p] = execs[f].list[q] => e = f /\ p = q
-----------------------------------------------------------------------------
(* The inductive invariants.                                               *)

Record == [1 .. MaxDims -> Nat \cup {DimEnd}]
Task == [thread : Thread, kind : Kind, visit : BOOLEAN, kid : Nat,
         stream : Stream \cup {NoStream}, in : Record, out : Record]
Call == [st : {"free", "open", "run", "sync", "ready"}, list : Seq(Nat), pos : Nat,
         rep : BOOLEAN, stream : Stream \cup {NoStream}]

HostTypeOK ==
    /\ tasks \in Seq(Task) /\ execs \in [Executor -> Call]
    /\ gKernelId \in Nat
    /\ left \in [own : Nat, foreign : Nat, fails : Nat, shapes : SUBSET Seq(Nat)]

\* What an executor's stage says of its list of launchers.
ListFits(x) ==
    /\ \A p \in DOMAIN x.list : x.list[p] \in DOMAIN tasks
    /\ IF x.st = "free" THEN x = Free ELSE x.list # << >>
    /\ x.st \in {"run", "sync"} => x.pos \in DOMAIN x.list /\ x.stream \in Stream
    /\ x.st = "ready" => x.rep

\* A task that is held is not found.
HeldVisited == \A e \in Executor : \A p \in Held(execs[e]) : tasks[execs[e].list[p]].visit

HostInv == /\ HostTypeOK /\ HeldVisited /\ TaskExclusive
           /\ \A e \in Executor : ListFits(execs[e])

\* A kernel cache: list and index agree.
CacheSound(c) ==
    /\ c = [sess_flag |-> c.sess_flag, lru |-> c.lru, iter |-> c.iter]
    /\ c.lru \in Seq(DOMAIN c.iter) /\ Range(c.lru) = DOMAIN c.iter
    /\ IsInjective(c.lru) /\ Len(c.lru) <= Capacity + 1

\* The sessions with a cache are listed.
SessionsListed ==
    /\ session_id_cache \in Seq(Range(session_id_cache))
    /\ Len(session_id_cache) <= SessionCacheNum + 1
    /\ DOMAIN session_kernel_cache = Session
    /\ \A i \in Session : session_kernel_cache[i] # NoCache => i \in Range(session_id_cache)

CacheInv == (\A k \in DOMAIN caches : CacheSound(caches[k])) /\ SessionsListed

\* A worker that has something to do has these fields, a share of the NodeDef
\* from building it to the return, and reports a shape at the end only.
Worked(x) ==
    x = Idle \/ /\ x = [pc |-> x.pc, req |-> x.req, kernel |-> x.kernel, ctx |-> x.ctx,
                        proto |-> x.proto, shape |-> x.shape]
                /\ x.pc \in {"open", "lookup", "build", "tensor", "run", "async", "done"}
                /\ x.proto => x.pc \in {"tensor", "run", "done"}
                /\ x.shape # << >> => x.pc = "done" /\ ReadsBack(x.req, x.shape)

WorkInv == DOMAIN work = Worker /\ \A w \in Worker : Worked(work[w])

\* Launches have numbers of their own, counted down.
Numbered ==
    /\ DOMAIN queue = Stream
    /\ \A s \in Stream : /\ Len(queue[s]) \in Nat
                         /\ queue[s] = [i \in 1 .. Len(queue[s]) |-> queue[s][i]]
    /\ \A s \in Stream : \A i \in DOMAIN queue[s] :
         /\ queue[s][i].n \in Nat /\ queue[s][i].n > left.own + left.foreign
         /\ queue[s][i].blocks \in 0 .. Blocks
         /\ queue[s][i].blocks > 1 => ParseExtMsg(queue[s][i].ext).workspace \in Nat
         /\ \A t \in Stream : \A j \in DOMAIN queue[t] :
              queue[s][i].n = queue[t][j].n => s = t /\ i = j

\* Workers work on the head of their stream.
Running ==
    \A w \in Worker : work[w] # Idle =>
        /\ queue[w[1]] # << >> /\ work[w].req = Head(queue[w[1]])
        /\ w[2] < BlockNum(work[w].req)

\* The part of the workspace a block of a launch gets.
Share(w) ==
    IF Msg(w).workspace > 0 THEN PartOf(Msg(w).workspace, <<w[2], work[w].req.blocks>>)
    ELSE <<0, 0>>

\* A block of a launch works in a context of its own, which others may find in
\* the cache and whose part of the workspace they leave alone.
OwnContext ==
    \A w \in Worker : work[w] # Idle =>
        /\ work[w].proto => work[w].ctx = Name(w)
        /\ work[w].req.blocks > 1 /\ work[w].pc \in {"tensor", "run", "async"} =>
             /\ work[w].ctx = Name(w) /\ Name(w) \in DOMAIN ctxs
             /\ IF work[w].pc = "tensor" THEN work[w].proto /\ ctxs[Name(w)].space = <<0, 0>>
                ELSE ctxs[Name(w)].space = Share(w)

ContextFields ==
    \A c \in DOMAIN ctxs : ctxs[c] = [node |-> ctxs[c].node, blk |-> ctxs[c].blk,
                                     io |-> ctxs[c].io, shape |-> ctxs[c].shape,
                                     space |-> ctxs[c].space]

BlockInv == WorkInv /\ Numbered /\ Running /\ OwnContext /\ ContextFields
-----------------------------------------------------------------------------
(* Who may find whose context: the inductive invariant behind ComputeOwn   *)
(* and NodeDefAlive.                                                       *)

\* The scope of a worker's cache, and the scopes of those who reach cache k.
ScopeOf(w, r) == IF Sessioned(r.ext) THEN Scope(w[1], r.ext) ELSE <<"own", r.n, w[2]>>

ScopesOf(k) ==
    {<<"session", i>> : i \in {j \in Session : session_kernel_cache[j] = k}}
      \cup {<<"stream", s>> : s \in {u \in Stream : stream_kernel_cache[u] = k}}
      \cup {ScopeOf(w, work[w].req) : w \in {v \in Worker : work[v] # Idle /\ work[v].kernel = k}}

\* What is claimed of a key, which node runs under it and whether in one
\* block: by a launch that waits or runs, by one another framework may make,
\* by the next launch of a task, and by a context in a cache.
LaunchClaim(s, r) == [key |-> Key(s, r.ext), node |-> r.node, small |-> Small(r)]
TaskClaim(i, task) == [key |-> <<HostScope, task.kid>>, node |-> i, small |-> TRUE]
ContextClaim(scope, kid, ctx) ==
    [key |-> <<scope, kid>>, node |-> ctx.node, small |-> (ctx.blk = <<0, 1>>)]

QueueClaims ==
    UNION {{LaunchClaim(s, r) : r \in {q \in Range(queue[s]) : Sessioned(q.ext)}} : s \in Stream}
ForeignClaims == {LaunchClaim(f.stream, f) : f \in {g \in Foreign : Sessioned(g.ext)}}
TaskClaims == {TaskClaim(i, tasks[i]) : i \in DOMAIN tasks}
CacheClaims ==
    UNION {{ContextClaim(o, q, ctxs[caches[k].iter[q]]) :
               o \in ScopesOf(k), q \in DOMAIN caches[k].iter} : k \in DOMAIN caches}
Claims == QueueClaims \cup ForeignClaims \cup TaskClaims \cup CacheClaims

\* All that is claimed of a key agrees, and the keys of the host's session are
\* drawn already.
ClaimsFit ==
    /\ \A a, b \in Claims : a.key = b.key => a = b
    /\ \A a \in Claims : a.key[1] = HostScope => a.key[2] \in Nat /\ a.key[2] < gKernelId

\* Where a launch in a queue comes from.
OfHost(s, r) ==
    /\ Sessioned(r.ext) /\ Scope(s, r.ext) = HostScope /\ r.blocks = 0
    /\ ParseExtMsg(r.ext).kid \in Nat /\ ParseExtMsg(r.ext).kid >= FirstKernelId
    /\ ~ParseExtMsg(r.ext).async
OfForeign(s, r) ==
    \E f \in Foreign : f.stream = s /\ r.node = f.node /\ r.blocks = f.blocks /\ r.ext = f.ext

Origins == \A s \in Stream : \A r \in Range(queue[s]) : OfHost(s, r) \/ OfForeign(s, r)

\* Launches under one key are on one stream: that of the task whose id it is.
OneStream ==
    \A s, u \in Stream : \A r \in Range(queue[s]), q \in Range(queue[u]) :
        Sessioned(r.ext) /\ Sessioned(q.ext) /\ Key(s, r.ext) = Key(u, q.ext) => s = u

\* The launches under the id of a task; one of class three is waited for.
TaskStream ==
    \A i \in DOMAIN tasks : \A s \in Stream : \A r \in Range(queue[s]) :
        Sessioned(r.ext) /\ Key(s, r.ext) = <<HostScope, tasks[i].kid>> =>
            /\ s = tasks[i].stream
            /\ Waits(i) => \E e \in Executor : /\ execs[e].st = "sync"
                                              /\ execs[e].list[execs[e].pos] = i

WaitsWhere ==
    \A e \in Executor : execs[e].st = "sync" =>
        tasks[execs[e].list[execs[e].pos]].stream = execs[e].stream

KidsFit == /\ FirstKernelId <= gKernelId
           /\ \A i \in DOMAIN tasks : FirstKernelId <= tasks[i].kid

LaunchInv == ClaimsFit /\ Origins /\ OneStream /\ TaskStream /\ WaitsWhere /\ KidsFit

\* A name was given to what its launch and block have made, and will not be
\* given again.
BornIn(names, stages) ==
    \A k \in names :
        /\ k[1] \in Nat /\ k[1] > left.own + left.foreign
        /\ \A s \in Stream : \A i \in DOMAIN queue[s] : queue[s][i].n = k[1] =>
              i = 1 /\ <<s, k[2]>> \in Worker /\ work[<<s, k[2]>>].pc \in stages

Born == /\ BornIn(DOMAIN caches, {"lookup", "build", "tensor", "run", "async", "done"})
        /\ BornIn(DOMAIN ctxs, {"tensor", "run", "async", "done"})

\* Caches that somebody reaches exist, and nobody reaches one of another scope.
MapsReach ==
    /\ \A i \in Session : session_kernel_cache[i] \in DOMAIN caches \cup {NoCache}
    /\ DOMAIN stream_kernel_cache = Stream
    /\ \A s \in Stream : stream_kernel_cache[s] \in DOMAIN caches \cup {NoCache}

Reaches(w) ==
    /\ work[w].kernel \in DOMAIN caches \cup {NoCache}
    /\ work[w].pc \in {"lookup", "build", "tensor", "run"} => work[w].kernel # NoCache
    /\ work[w].pc = "open" => work[w].kernel = NoCache
    /\ work[w].kernel # NoCache /\ ScopeOf(w, work[w].req) = <<"stream", w[1]>> =>
         work[w].kernel = stream_kernel_cache[w[1]]

ScopesFit ==
    \A k \in DOMAIN caches :
        /\ \A a, b \in ScopesOf(k) : a = b
        /\ \A i \in Session : <<"session", i>> \in ScopesOf(k) => caches[k].sess_flag

ReachFits == MapsReach /\ ScopesFit /\ \A w \in Worker : work[w] # Idle => Reaches(w)

\* What is filed exists and is filed once.
FiledFits ==
    /\ \A k \in DOMAIN caches : \A q \in DOMAIN caches[k].iter : caches[k].iter[q] \in DOMAIN ctxs
    /\ \A k, l \in DOMAIN caches : \A q \in DOMAIN caches[k].iter, p \in DOMAIN caches[l].iter :
          caches[k].iter[q] = caches[l].iter[p] => k = l /\ q = p

\* A worker with a context.
Has(w) == work[w].pc \in {"tensor", "run", "async"}

\* The context of a worker is its own, and filed under its key if at all.
UserFits(w) ==
    /\ work[w].ctx \in DOMAIN ctxs
    /\ ctxs[work[w].ctx].node = work[w].req.node /\ ctxs[work[w].ctx].blk = Blk(w)
    /\ work[w].pc # "tensor" =>
         /\ ctxs[work[w].ctx].io = work[w].req.n
         /\ Msg(w).unknown => ctxs[work[w].ctx].shape = Dims(Msg(w).input[1])
    /\ \A v \in Worker : Has(v) /\ v # w => work[v].ctx # work[w].ctx
    /\ \A k \in DOMAIN caches : \A q \in DOMAIN caches[k].iter :
         caches[k].iter[q] = work[w].ctx =>
             Msg(w).has_sess /\ q = Msg(w).kid /\ ScopesOf(k) \subseteq {ScopeOf(w, work[w].req)}

UsersFit == \A w \in Worker : Has(w) => UserFits(w)

\* What keeps the NodeDef of a context alive for a worker that has found it,
\* and for a parked one that runs on after its call.
KeptFor(w, k) == /\ k \in DOMAIN caches /\ Msg(w).kid \in DOMAIN caches[k].iter
                 /\ caches[k].iter[Msg(w).kid] = work[w].ctx
Full(k) == caches[k].sess_flag /\ Len(caches[k].lru) > Capacity
KeeperFits(w) ==
    /\ work[w].pc # "async" /\ ~work[w].proto =>
         /\ Msg(w).has_sess /\ Small(work[w].req)
         /\ KeptFor(w, work[w].kernel) \/ Full(work[w].kernel)
    /\ Parked(w) => KeptFor(w, stream_kernel_cache[w[1]])

KeepersFit == \A w \in Worker : Has(w) => KeeperFits(w)

ContextInv == Born /\ ReachFits /\ FiledFits /\ UsersFit /\ KeepersFit
=============================================================================
