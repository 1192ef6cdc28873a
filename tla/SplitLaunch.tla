----------------------------- MODULE SplitLaunch -----------------------------
(***************************************************************************)
(* Kernels that run on cube and vector cores at once are launched twice:   *)
(* one half on the caller's stream, one on a second stream that belongs to *)
(* it, tied together by two events.  Composite operators do so in          *)
(* OpKernelBin::DoLaunchWithSplitAicAndAiv, single operators in            *)
(* NnopbaseExecutorLaunchKernelForVectorCore; both take the second stream, *)
(* the events and a mutex from one table keyed by the caller's stream.     *)
(*                                                                         *)
(* External: streams are queues the device works off in order; a wait      *)
(* holds its stream until the record of the event that was the latest when *)
(* the wait was issued has been reached.  Any call of the runtime can fail.*)
(***************************************************************************)
EXTENDS Naturals, Sequences, FiniteSets

CONSTANTS
    Caller,
    MainStream,       \* streams of the callers
    NoCaller,
    AicNum, AivNum,   \* cube and vector cores
    Asked             \* Asked[n]: the kernels the n-th launch may be of, each a
                      \* kind and a number of blocks; bounds the launches

ASSUME CoreAssumption ==
    /\ AicNum \in Nat \ {0} /\ AivNum \in Nat \ {0}
    /\ NoCaller \notin Caller
    /\ Asked \in Seq(SUBSET [kind : {"composite", "mixAiv", "mixAiCore"}, dim : Nat])

VARIABLES
    launches,       \* the launches so far
    stage,          \* per caller: where it is; its launch is the latest by it
    streamMap,      \* g_nnopbaseStreamMap: the streams that have an entry
    subLive,        \* the streams whose second stream and events exist
    streamMtx,      \* g_nnopbaseStreamMtxMap: who holds the stream's mutex
    isRegisted,     \* g_isNnopbaseRegistedCallBack
    queue,          \* the tasks of <<stream, "main">> and <<stream, "sub">>
    recorded,       \* the records of each event that were issued ...
    reached,        \* ... and that the device has reached
    ran             \* the kernels that have run, in order

splitVars == <<launches, stage, streamMap, subLive, streamMtx, isRegisted, queue, recorded,
               reached, ran>>

Event == {"A", "B"}
Queues == MainStream \X {"main", "sub"}

SplitInit ==
    /\ launches = << >>
    /\ stage = [c \in Caller |-> "idle"]
    /\ streamMap = {} /\ subLive = {}
    /\ streamMtx = [m \in MainStream |-> NoCaller]
    /\ isRegisted = FALSE
    /\ queue = [q \in Queues |-> << >>]
    /\ recorded = [m \in MainStream |-> [e \in Event |-> 0]]
    /\ reached = recorded
    /\ ran = << >>
-----------------------------------------------------------------------------
(* The blocks of the halves *)

CeilDiv(a, b) == (a + b - 1) \div b
Blocks(from, n) == from .. from + n - 1

\* The first blocks for the cube cores, the others for the vector cores.
HalvesAt(aic, d) == [main |-> Blocks(0, aic), sub |-> Blocks(aic, d - aic)]

\* NeedAicAndAivCoreNum.
NeedAic(d) == CeilDiv(d, AicNum + AivNum) * AicNum

\* The same for a single operator of type MIX_AIV.
MixAivAic(d) ==
    IF d > AicNum + AivNum THEN CeilDiv(d * AicNum, AicNum + AivNum) ELSE AicNum

\* What a launch of d blocks is cut into, by the kind of its kernel; the halves
\* of a MIX_AICORE kernel number their blocks for themselves.
Halves(kind, d) ==
    CASE kind = "composite" -> HalvesAt(NeedAic(d), d)
      [] kind = "mixAiv" -> HalvesAt(MixAivAic(d), d)
      [] kind = "mixAiCore" -> [main |-> Blocks(0, d), sub |-> Blocks(0, AivNum)]

\* IsNeedSplitAicAndAiv, and the tests of NnopbaseExecutorRunKernelForVectorCore.
NeedsSplit(kind, d) ==
    \/ kind = "composite" /\ d > NeedAic(d)
    \/ kind = "mixAiv" /\ d > AicNum
    \/ kind = "mixAiCore"
-----------------------------------------------------------------------------
(* Launches *)

Latest(c) == CHOOSE l \in DOMAIN launches :
    /\ launches[l].by = c
    /\ \A k \in DOMAIN launches : launches[k].by = c => k <= l

Main(c) == launches[Latest(c)].stream

\* A launch begins; `after' are those on its stream that have returned.
Begin(c, k, m) ==
    /\ stage[c] = "idle"
    /\ launches' = Append(launches,
         [kind |-> k.kind, dim |-> k.dim, stream |-> m, by |-> c, res |-> "open",
          split |-> NeedsSplit(k.kind, k.dim),
          after |-> {l \in DOMAIN launches : launches[l].res = "ok" /\ launches[l].stream = m}])
    /\ stage' = [stage EXCEPT ![c] = IF NeedsSplit(k.kind, k.dim) THEN "get" ELSE "plain"]
    /\ UNCHANGED <<streamMap, subLive, streamMtx, isRegisted, queue, recorded, reached, ran>>

Return(c, res) ==
    /\ launches' = [launches EXCEPT ![Latest(c)].res = res]
    /\ stage' = [stage EXCEPT ![c] = "idle"]

Kernel(c, blocks) == [do |-> "kernel", launch |-> Latest(c), blocks |-> blocks]

\* One launch on the caller's stream, which takes no mutex.
LaunchPlain(c) ==
    /\ stage[c] = "plain"
    /\ queue' = [queue EXCEPT ![<<Main(c), "main">>] =
         Append(@, Kernel(c, Blocks(0, launches[Latest(c)].dim)))]
    /\ Return(c, "ok")
    /\ UNCHANGED <<streamMap, subLive, streamMtx, isRegisted, recorded, reached, ran>>

\* NnopbaseExecutorGetStreamAndEvent, under the mutex of the table: an entry
\* is found or made, and the callback is registered once.
GetStreamAndEvent(c) ==
    /\ stage[c] = "get"
    /\ streamMap' = streamMap \cup {Main(c)}
    /\ subLive' = IF Main(c) \in streamMap THEN subLive ELSE subLive \cup {Main(c)}
    /\ \/ isRegisted' = TRUE /\ stage' = [stage EXCEPT ![c] = "lock"] /\ UNCHANGED launches
       \/ ~isRegisted /\ Return(c, "failed") /\ UNCHANGED isRegisted
    /\ UNCHANGED <<streamMtx, queue, recorded, reached, ran>>

\* Whom the stream's mutex lets in (mutant: everybody).
FreeAlways(m) == TRUE
Free(m) == streamMtx[m] = NoCaller

Lock(c) ==
    /\ stage[c] = "lock" /\ Free(Main(c))
    /\ streamMtx' = [streamMtx EXCEPT ![Main(c)] = c]
    /\ stage' = [stage EXCEPT ![c] = "recordA"]
    /\ UNCHANGED <<launches, streamMap, subLive, isRegisted, queue, recorded, reached, ran>>

\* The calls between Lock and the return, in order.
Locked == {"recordA", "waitA", "launchAic", "launchAiv", "recordB", "waitB"}
Holding(c) == stage[c] \in Locked

Issue(c, half, task) ==
    queue' = [queue EXCEPT ![<<Main(c), half>>] = Append(@, task)]

\* aclrtRecordEvent on one of the streams, aclrtStreamWaitEvent on the other.
Record(c, e, half) ==
    /\ stage[c] = IF e = "A" THEN "recordA" ELSE "recordB"
    /\ recorded' = [recorded EXCEPT ![Main(c)][e] = @ + 1]
    /\ Issue(c, half, [do |-> "record", event |-> e, n |-> recorded[Main(c)][e] + 1])
    /\ stage' = [stage EXCEPT ![c] = IF e = "A" THEN "waitA" ELSE "waitB"]
    /\ UNCHANGED <<launches, streamMap, subLive, streamMtx, isRegisted, reached, ran>>

Wait(c, e, half) == Issue(c, half, [do |-> "wait", event |-> e, n |-> recorded[Main(c)][e]])

WaitA(c) ==
    /\ stage[c] = "waitA"
    /\ Wait(c, "A", "sub")
    /\ stage' = [stage EXCEPT ![c] = "launchAic"]
    /\ UNCHANGED <<launches, streamMap, subLive, streamMtx, isRegisted, recorded, reached, ran>>

LaunchHalf(c, half) ==
    /\ stage[c] = IF half = "main" THEN "launchAic" ELSE "launchAiv"
    /\ LET l == launches[Latest(c)] IN Issue(c, half, Kernel(c, Halves(l.kind, l.dim)[half]))
    /\ stage' = [stage EXCEPT ![c] = IF half = "main" THEN "launchAiv" ELSE "recordB"]
    /\ UNCHANGED <<launches, streamMap, subLive, streamMtx, isRegisted, recorded, reached, ran>>

Unlock(c) == streamMtx' = [streamMtx EXCEPT ![Main(c)] = NoCaller]

WaitB(c) ==
    /\ stage[c] = "waitB"
    /\ Wait(c, "B", "main")
    /\ Return(c, "ok") /\ Unlock(c)
    /\ UNCHANGED <<streamMap, subLive, isRegisted, recorded, reached, ran>>

\* A call of the runtime fails: an early return, which leaves what was issued.
Fail(c) ==
    /\ stage[c] \in {"plain", "get"} \/ Holding(c)
    /\ Return(c, "failed")
    /\ IF Holding(c) THEN Unlock(c) ELSE UNCHANGED streamMtx
    /\ UNCHANGED <<streamMap, subLive, isRegisted, queue, recorded, reached, ran>>

\* NnopbaseDestroyStreamCallBack: a caller destroys its stream when nothing uses it; the callback, if it is
\* registered, destroys the second stream and the events.
DestroyStream(m) ==
    /\ m \in streamMap /\ isRegisted
    /\ \A c \in Caller : stage[c] # "idle" => Main(c) # m
    /\ \A half \in {"main", "sub"} : queue[<<m, half>>] = << >>
    /\ streamMap' = streamMap \ {m}
    /\ subLive' = subLive \ {m}
    /\ UNCHANGED <<launches, stage, streamMtx, isRegisted, queue, recorded, reached, ran>>
-----------------------------------------------------------------------------
\* The device works on the head of a queue.
Execute(q) ==
    /\ queue[q] # << >>
    /\ LET task == Head(queue[q]) IN
       \/ /\ task.do = "kernel"
          /\ ran' = Append(ran, [launch |-> task.launch, blocks |-> task.blocks])
          /\ UNCHANGED reached
       \/ /\ task.do = "record"
          /\ reached' = [reached EXCEPT ![q[1]][task.event] = task.n]
          /\ UNCHANGED ran
       \/ /\ task.do = "wait" /\ reached[q[1]][task.event] >= task.n
          /\ UNCHANGED <<reached, ran>>
    /\ queue' = [queue EXCEPT ![q] = Tail(@)]
    /\ UNCHANGED <<launches, stage, streamMap, subLive, streamMtx, isRegisted, recorded>>

SplitNext ==
    \/ \E c \in Caller :
         \/ /\ Len(launches) < Len(Asked)
            /\ \E k \in Asked[Len(launches) + 1], m \in MainStream : Begin(c, k, m)
         \/ LaunchPlain(c) \/ GetStreamAndEvent(c) \/ Lock(c)
         \/ Record(c, "A", "main") \/ WaitA(c)
         \/ LaunchHalf(c, "main") \/ LaunchHalf(c, "sub")
         \/ Record(c, "B", "sub") \/ WaitB(c)
         \/ Fail(c)
    \/ \E m \in MainStream : DestroyStream(m)
    \/ \E q \in Queues : Execute(q)
-----------------------------------------------------------------------------
(* Properties *)

Ran(l) == {i \in DOMAIN ran : ran[i].launch = l}
Parts(l) == IF launches[l].split THEN 2 ELSE 1

\* A launch that began after another had returned runs after the whole of it.
InCallOrder ==
    \A l \in DOMAIN launches : \A k \in launches[l].after : \A i \in Ran(l) :
        Cardinality({j \in Ran(k) : j < i}) = Parts(k)

\* Of two split launches on a stream, one has run wholly before the other, even
\* if two threads made them at the same time.
HalvesTogether ==
    \A k, l \in {l \in DOMAIN launches : launches[l].split /\ launches[l].res # "failed"} :
        k # l /\ launches[k].stream = launches[l].stream =>
            \A i, j \in Ran(k) : ~ \E n \in Ran(l) : i < n /\ n < j

\* Of a launch that has run, every block ran once.
BlocksOnce ==
    \A l \in DOMAIN launches :
        (Cardinality(Ran(l)) = Parts(l) /\ launches[l].kind # "mixAiCore") =>
            \A b \in 0 .. launches[l].dim + AivNum :
                Cardinality({i \in Ran(l) : b \in ran[i].blocks})
                    = IF b < launches[l].dim THEN 1 ELSE 0

\* Nobody uses a second stream or an event that was destroyed with a stream,
\* and no stream waits for a record that will not come.
StreamsUsable ==
    /\ \A c \in Caller : Holding(c) => Main(c) \in subLive
    /\ \A q \in Queues : \A i \in DOMAIN queue[q] :
         queue[q][i].do = "wait" =>
            \/ reached[q[1]][queue[q][i].event] >= queue[q][i].n
            \/ \E r \in Queues : \E j \in DOMAIN queue[r] :
                  /\ r # q
                  /\ [queue[r][j] EXCEPT !.do = "wait"] = queue[q][i]

\* The two halves of a split launch behave like one launch on the caller's
\* stream, whatever other threads launch there and whichever calls fail.
SplitOrdered == InCallOrder /\ HalvesTogether /\ BlocksOnce /\ StreamsUsable
=============================================================================
