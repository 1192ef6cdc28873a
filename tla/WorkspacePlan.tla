--------------------------- MODULE WorkspacePlan ---------------------------
(***************************************************************************)
(* How the kernels of a composite operator share one workspace             *)
(* (common/utils/bridge_graph.cpp, kernel_graph.cpp, kernel_tensor.cpp and *)
(* composite_op/mem_mgr/memory_allocator.cpp).                             *)
(*                                                                         *)
(* Phase one adds one KernelNode per kernel; GetWorkspaceSize then gives   *)
(* every intermediate tensor an offset.  MaxAllocator puts tensors whose   *)
(* lifetimes do not overlap into one bucket; LinearAllocator gives each    *)
(* tensor room of its own.  Phase two runs the kernels in the order in     *)
(* which they were added (SortType::USER_CUSTOM).                          *)
(*                                                                         *)
(* A Storage stands for the aclStorage of a tensor that lives in the       *)
(* workspace; tensors of the user are left out.  One output and at most    *)
(* one scratch tensor (OP_WORKSPACE) per kernel.                           *)
(***************************************************************************)
EXTENDS Integers, Sequences, FiniteSets, Functions

CONSTANTS
    Storage,
    MaxNodes,   \* kernels of an operator
    MaxInputs,  \* inputs of a kernel that live in the workspace
    MaxWrites,  \* kernels that write one storage: more than one is in-place
    SizeSet,    \* tensor sizes
    Extra,      \* EXTRA_SIZE_IN_BYTE
    AlignTo,    \* ALIGN_SIZE_IN_BYTE
    None

ASSUME PlanAssumption ==
    /\ MaxNodes \in Nat /\ MaxInputs \in Nat /\ MaxWrites \in Nat
    /\ SizeSet \subseteq Nat /\ Extra \in Nat /\ AlignTo \in Nat \ {0}
    /\ None \notin Storage

VARIABLES
    size,     \* bytes of a storage
    nodes,    \* kernelNodes_
    tensors,  \* the kernel tensors that get memory, in the order of
              \* sortedKernelTensors_
    extend,   \* extend[s]: the kernel tensor aclStorage::extend_ points to
    phase,    \* "build", then the loops of an allocator, then "done"
    next,     \* the tensor, then the bucket, the loop is at
    buckets,  \* buckets_ of MaxAllocator
    offset,   \* offset[s]: workspaceOffset_
    total     \* size_ of the allocator

graph == <<size, nodes, tensors, extend>>
plan == <<next, buckets, offset, total>>
vars == <<graph, phase, plan>>

Max(a, b) == IF a > b THEN a ELSE b
Placeholder == -1   \* OFFSET_PLACEHOLDER

Init == /\ size \in [Storage -> SizeSet]
        /\ nodes = <<>> /\ tensors = <<>>
        /\ extend = [s \in Storage |-> 0]
        /\ phase = "build"
        /\ next = 1 /\ buckets = <<>>
        /\ offset = [s \in Storage |-> 0]
        /\ total = 0
-----------------------------------------------------------------------------
(* Building the graph *)

Some(s) == {s} \ {None}

Used == UNION {nodes[i].ins \cup Some(nodes[i].out) \cup Some(nodes[i].scratch) :
               i \in DOMAIN nodes}
Writers(s) == {i \in DOMAIN nodes : nodes[i].out = s}

\* Mutant: an input is not linked to the kernel that wrote it.
LinkedOutput(ins, out) == {extend[s] : s \in Some(out)} \ {0}

\* The kernel tensors a new node becomes a peer of: the last writers of its
\* inputs, and of its own output.
Linked(ins, out) == {extend[s] : s \in ins \cup Some(out)} \ {0}

Tensor(s, n) == [storage |-> s, node |-> n, peers |-> {}]

WithPeer(t, n) == [t EXCEPT !.peers = @ \cup {n}]

\* BuildGraph of one kernel; a node's scratch tensor is listed before its
\* output.
AddNode(ins, out, scratch) ==
    LET n == Len(nodes) + 1
        linked == [i \in DOMAIN tensors |->
                     IF i \in Linked(ins, out) THEN WithPeer(tensors[i], n)
                     ELSE tensors[i]]
        withScratch == IF scratch = None THEN linked
                       ELSE Append(linked, Tensor(scratch, n))
    IN  /\ phase = "build" /\ n <= MaxNodes
        /\ Cardinality(ins) <= MaxInputs
        /\ \A s \in ins : Writers(s) # {}
        /\ out \in Used => Writers(out) # {} /\ Cardinality(Writers(out)) < MaxWrites
        /\ scratch = None \/ scratch \notin Used \cup {out}
        /\ nodes' = Append(nodes, [ins |-> ins, out |-> out, scratch |-> scratch])
        /\ tensors' = IF out = None THEN withScratch
                      ELSE Append(withScratch, Tensor(out, n))
        /\ extend' = IF out = None THEN extend
                     ELSE [extend EXCEPT ![out] = Len(withScratch) + 1]
        /\ UNCHANGED <<size, phase, plan>>

\* CalcLifeTimeAndSize
LifeTimeStart(t) == t.node
LifeTimeEnd(t) == CHOOSE e \in {t.node} \cup t.peers : \A p \in {t.node} \cup t.peers : p <= e

Align(n) == ((n + Extra + AlignTo - 1) \div AlignTo) * AlignTo
-----------------------------------------------------------------------------
(* MaxAllocator, from GetWorkspaceSize *)

GetWorkspaceSize ==
    /\ phase = "build" /\ nodes # <<>>
    /\ phase' = "place"
    /\ UNCHANGED <<graph, plan>>

\* Mutant: lifetimes that only touch count as disjoint.
IsLifeTimeTouching(a, b) ==
    IF LifeTimeStart(b) >= LifeTimeStart(a) THEN LifeTimeEnd(a) <= LifeTimeStart(b)
    ELSE LifeTimeEnd(b) <= LifeTimeStart(a)

IsLifeTimeNotOverLap(a, b) ==
    /\ LifeTimeStart(a) # LifeTimeStart(b)
    /\ IF LifeTimeStart(b) > LifeTimeStart(a) THEN LifeTimeEnd(a) < LifeTimeStart(b)
       ELSE LifeTimeEnd(b) < LifeTimeStart(a)

IsInputOf(a, b) == a.storage \in nodes[b.node].ins

\* Only the tensor that was added last is looked at.
IsReusable(bucket, t) ==
    LET back == tensors[bucket.refs[Len(bucket.refs)]]
    IN  IsLifeTimeNotOverLap(back, t) /\ ~ IsInputOf(back, t)

Reusable(t) == {b \in DOMAIN buckets : IsReusable(buckets[b], t)}

\* Mutant: the size of a bucket is the size of its first tensor.
AddRefKeepsSize(bucket, i) ==
    [size |-> IF bucket.refs = <<>> THEN Align(size[tensors[i].storage]) ELSE bucket.size,
     refs |-> Append(bucket.refs, i)]

AddRef(bucket, i) == [size |-> Max(bucket.size, Align(size[tensors[i].storage])),
                      refs |-> Append(bucket.refs, i)]

\* One turn of the first loop of Allocate.  A storage that is in a bucket
\* already, marked by the placeholder, is not placed again; otherwise the
\* last bucket that can be reused, or a new one, gets the tensor.
Place ==
    /\ phase = "place" /\ next <= Len(tensors)
    /\ next' = next + 1
    /\ LET t == tensors[next]
           fit == Reusable(t)
           best == CHOOSE b \in fit : \A c \in fit : c <= b
       IN  IF offset[t.storage] = Placeholder THEN UNCHANGED <<buckets, offset>>
           ELSE /\ buckets' = IF fit = {}
                              THEN Append(buckets, AddRef([size |-> 0, refs |-> <<>>], next))
                              ELSE [buckets EXCEPT ![best] = AddRef(@, next)]
                /\ offset' = [offset EXCEPT ![t.storage] = Placeholder]
    /\ UNCHANGED <<graph, phase, total>>

PlacedAll ==
    /\ phase = "place" /\ next > Len(tensors)
    /\ phase' = "offset" /\ next' = 1
    /\ UNCHANGED <<graph, buckets, offset, total>>

\* The storages that share bucket b.
Inside(b) == {tensors[i].storage : i \in Range(buckets[b].refs)}

\* One turn of the second loop: the buckets lie one behind the other.
UpdateOffset ==
    /\ phase = "offset" /\ next <= Len(buckets)
    /\ next' = next + 1
    /\ offset' = [s \in Storage |-> IF s \in Inside(next) THEN total ELSE offset[s]]
    /\ total' = total + buckets[next].size
    /\ UNCHANGED <<graph, phase, buckets>>

OffsetsDone ==
    /\ phase = "offset" /\ next > Len(buckets)
    /\ phase' = "done"
    /\ UNCHANGED <<graph, plan>>
-----------------------------------------------------------------------------
(* LinearAllocator *)

GetLinearWorkspaceSize ==
    /\ phase = "build" /\ nodes # <<>>
    /\ phase' = "linear"
    /\ UNCHANGED <<graph, plan>>

PlaceLinear ==
    /\ phase = "linear" /\ next <= Len(tensors)
    /\ next' = next + 1
    /\ offset' = [offset EXCEPT ![tensors[next].storage] = total]
    /\ total' = total + Align(size[tensors[next].storage])
    /\ UNCHANGED <<graph, phase, buckets>>

LinearDone ==
    /\ phase = "linear" /\ next > Len(tensors)
    /\ phase' = "done"
    /\ UNCHANGED <<graph, plan>>
-----------------------------------------------------------------------------
\* The plan is kept until the executor is deleted.
Keep == phase = "done" /\ UNCHANGED vars

Next == \/ \E ins \in SUBSET Storage, out, scratch \in Storage \cup {None} :
              AddNode(ins, out, scratch)
        \/ GetWorkspaceSize \/ Place \/ PlacedAll \/ UpdateOffset \/ OffsetsDone
        \/ GetLinearWorkspaceSize \/ PlaceLinear \/ LinearDone
        \/ Keep

Spec == Init /\ [][Next]_vars
-----------------------------------------------------------------------------
(* Properties *)

TensorSet == [storage : Storage, node : 1 .. MaxNodes, peers : SUBSET (1 .. MaxNodes)]

TypeOK == /\ size \in [Storage -> SizeSet]
          /\ nodes \in Seq([ins : SUBSET Storage, out : Storage \cup {None},
                            scratch : Storage \cup {None}])
          /\ tensors \in Seq(TensorSet)
          /\ extend \in [Storage -> 0 .. Len(tensors)]
          /\ phase \in {"build", "place", "offset", "linear", "done"}
          /\ next \in Nat \ {0}
          /\ buckets \in Seq([size : Nat, refs : Seq(DOMAIN tensors)])
          /\ offset \in [Storage -> Nat \cup {Placeholder}]
          /\ total \in Nat

\* Two storages have bytes of the workspace in common.
Overlap(s, t) == /\ offset[s] < offset[t] + size[t]
                 /\ offset[t] < offset[s] + size[s]

\* What kernel k writes.
Written(k) == Some(nodes[k].out) \cup Some(nodes[k].scratch)

\* The kernel whose output kernel j finds in its input s.
LastWriter(s, j) ==
    LET before == {i \in Writers(s) : i < j}
    IN  CHOOSE i \in before : \A h \in before : h <= i

\* Every kernel finds in its inputs what was computed for it: between the
\* kernel that wrote an intermediate tensor and a kernel that reads it, both
\* included, no kernel writes another tensor or its scratch memory to a place
\* that overlaps it.
InputsKept ==
    phase = "done" =>
      \A j \in DOMAIN nodes : \A s \in nodes[j].ins :
        LET i == LastWriter(s, j)
        IN  \A k \in i .. j : \A t \in Written(k) \ {s} : ~ Overlap(s, t)

\* Every tensor lies inside the workspace the caller is asked for, and the
\* output of a kernel and its scratch memory are apart.
InsideWorkspace ==
    phase = "done" =>
      /\ \A t \in Range(tensors) : /\ 0 <= offset[t.storage]
                                   /\ offset[t.storage] + size[t.storage] <= total
      /\ \A k \in DOMAIN nodes : \A s, t \in Written(k) : s # t => ~ Overlap(s, t)

\* Any two tensors of a bucket have disjoint lifetimes, although only the
\* last one was compared.
BucketsDisjoint ==
    \A b \in DOMAIN buckets : \A x, y \in DOMAIN buckets[b].refs :
      x < y => LifeTimeEnd(tensors[buckets[b].refs[x]])
                 < LifeTimeStart(tensors[buckets[b].refs[y]])

\* The kernel tensors are listed in the order of their kernels.
Sorted ==
    /\ \A i \in DOMAIN tensors : tensors[i].node <= Len(nodes)
    /\ \A i, j \in DOMAIN tensors : i <= j => tensors[i].node <= tensors[j].node

\* Buckets are filled in the order of the list, none is empty.
Filled ==
    /\ phase \in {"build", "linear"} => buckets = <<>>
    /\ \A b \in DOMAIN buckets :
         /\ buckets[b].refs # <<>>
         /\ \A x \in DOMAIN buckets[b].refs : phase = "place" => buckets[b].refs[x] < next
         /\ \A x, y \in DOMAIN buckets[b].refs : x < y => buckets[b].refs[x] < buckets[b].refs[y]

\* The inductive invariant behind BucketsDisjoint.
IndInv == TypeOK /\ Sorted /\ Filled /\ BucketsDisjoint

(* What the graph knows of its kernels *)

\* What a kernel writes has a kernel tensor of that kernel, and every kernel
\* tensor is one of these.
Covered ==
    /\ \A k \in DOMAIN nodes : \A s \in Written(k) :
         \E i \in DOMAIN tensors : tensors[i].storage = s /\ tensors[i].node = k
    /\ \A i \in DOMAIN tensors : /\ tensors[i].node \in DOMAIN nodes
                                 /\ tensors[i].storage \in Written(tensors[i].node)

\* The extend_ of a storage some kernel wrote points to a tensor of it.
Pointed == \A s \in Storage : Writers(s) # {} =>
             extend[s] \in DOMAIN tensors /\ tensors[extend[s]].storage = s

\* What a kernel reads was written before, and a tensor of it knows the kernel.
Wired == \A j \in DOMAIN nodes : \A s \in nodes[j].ins :
           /\ \E i \in Writers(s) : i < j
           /\ \E i \in DOMAIN tensors : tensors[i].storage = s /\ j \in tensors[i].peers

\* Without in-place kernels a storage has one kernel tensor.
Once == MaxWrites = 1 =>
          \A i, j \in DOMAIN tensors : tensors[i].storage = tensors[j].storage => i = j

GraphInv == Covered /\ Pointed /\ Wired /\ Once

(* What the allocators know of the memory they gave *)

\* A bucket is as large as each of its tensors; no storage is in two buckets.
Fitting ==
    /\ \A b \in DOMAIN buckets : \A s \in Inside(b) : Align(size[s]) <= buckets[b].size
    /\ \A b, c \in DOMAIN buckets : Inside(b) \cap Inside(c) # {} => b = c

\* While tensors are placed the placeholder marks the storages in a bucket;
\* afterwards every tensor is in one.
Marked ==
    /\ phase \in {"build", "place"} =>
         \A s \in Storage : offset[s] = Placeholder <=> \E b \in DOMAIN buckets : s \in Inside(b)
    /\ phase = "build" => next = 1 /\ total = 0
    /\ phase = "place" =>
         /\ total = 0
         /\ \A i \in DOMAIN tensors : i < next => offset[tensors[i].storage] = Placeholder
    /\ phase = "offset" \/ (phase = "done" /\ buckets # <<>>) =>
         \A i \in DOMAIN tensors : \E b \in DOMAIN buckets : tensors[i].storage \in Inside(b)

\* The buckets that have an offset lie inside the workspace, one behind the
\* other.
Laid == {b \in DOMAIN buckets : phase = "done" \/ (phase = "offset" /\ b < next)}
Stacked ==
    /\ \A b \in Laid : \A s \in Inside(b) :
         0 <= offset[s] /\ offset[s] + buckets[b].size <= total
    /\ \A b, c \in Laid : \A s \in Inside(b), t \in Inside(c) :
         b < c => offset[s] + buckets[b].size <= offset[t]

\* So do the tensors that LinearAllocator placed.
Lined == {i \in DOMAIN tensors : \/ phase = "linear" /\ i < next
                                 \/ phase = "done" /\ buckets = <<>>}
Linear ==
    LET End(s) == offset[s] + Align(size[s])
    IN  /\ \A i \in Lined : LET s == tensors[i].storage
                            IN  0 <= offset[s] /\ End(s) <= total
        /\ \A i, j \in Lined : LET s == tensors[i].storage
                                   t == tensors[j].storage
                               IN  s # t => End(s) <= offset[t] \/ End(t) <= offset[s]

AllocInv == Fitting /\ Marked /\ Stacked /\ Linear

\* The inductive invariant behind InputsKept and InsideWorkspace.
PlanInv == IndInv /\ GraphInv /\ AllocInv
=============================================================================
