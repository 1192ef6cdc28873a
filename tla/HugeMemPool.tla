---------------------------- MODULE HugeMemPool ----------------------------
(***************************************************************************)
(* Bump allocation from 64 KB blocks                                       *)
(* (src/nnopbase/composite_op/mem_mgr/huge_mem.cpp, class HugeMemPool, and *)
(* the array hugeMemArray_ of block_pool.h).                               *)
(*                                                                         *)
(* gHugeMemPool[id] serves the objects of one operator call.  Its blocks   *)
(* come from an array shared by all pools; the first ones are kept in      *)
(* baseArray_, the others in a linked list.  Nothing is freed one by one:  *)
(* FreeHugeMem gives all blocks of a pool back.  An allocation that finds  *)
(* no block is served by the block cache instead, and is not tracked here. *)
(*                                                                         *)
(* Which thread uses which pool is the subject of ExecutorLifecycle;       *)
(* ExecutorMemory composes the two.                                        *)
(***************************************************************************)
EXTENDS Integers, Sequences, FiniteSets, Functions

CONSTANTS
    Pool,       \* indices of gHugeMemPool
    Block,      \* kHugeBlockNum blocks
    BlockSize,  \* kHugeBlockSize
    Offset,     \* kHugeBlockDefaultOffset: the space the offset word takes
    ArrayNum,   \* kMaxHugeMemPoolArryNum
    NoBlock

ASSUME PoolAssumption ==
    /\ BlockSize \in Nat /\ Offset \in Nat /\ Offset < BlockSize
    /\ ArrayNum \in Nat \ {0}
    /\ NoBlock \notin Block /\ IsFiniteSet(Block)

VARIABLES
    huge,    \* hugeMemArray_, a stack
    base,    \* base[p]: baseArray_ of pool p
    cur,     \* cur[p]: currentArrayIndex_
    links,   \* links[p]: blocks of the list from head_ to current_
    offset,  \* offset[b]: the first word of block b
    given,   \* memory handed out and still in use
    giving,  \* giving[p]: pointers ReleaseAllAddr still has to push back
    state,   \* state[p]: "open", or how far FreeHugeMem is
    lost     \* blocks dropped because no BlockLink could be allocated

poolVars == <<huge, base, cur, links, offset, given, giving, state, lost>>

Top(s) == s[Len(s)]
Pop(s) == SubSeq(s, 1, Len(s) - 1)

Slot == 0 .. ArrayNum - 1
Empty == [i \in Slot |-> NoBlock]

\* Requests that can come from a block at all (the test before the fast path).
Size == 1 .. BlockSize - Offset

PoolInit ==
        /\ huge \in {s \in [1 .. Cardinality(Block) -> Block] : Range(s) = Block}
        /\ base = [p \in Pool |-> Empty]
        /\ cur = [p \in Pool |-> 0]
        /\ links = [p \in Pool |-> <<>>]
        /\ offset = [b \in Block |-> 0]
        /\ given = {}
        /\ giving = [p \in Pool |-> <<>>]
        /\ state = [p \in Pool |-> "open"]
        /\ lost = {}
-----------------------------------------------------------------------------
(* GetAddr *)

Fits(b, size) == offset[b] + size <= BlockSize

\* The slot the fast path stops at: a block without room is left for good.
StopAt(p, size) ==
    IF cur[p] < ArrayNum /\ base[p][cur[p]] # NoBlock /\ ~ Fits(base[p][cur[p]], size)
    THEN cur[p] + 1 ELSE cur[p]

\* Mutant: the offset word is not advanced.
GiveInPlace(p, b, from, size) ==
    /\ offset' = [offset EXCEPT ![b] = from]
    /\ given' = given \cup {[pool |-> p, block |-> b, from |-> from, to |-> from + size]}

\* Take size bytes of block b, the first word of which says from.
Give(p, b, from, size) ==
    /\ offset' = [offset EXCEPT ![b] = from + size]
    /\ given' = given \cup {[pool |-> p, block |-> b, from |-> from, to |-> from + size]}

\* A block that is in use has room.
GetAddrBump(p, size) ==
    /\ state[p] = "open"
    /\ cur' = [cur EXCEPT ![p] = StopAt(p, size)]
    /\ \/ /\ cur'[p] < ArrayNum /\ base[p][cur'[p]] # NoBlock
          /\ Give(p, base[p][cur'[p]], offset[base[p][cur'[p]]], size)
       \/ /\ cur'[p] >= ArrayNum
          /\ links[p] # <<>> /\ Fits(Top(links[p]), size)
          /\ Give(p, Top(links[p]), offset[Top(links[p])], size)
    /\ UNCHANGED <<huge, base, links, giving, state, lost>>

\* A new block is needed: the array or, when it is full, the list gets one.
NeedsBlock(p, size) ==
    LET i == StopAt(p, size)
    IN  IF i < ArrayNum THEN base[p][i] = NoBlock
        ELSE ~ (links[p] # <<>> /\ Fits(Top(links[p]), size))

GetAddrArray(p, size) ==
    /\ state[p] = "open" /\ NeedsBlock(p, size) /\ huge # <<>>
    /\ cur' = [cur EXCEPT ![p] = StopAt(p, size)]
    /\ cur'[p] < ArrayNum
    /\ huge' = Pop(huge)
    /\ base' = [base EXCEPT ![p][cur'[p]] = Top(huge)]
    /\ Give(p, Top(huge), Offset, size)
    /\ UNCHANGED <<links, giving, state, lost>>

\* AddOneHugeBlockToLinkList; without memory for the link the block is gone.
GetAddrLink(p, size) ==
    /\ state[p] = "open" /\ NeedsBlock(p, size) /\ huge # <<>>
    /\ cur' = [cur EXCEPT ![p] = StopAt(p, size)]
    /\ cur'[p] >= ArrayNum
    /\ huge' = Pop(huge)
    /\ \/ /\ links' = [links EXCEPT ![p] = Append(@, Top(huge))]
          /\ Give(p, Top(huge), Offset, size)
          /\ UNCHANGED lost
       \/ /\ lost' = lost \cup {Top(huge)}
          /\ offset' = [offset EXCEPT ![Top(huge)] = Offset]
          /\ UNCHANGED <<links, given>>
    /\ UNCHANGED <<base, giving, state>>

\* No block is left: the block cache serves the request, but the slot was left.
GetAddrFallback(p, size) ==
    /\ state[p] = "open" /\ NeedsBlock(p, size) /\ huge = <<>>
    /\ cur' = [cur EXCEPT ![p] = StopAt(p, size)]
    /\ UNCHANGED <<huge, base, links, offset, given, giving, state, lost>>
-----------------------------------------------------------------------------
(* FreeHugeMem *)

\* Mutant: the linked blocks are forgotten.
HeldByArray(p) == [i \in 1 .. ArrayNum |-> base[p][i - 1]]

\* The pointers of pool p in the order in which ReleaseAllAddr goes through
\* them: all of baseArray_, whatever is in it, and the list.
Held(p) == [i \in 1 .. ArrayNum |-> base[p][i - 1]] \o links[p]

\* The call that used the pool is over.
FreeHugeMem(p) ==
    /\ state[p] = "open"
    /\ given' = {g \in given : g.pool # p}
    /\ giving' = [giving EXCEPT ![p] = Held(p)]
    /\ state' = [state EXCEPT ![p] = "release"]
    /\ UNCHANGED <<huge, base, cur, links, offset, lost>>

\* ReleaseAllAddr: one block after the other, each under the spinlock; a null
\* pointer is skipped.
FreeOneHugeBlock(p) ==
    /\ state[p] = "release" /\ giving[p] # <<>>
    /\ huge' = IF Head(giving[p]) = NoBlock THEN huge ELSE Append(huge, Head(giving[p]))
    /\ giving' = [giving EXCEPT ![p] = Tail(@)]
    /\ UNCHANGED <<base, cur, links, offset, given, state, lost>>

\* Mutant: the array of the pool keeps its blocks.
ReopenKeepsArray(p) ==
    /\ state[p] = "release" /\ giving[p] = <<>>
    /\ cur' = [cur EXCEPT ![p] = 0]
    /\ links' = [links EXCEPT ![p] = <<>>]
    /\ state' = [state EXCEPT ![p] = "open"]
    /\ UNCHANGED <<huge, base, offset, given, giving, lost>>

\* Init(false), after which the index may be taken again.
Reopen(p) ==
    /\ state[p] = "release" /\ giving[p] = <<>>
    /\ base' = [base EXCEPT ![p] = Empty]
    /\ cur' = [cur EXCEPT ![p] = 0]
    /\ links' = [links EXCEPT ![p] = <<>>]
    /\ state' = [state EXCEPT ![p] = "open"]
    /\ UNCHANGED <<huge, offset, given, giving, lost>>
-----------------------------------------------------------------------------
GetAddr(p, size) == \/ GetAddrBump(p, size) \/ GetAddrArray(p, size)
                    \/ GetAddrLink(p, size) \/ GetAddrFallback(p, size)

-----------------------------------------------------------------------------
(* Properties *)

\* The pointers a pool is responsible for, and the blocks among them.
Holding(p) == IF state[p] = "open" THEN Held(p) ELSE giving[p]
Blocks(p) == Range(Holding(p)) \ {NoBlock}

\* Two objects that are in use never share a byte, and none of them covers
\* the offset word of its block or reaches past its end, whatever blocks the
\* pools have exchanged.
Disjoint ==
    /\ \A g, h \in given :
          g # h /\ g.block = h.block => g.to <= h.from \/ h.to <= g.from
    /\ \A g \in given : Offset <= g.from /\ g.to <= BlockSize

\* Objects in use lie in blocks that their pool has and nobody else can take.
\* Only ReleaseAllAddr may have pushed a block its pool still names.
Backed ==
    /\ \A g \in given : g.block \in Range(Held(g.pool)) /\ g.block \notin Range(huge)
    /\ \A p, q \in Pool : p # q => Blocks(p) \cap Blocks(q) = {}

\* What a caller of GetAddr was given stays its own until its pool is released:
\* no other object overlaps it, and no other pool can come by its block.
ObjectsApart == Disjoint /\ Backed

\* Every block is in the shared array, with a pool, on its way back, or lost
\* with a link that could not be allocated.
Conserved ==
    /\ \A i, j \in DOMAIN huge : huge[i] = huge[j] => i = j
    /\ Block = Range(huge) \cup lost \cup UNION {Blocks(p) : p \in Pool}
-----------------------------------------------------------------------------
(* The inductive invariant of the pools.                                   *)

Object == [pool : Pool, block : Block, from : Nat, to : Nat]

PoolTypeOK ==
    /\ huge \in Seq(Block) /\ lost \subseteq Block
    /\ base \in [Pool -> [Slot -> Block \cup {NoBlock}]]
    /\ cur \in [Pool -> 0 .. ArrayNum]
    /\ links \in [Pool -> Seq(Block)]
    /\ offset \in [Block -> 0 .. BlockSize]
    /\ given \subseteq Object
    /\ giving \in [Pool -> Seq(Block \cup {NoBlock})]
    /\ state \in [Pool -> {"open", "release"}]

\* The fast path fills baseArray_ from the front; only a release has pointers
\* to go through.
Orderly ==
    \A p \in Pool : /\ \A i \in Slot : i > cur[p] => base[p][i] = NoBlock
                    /\ state[p] = "open" => giving[p] = <<>>

\* No block is named twice: not by the shared array, not by a pool, not by two
\* of them.
Sparse(s) == \A i, j \in DOMAIN s : s[i] = s[j] /\ s[i] # NoBlock => i = j

Single ==
    /\ IsInjective(huge) /\ Range(huge) \cap lost = {}
    /\ \A p \in Pool : Sparse(Holding(p)) /\ Blocks(p) \cap (Range(huge) \cup lost) = {}
    /\ \A p, q \in Pool : p # q => Blocks(p) \cap Blocks(q) = {}

\* The first word of a block a pool has is past itself.  An object in use ends
\* where that word says or before, and its pool is open and has the block.
Below ==
    /\ \A p \in Pool : \A b \in Blocks(p) : Offset <= offset[b]
    /\ \A g \in given : /\ state[g.pool] = "open" /\ g.block \in Blocks(g.pool)
                        /\ g.from < g.to /\ g.to <= offset[g.block]

PoolInv == PoolTypeOK /\ Orderly /\ Single /\ Below /\ Disjoint /\ Conserved
=============================================================================
