----------------------------- MODULE DagBuffers -----------------------------
(***************************************************************************)
(* How a vector kernel of the device template library gets its local       *)
(* buffers, and what it finds in them.  A kernel is a list of nodes        *)
(* (FunList) that is run once per tile; two halves of the local memory,    *)
(* ping and pong, are used by turns.  At compile time the list is walked   *)
(* once to count the buffers (node.h, aux1.h, dag.h) and once to hand them *)
(* out (buffer.h); at run time every node reads the buffers of its         *)
(* arguments and overwrites its own.  An input that is the same for many   *)
(* tiles is loaded once and found again in its buffer.                     *)
(*                                                                         *)
(* Four schedules share this: "nddma" and "ub" of broadcast kernels,       *)
(* "onedim" of broadcasts with a single axis, "elewise".                   *)
(*                                                                         *)
(* Left out: scalar nodes, which take no buffer, scratch space of a node   *)
(* (TempSize), the node Brc and graphs with a reduction.                   *)
(***************************************************************************)
EXTENDS Naturals, Integers, Sequences, FiniteSets, FiniteSetsExt, SequencesExt

CONSTANTS
    MaxNodes,           \* bound on the length of FunList
    MaxLoops,           \* bound on the tiles of a block (ubLoopNum)
    UbOuter,            \* tiles along the axis that is split
    MaxBufferNumber     \* MAX_BUFFER_NUMBER

ASSUME DagAssumption ==
    /\ {MaxNodes, MaxLoops, UbOuter} \subseteq Nat \ {0}
    /\ MaxBufferNumber \in Nat

VARIABLES
    fun,    \* FunList: the nodes in the order they run
    sch,    \* the schedule the kernel is compiled for
    level,  \* MemOpt::memoryLevel, 0 when the library is to choose
    stage,  \* "build", "plan", "rejected", "ready", "run" or "done"
    ids,    \* GetBufferIds: the buffers of each node in either half
    still,  \* the inputs that are broadcast along the split axis
    first,  \* the first tile of the block
    loop,   \* ubLoopIdx
    mem,    \* what each buffer holds: a node and the tile it was made in
    wrong   \* the arguments that were read from a buffer with another content

dagVars == <<fun, sch, level, stage, ids, still, first, loop, mem, wrong>>

Schedules == {"nddma", "ub", "onedim", "elewise"}
Lists == {"mte2", "mte3", "temp", "pong"}
Nothing == [node |-> 0, tile |-> 0]

Nodes == 1 .. Len(fun)
IsCopyIn(p) == fun[p].op \in {"CopyIn", "CopyInBrc"}
IsBrc(p) == fun[p].op = "CopyInBrc"
IsCopyOut(p) == fun[p].op = "CopyOut"

\* The template arguments of GetBufferIds.
UseNddma == sch # "ub"
CacheBrc == sch # "elewise"

-----------------------------------------------------------------------------
(* What the template library reads off the list of nodes.                  *)

\* Is p an argument of a node from `from` on?
CheckIsInput(p, from) == \E q \in from .. Len(fun) : p \in fun[q].args

IsConnectOutput(p) == \E q \in Nodes : IsCopyOut(q) /\ p \in fun[q].args

\* The nodes that are alive while node s runs.
AliveNodes(s, cache) ==
    {p \in 1 .. s : /\ ~ IsCopyOut(p)
                    /\ p = s \/ CheckIsInput(p, s) \/ (cache /\ IsBrc(p))}

MaxOver(size(_)) == Max({size(s) : s \in Nodes})

\* Without NDDMA a broadcast is a copy and a vector broadcast: two buffers.
GetMaxAliveNodeSize(cache) ==
    LET Size(s) ==
            LET alive == AliveNodes(s, cache)
            IN  Cardinality(alive)
                + (IF UseNddma THEN 0 ELSE Cardinality({p \in alive : IsBrc(p)}))
    IN  MaxOver(Size)

FilterTempCalcNode(S) ==
    {p \in S : /\ ~ IsConnectOutput(p)
               /\ IsCopyIn(p) => IsBrc(p) /\ ~ UseNddma}

GetTempCalcNodeSize(cache) ==
    LET Size(s) == Cardinality(FilterTempCalcNode(AliveNodes(s, cache)))
    IN  MaxOver(Size)

InputSize == Cardinality({p \in Nodes : IsCopyIn(p)})
OutputSize == Cardinality({p \in Nodes : IsCopyOut(p)})

GMCountBeforeFirstCalcNode ==
    Cardinality({p \in Nodes : IsCopyIn(p) /\ \A q \in 1 .. p : fun[q].op # "Calc"})

GetFirstCopyOutNodeGMCount(cache) ==
    IF GetMaxAliveNodeSize(cache) > GMCountBeforeFirstCalcNode THEN 1 ELSE 0

GetLvl12Mte3Count == IF Len(fun) = InputSize + OutputSize THEN 0 ELSE OutputSize

GetLvl1TmpSize(cache) ==
    IF GetTempCalcNodeSize(cache) > 0 /\ GetMaxAliveNodeSize(cache) > InputSize
    THEN GetMaxAliveNodeSize(cache) - InputSize ELSE 0

\* As GetLvl0TmpSize, but a buffer for the output is not counted in.
Lvl0TmpSizeTwiceOut(cache) ==
    GetMaxAliveNodeSize(cache)
        - (GMCountBeforeFirstCalcNode + 2 * GetFirstCopyOutNodeGMCount(cache))

GetLvl0TmpSize(cache) ==
    GetMaxAliveNodeSize(cache)
        - (GMCountBeforeFirstCalcNode + GetFirstCopyOutNodeGMCount(cache))

GetBufferNumLevel0(cache) ==
    GetMaxAliveNodeSize(cache)
        + GMCountBeforeFirstCalcNode + GetFirstCopyOutNodeGMCount(cache)
GetBufferNumLevel1(cache) ==
    GetLvl1TmpSize(cache) + InputSize * 2 + GetLvl12Mte3Count * 2
GetBufferNumLevel2(cache) ==
    GetTempCalcNodeSize(cache) + InputSize * 2 + GetLvl12Mte3Count * 2

ChooseBufferLevel(cache) ==
    IF level # 0 THEN level
    ELSE IF GetBufferNumLevel2(cache) <= MaxBufferNumber THEN 2
    ELSE IF GetBufferNumLevel1(cache) <= MaxBufferNumber THEN 1
    ELSE 0

\* The level, and the lengths of the three lists, of the walk.
Level == ChooseBufferLevel(CacheBrc)
GetMte2Num == IF Level = 0 THEN GMCountBeforeFirstCalcNode ELSE InputSize
GetMte3Num ==
    IF Level = 0 THEN GetFirstCopyOutNodeGMCount(CacheBrc) ELSE GetLvl12Mte3Count
GetTempBufNum ==
    <<GetLvl0TmpSize(CacheBrc), GetLvl1TmpSize(CacheBrc), GetTempCalcNodeSize(CacheBrc)>>[Level + 1]

\* The buffers there is room for.  The one dimensional schedule sizes its
\* memory by BufferNum, which is counted without cached broadcasts.
GetBufferNum ==
    LET cache == CacheBrc /\ sch # "onedim"
    IN  <<GetBufferNumLevel0(cache), GetBufferNumLevel1(cache),
          GetBufferNumLevel2(cache)>>[ChooseBufferLevel(cache) + 1]

-----------------------------------------------------------------------------
(* The walk that hands out the buffers.                                    *)

PongOffset == GetMte2Num + GetMte3Num + GetTempBufNum

GenerateBufferWrappers(n, list, offset) ==
    [i \in 1 .. n |-> [id |-> offset + i - 1, list |-> list]]

BufListList ==
    [mte2 |-> GenerateBufferWrappers(GetMte2Num, "mte2", 0),
     mte3 |-> GenerateBufferWrappers(GetMte3Num, "mte3", GetMte2Num),
     temp |-> GenerateBufferWrappers(GetTempBufNum, "temp", GetMte2Num + GetMte3Num),
     pong |-> IF Level # 0 THEN <<>>
              ELSE GenerateBufferWrappers(GetMte3Num, "pong", PongOffset + GetMte2Num)]

\* The buffer that stands for b in a tile of the other half.
CalcPongBufferId(b) ==
    CASE b.list = "temp" -> b.id
      [] b.list = "pong" -> b.id - PongOffset
      [] OTHER -> b.id + PongOffset

\* The lists a buffer of each kind may be taken from, in this order.
AllocMte2 == SubSeq(<<"mte2", "temp", "pong">>, 1, 3 - Level)
AllocTempBuffer ==
    <<<<"temp", "pong", "mte2">>, <<"temp", "mte2">>, <<"temp">>>>[Level + 1]
AllocMte3 ==
    IF Level = 0 THEN <<"mte3", "temp", "pong", "mte2">> ELSE <<"mte3">>

\* PriorityGetFront: the first of these lists that is not empty.
NotEmpty(lists, order) == SelectSeq(order, LAMBDA l : lists[l] # <<>>)
GetFront(lists, order) == Head(lists[NotEmpty(lists, order)[1]])
PopFront(lists, order) == [lists EXCEPT ![NotEmpty(lists, order)[1]] = Tail(@)]

\* The kinds of buffers node p needs; that of its own value comes last.
Needs(p) ==
    LET own == IF IsConnectOutput(p) THEN AllocMte3 ELSE AllocTempBuffer
    IN  CASE IsCopyOut(p) -> <<>>
          [] IsBrc(p) /\ ~ UseNddma -> <<AllocMte2, own>>
          [] IsCopyIn(p) -> <<AllocMte2>>
          [] OTHER -> <<own>>

\* The lists, and the buffers taken, after each kind in `needs` was served;
\* a kind that no list can serve does not compile.
Served(lists, needs) ==
    FoldLeft(LAMBDA acc, order :
                 IF acc.fails \/ NotEmpty(acc.lists, order) = <<>>
                 THEN [acc EXCEPT !.fails = TRUE]
                 ELSE [lists |-> PopFront(acc.lists, order),
                       bufs |-> <<GetFront(acc.lists, order)>> \o acc.bufs,
                       fails |-> FALSE],
             [lists |-> lists, bufs |-> <<>>, fails |-> FALSE], needs)

\* The arguments of p that no later node needs give their buffers back.
InputIsAbleToFree(a, p) == ~ (CacheBrc /\ IsBrc(a)) /\ ~ CheckIsInput(a, p + 1)
ReleaseAndUpdate(lists, got, p) ==
    LET given == FlattenSeq([a \in 1 .. p |->
                    IF a \in fun[p].args /\ InputIsAbleToFree(a, p) THEN got[a] ELSE <<>>])
    IN  [l \in Lists |-> lists[l] \o SelectSeq(given, LAMBDA b : b.list = l)]

\* The walk: the buffers of every node, or none when one cannot be served.
GenerateBufferIdOrder ==
    FoldLeft(LAMBDA acc, p :
                 LET served == Served(acc.lists, Needs(p))
                 IN  IF acc.fails \/ served.fails THEN [acc EXCEPT !.fails = TRUE]
                     ELSE [lists |-> ReleaseAndUpdate(served.lists, acc.got, p),
                           got |-> Append(acc.got, served.bufs), fails |-> FALSE],
             [lists |-> BufListList, got |-> <<>>, fails |-> FALSE],
             [p \in Nodes |-> p])

\* ExtractBufferId: the ids of both halves.
ExtractBufferId(got) ==
    [half \in {0, 1} |->
        [p \in Nodes |-> [i \in DOMAIN got[p] |->
            IF half = 0 THEN got[p][i].id ELSE CalcPongBufferId(got[p][i])]]]

BufferIds(got) ==
    UNION {ToSet(ExtractBufferId(got)[half][p]) : half \in {0, 1}, p \in Nodes}

-----------------------------------------------------------------------------
(* The run: which nodes a tile runs again and what they read.              *)

Half == loop % 2
Tile == first + loop

\* The tile along the split axis.
RealIdx == Tile % UbOuter

\* As Loads, but only the first tile of a row fills a buffer.
LoadsOnce(p, last) == p \notin still \/ loop = 0 \/ RealIdx = 0

\* Is the input loaded for this tile, or is the copy of an earlier one used?
\* The last tile of a block still goes by what held for the one before.
Loads(p, last) ==
    \/ p \notin still
    \/ sch = "nddma" /\ (loop <= 1 \/ RealIdx <= 1)
    \/ sch = "ub" /\ (loop = 0 \/ RealIdx = 0)
    \/ sch = "onedim" /\ (loop <= 1 \/ (loop = 2 /\ last))

Own(p) == ids[Half][p][1]

\* Does the buffer of p hold the value of p for this tile?  A still input may
\* come from an earlier tile of the same row, but not from its shorter last
\* one; a scalar may come from any.
Present(m, p) ==
    /\ m[Own(p)].node = p
    /\ LET made == m[Own(p)].tile
       IN  \/ made = Tile
           \/ p \in still /\ sch = "onedim"
           \/ /\ p \in still /\ made \div UbOuter = Tile \div UbOuter
              /\ made % UbOuter # UbOuter - 1

\* One node: it reads its arguments and overwrites its buffers.
RunOp(acc, p, last) ==
    [wrong |-> acc.wrong \cup {a \in fun[p].args : ~ Present(acc.mem, a)},
     mem |-> IF IsCopyOut(p) \/ (IsCopyIn(p) /\ ~ Loads(p, last)) THEN acc.mem
             ELSE [id \in DOMAIN acc.mem |->
                      IF id = Own(p) THEN [node |-> p, tile |-> Tile]
                      ELSE IF id \in ToSet(ids[Half][p]) THEN Nothing
                      ELSE acc.mem[id]]]

-----------------------------------------------------------------------------
DagInit ==
    /\ fun = <<>> /\ sch = "nddma" /\ level = 0
    /\ stage = "build" /\ ids = <<>>
    /\ still = {} /\ first = 0 /\ loop = 0
    /\ mem = <<>> /\ wrong = {}

\* The author of the kernel adds a node.
Add(op, args) ==
    /\ stage = "build" /\ Len(fun) < MaxNodes
    /\ \A a \in args : ~ IsCopyOut(a)
    /\ fun' = Append(fun, [op |-> op, args |-> args])
    /\ UNCHANGED <<sch, level, stage, ids, still, first, loop, mem, wrong>>

Build ==
    \/ \E op \in {"CopyIn", "CopyInBrc"} : Add(op, {})
    \/ \E args \in kSubset(1, Nodes) \cup kSubset(2, Nodes) : Add("Calc", args)
    \/ \E p \in Nodes : Add("CopyOut", {p})

\* The kernel is instantiated for a schedule.  FunList is what the outputs need.
Instantiate ==
    /\ stage = "build" /\ fun # <<>>
    /\ \A p \in Nodes : IsCopyOut(p) \/ CheckIsInput(p, p + 1)
    /\ sch' \in Schedules /\ level' \in 0 .. 2
    /\ sch' = "elewise" => \A p \in Nodes : ~ IsBrc(p)
    /\ stage' = "plan"
    /\ UNCHANGED <<fun, ids, still, first, loop, mem, wrong>>

GetBufferIds ==
    /\ stage = "plan"
    /\ LET order == GenerateBufferIdOrder
       IN  IF GetTempBufNum < 0 \/ order.fails
           THEN stage' = "rejected" /\ UNCHANGED <<ids, mem>>
           ELSE /\ stage' = "ready" /\ ids' = ExtractBufferId(order.got)
                /\ mem' = [id \in BufferIds(order.got) |-> Nothing]
    /\ UNCHANGED <<fun, sch, level, still, first, loop, wrong>>

\* Process: a block starts at one of the tiles.
Start ==
    /\ stage = "ready" /\ stage' = "run"
    /\ first' \in 0 .. UbOuter - 1
    /\ still' \in SUBSET {p \in Nodes : \/ IsBrc(p) /\ sch # "elewise"
                                        \/ IsCopyIn(p) /\ sch = "onedim"}
    /\ UNCHANGED <<fun, sch, level, ids, loop, mem, wrong>>

\* Run: the nodes for the tile at hand.  That it is the last of its block
\* matters to the one dimensional schedule only, in its third tile.
RunTile(last) ==
    /\ stage = "run" /\ loop < MaxLoops
    /\ last => sch = "onedim" /\ loop = 2
    /\ LET end == FoldLeft(LAMBDA acc, p : RunOp(acc, p, last),
                           [mem |-> mem, wrong |-> wrong], [p \in Nodes |-> p])
       IN  mem' = end.mem /\ wrong' = end.wrong
    /\ loop' = loop + 1 /\ stage' = IF last THEN "done" ELSE stage
    /\ UNCHANGED <<fun, sch, level, ids, still, first>>

DagNext ==
    \/ Build \/ Instantiate \/ GetBufferIds \/ Start
    \/ \E last \in BOOLEAN : RunTile(last)

DagSpec == DagInit /\ [][DagNext]_dagVars

-----------------------------------------------------------------------------
\* No other node is ever given a buffer of p.
Alone(p) ==
    \A h, g \in {0, 1} : \A q \in Nodes \ {p} : ids[h][p][1] \notin ToSet(ids[g][q])

\* Every node finds in the buffers of its arguments what the argument's node
\* made for this very tile, or, for an input that is kept from tile to tile,
\* for an earlier tile with the same data: ReleaseAndUpdateEs gives no buffer
\* back that is still to be read, and CopyInBrc loads again whenever a half
\* has no valid copy.  Two kinds of kept inputs are not covered, see the
\* hazards: below level 2 and in the "ub" schedule one whose buffer an earlier
\* node of the list uses too, and in "ub" one whose buffer differs by halves.
ReadsOwnInput ==
    \A p \in wrong :
        /\ p \in still
        /\ \/ Level # 2 /\ ~ Alone(p)
           \/ sch = "ub" /\ (~ Alone(p) \/ ids[0][p][1] # ids[1][p][1])

\* The counts of node.h are enough: the walk of buffer.h never finds all its
\* lists empty, and no id lies outside the memory that dag.h counts, in either
\* half.  The exceptions: a graph without any calculation that needs a buffer
\* to broadcast into ("not considered", GetLvl12Mte3Count) or more buffers than
\* are ever alive (GetLvl0TmpSize); and the one dimensional schedule below
\* level 2, which counts without cached broadcasts and hands out with them.
PlanFits ==
    /\ stage = "rejected" =>
         /\ \A p \in Nodes : fun[p].op # "Calc"
         /\ IF Level = 0 THEN GetTempBufNum < 0 ELSE sch = "ub"
    /\ stage = "ready" /\ (sch = "onedim" => Level = 2) =>
         DOMAIN mem \subseteq 0 .. GetBufferNum - 1
=============================================================================
