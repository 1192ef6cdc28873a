------------------------------ MODULE ArgsPool ------------------------------
(***************************************************************************)
(* Launch arguments of single-operator executors                           *)
(* (src/nnopbase/individual_op/executor/indv_args_pool.cpp and the calls   *)
(* of indv_executor.cpp, indv_executor_ext.cpp, individual_op_api.cpp).    *)
(*                                                                         *)
(* Phase one of an operator computes its launch arguments (kernel binary,  *)
(* tiling) and files them in the ArgsPool under a key made of the operator *)
(* and its shapes; a later phase one with the same key takes them from     *)
(* there.  Arguments in use are pinned (isVist).  The pool is an LRU list  *)
(* with a limit; arguments of a repeatable executor are moved out of it    *)
(* and put back when the executor is destroyed.                            *)
(*                                                                         *)
(* Every executor also embeds arguments of its own, which are used when    *)
(* caching is off; the executor's identity stands for them.                *)
(***************************************************************************)
EXTENDS Integers, Sequences, FiniteSets, Functions

CONSTANTS
    Executor,     \* executors of one space
    Heap,         \* addresses NnopbaseExecutorArgs can be allocated at
    Part,         \* shapes, types and attributes an input can have; and
                  \* operator, core numbers and rank together
    PartNum,      \* parts of a whole key: one per NnopbaseAdd* call, and last
                  \* the one that NnopbaseMatchArgs adds
    Key,          \* whole keys
    Seed,         \* Seed[t]: NnopbaseHashBinary of the text t
    MaxCacheNum,  \* maxCacheNum (ACLNN_CACHE_LIMIT)
    MayRepeat,    \* callers use aclSetAclOpExecutorRepeatable
    MayRecord,    \* opProfilingSwitch.recordOpArgFlag may be switched
    MayFail,      \* kernel lookup or tiling may fail
    None

\* What can be written to inputKey: the parts of a key, some of them left out.
Text == UNION {[1 .. n -> Part] : n \in 0 .. PartNum}

ASSUME ArgsPoolAssumption ==
    /\ MaxCacheNum \in Nat
    /\ Executor \cap Heap = {}
    /\ None \notin Executor \cup Heap
    /\ MayRepeat \in BOOLEAN /\ MayRecord \in BOOLEAN /\ MayFail \in BOOLEAN

ASSUME KeyAssumption ==
    /\ PartNum \in Nat \ {0}
    /\ Key \subseteq [1 .. PartNum -> Part]
    /\ None \notin Text
    /\ DOMAIN Seed = Text

VARIABLES
    phase,          \* phase[e]: how far the current use of e has come
    args,           \* args[e]: executor->args
    wanted,         \* wanted[e]: the key of what the caller asks for
    added,          \* added[e]: NnopbaseAdd* calls made, while they are made
    text,           \* text[e]: inputKey of ownArgs
    isCachedArgs,   \* isCachedArgs[e]
    enableCache,    \* enableCache[e]: that of ownArgs
    repeatable,     \* repeatable[e]: repeateFlag
    alive,          \* allocated arguments
    key,            \* key[a]: inputKey, keyLen and seed of a
    tiled,          \* tiled[a]: the key that binInfo and tilingInfo are for
    isVist,         \* isVist[a]
    cacheList,      \* LRU list, the most recently used first
    argsCache,      \* arguments with a position in cacheList
    argsMap,        \* argsMap[s]: arguments that can be matched
    fixedCacheMap,  \* fixedCacheMap[s]: arguments of repeatable executors
    recording       \* recordOpArgFlag

asks     == <<wanted, added, text>>
execVars == <<phase, args, asks, isCachedArgs, enableCache, repeatable>>
argVars  == <<alive, key, tiled, isVist>>
poolVars == <<cacheList, argsCache, argsMap, fixedCacheMap>>
vars     == <<execVars, argVars, poolVars, recording>>

Args  == Heap \cup Executor
Seeds == {Seed[t] : t \in Text}

Phases == {"idle", "adding", "sealed", "bypassed", "open", "missed", "created",
           "failed", "ready", "clearing", "released"}

Init == /\ phase = [e \in Executor |-> "idle"]
        /\ args = [e \in Executor |-> None]
        /\ wanted = [e \in Executor |-> None]
        /\ added = [e \in Executor |-> 0]
        /\ text = [e \in Executor |-> <<>>]
        /\ isCachedArgs = [e \in Executor |-> FALSE]
        /\ enableCache = [e \in Executor |-> TRUE]
        /\ repeatable = [e \in Executor |-> FALSE]
        /\ alive = {}
        /\ key = [a \in Args |-> None]
        /\ tiled = [a \in Args |-> None]
        /\ isVist = [a \in Args |-> FALSE]
        /\ cacheList = <<>>
        /\ argsCache = {}
        /\ argsMap = [s \in Seeds |-> {}]
        /\ fixedCacheMap = [s \in Seeds |-> {}]
        /\ recording = FALSE

-----------------------------------------------------------------------------
(* The pool.  Each of these runs under ArgsPool::mutex.                    *)

\* argsCache[a] is the position of a in cacheList; erasing there (mutant: the
\* entry stays).
Position(a) == CHOOSE i \in DOMAIN cacheList : cacheList[i] = a
WithoutNone(a) == cacheList
Without(a) == SubSeq(cacheList, 1, Position(a) - 1)
                 \o SubSeq(cacheList, Position(a) + 1, Len(cacheList))

\* Get: a matched entry becomes the most recently used one.
MoveToFront(a) == IF a \in argsCache THEN <<a>> \o Without(a) ELSE cacheList

\* Put drops entries from the back until the pool is below its limit, is
\* empty, or the oldest entry is in use.  StopAt is the length that is left.
\* (Mutant: pinned entries are evicted too.)
CountAt(n) ==
    Cardinality(argsCache \ Range(SubSeq(cacheList, n + 1, Len(cacheList))))
StopsAtUnused(n) == n = 0 \/ CountAt(n) < MaxCacheNum
StopsAt(n) == n = 0 \/ CountAt(n) < MaxCacheNum \/ isVist[cacheList[n]]
StopAt == CHOOSE n \in 0 .. Len(cacheList) :
             /\ StopsAt(n)
             /\ \A m \in n + 1 .. Len(cacheList) : ~StopsAt(m)

Erased == Range(SubSeq(cacheList, StopAt + 1, Len(cacheList)))

\* EraseArgs: what is deleted is taken out of argsMap, under its own seed
\* (mutant: it is not).
UnmappedNone(s) == argsMap[s]
Unmapped(s) == argsMap[s] \ {a \in Erased : key[a] \in Text /\ Seed[key[a]] = s}

\* Put: make room, then file a at the front.
Put(a) ==
    /\ cacheList' = <<a>> \o SubSeq(cacheList, 1, StopAt)
    /\ argsCache' = (argsCache \ Erased) \cup {a}

\* What CreateArgs makes of argsMap: a is appended, Put erases the old
\* ones.
Filed(e, a) == [s \in Seeds |-> IF s = Seed[text[e]]
                                THEN Unmapped(s) \cup {a} ELSE Unmapped(s)]

\* The end of ReleaseArgs.
Unpinned(a) == [isVist EXCEPT ![a] = FALSE]

\* IsArgsMatch (mutants: in use or not; equal seeds are enough).
IsArgsMatchPinned(a, e) == key[a] = text[e]
IsArgsMatchSeed(a, e) == ~isVist[a]
IsArgsMatch(a, e) == ~isVist[a] /\ key[a] = text[e]

\* MatchArgs, where it succeeds: a is pinned and becomes executor->args.
MatchArgs(e, a) ==
    /\ MaxCacheNum > 0
    /\ a \in argsMap[Seed[text[e]]]
    /\ IsArgsMatch(a, e)
    /\ args' = [args EXCEPT ![e] = a]
    /\ isCachedArgs' = [isCachedArgs EXCEPT ![e] = TRUE]
    /\ isVist' = [isVist EXCEPT ![a] = TRUE]
    /\ cacheList' = MoveToFront(a)
    /\ UNCHANGED <<asks, enableCache, repeatable, alive, key, tiled, argsCache,
                   argsMap, fixedCacheMap, recording>>

\* MatchArgs, where it fails: a pool of size 0 switches caching off.
MissArgs(e) ==
    /\ MaxCacheNum > 0 =>
          \A a \in argsMap[Seed[text[e]]] : ~IsArgsMatch(a, e)
    /\ enableCache' = [enableCache EXCEPT ![e] = @ /\ MaxCacheNum > 0]

-----------------------------------------------------------------------------
(* Phase one.                                                              *)

\* NnopbaseGetExecutor, for a caller of the newer entry (matchArgsV2) or of
\* the older one: an executor that is not at work.  In the older entry the key
\* is written in one go, by GenArgsKey, before it is used.
GetExecutor(e, k, matchArgsV2) ==
    /\ phase[e] = "idle"
    /\ phase' = [phase EXCEPT ![e] = IF matchArgsV2 THEN "adding" ELSE "open"]
    /\ wanted' = [wanted EXCEPT ![e] = k]
    /\ added' = [added EXCEPT ![e] = 0]
    /\ text' = [text EXCEPT ![e] = IF matchArgsV2 THEN <<>> ELSE k]
    /\ UNCHANGED <<args, isCachedArgs, enableCache, repeatable, argVars, poolVars,
                   recording>>

\* The next part of the key of what the caller of e asks for.
NextPart(e) == wanted[e][added[e] + 1]

\* An NnopbaseAdd* call of the newer entry: its part of the key is written only
\* where the switch is off at this moment.
Adds(e) == IF recording THEN text[e] ELSE Append(text[e], NextPart(e))
AddPart(e) ==
    /\ phase[e] = "adding" /\ added[e] + 1 < PartNum
    /\ added' = [added EXCEPT ![e] = @ + 1]
    /\ text' = [text EXCEPT ![e] = Adds(e)]
    /\ UNCHANGED <<phase, args, wanted, isCachedArgs, enableCache, repeatable,
                   argVars, poolVars, recording>>

\* NnopbaseMatchArgs, after the NnopbaseAdd* calls: the last part of the key,
SealKey(e) ==
    /\ phase[e] = "adding" /\ added[e] + 1 = PartNum
    /\ ~recording
    /\ phase' = [phase EXCEPT ![e] = "sealed"]
    /\ added' = [added EXCEPT ![e] = 0]
    /\ text' = [text EXCEPT ![e] = Append(@, NextPart(e))]
    /\ UNCHANGED <<args, wanted, isCachedArgs, enableCache, repeatable, argVars,
                   poolVars, recording>>

\* or nothing of the kind.  Without its last part the key is that of no cached
\* arguments.
BypassCache(e) ==
    /\ phase[e] = "adding" /\ added[e] + 1 = PartNum
    /\ recording
    /\ phase' = [phase EXCEPT ![e] = "bypassed"]
    /\ added' = [added EXCEPT ![e] = 0]
    /\ enableCache' = [enableCache EXCEPT ![e] = FALSE]
    /\ UNCHANGED <<args, wanted, text, isCachedArgs, repeatable, argVars, poolVars,
                   recording>>

\* The match in NnopbaseMatchArgs: one with contiguous inputs ends phase one, one
\* with others goes on to RunForWorkspace with the arguments it has.
EarlyMatch(e, a) ==
    /\ phase[e] = "sealed"
    /\ MatchArgs(e, a)
    /\ \E p \in {"ready", "open"} : phase' = [phase EXCEPT ![e] = p]

\* NnopbaseMatchArgs without a match.
EarlyMiss(e) ==
    /\ phase[e] = "sealed"
    /\ MissArgs(e)
    /\ phase' = [phase EXCEPT ![e] = "open"]
    /\ UNCHANGED <<args, asks, isCachedArgs, repeatable, argVars, poolVars, recording>>

\* NnopbaseExecutorMatchCache up to the creation of new arguments: the early
\* match is good enough,
KeepMatch(e) ==
    /\ phase[e] = "open" /\ ~recording /\ isCachedArgs[e]
    /\ phase' = [phase EXCEPT ![e] = "ready"]
    /\ UNCHANGED <<args, asks, isCachedArgs, enableCache, repeatable, argVars,
                   poolVars, recording>>

\* or there is a match now,
LateMatch(e, a) ==
    /\ phase[e] = "open" /\ ~recording /\ ~isCachedArgs[e]
    /\ MatchArgs(e, a)
    /\ phase' = [phase EXCEPT ![e] = "ready"]

\* or there is none, or the cache is not to be used.
LateMiss(e) ==
    /\ phase[e] \in {"open", "bypassed"}
    /\ \/ /\ recording
          /\ enableCache' = [enableCache EXCEPT ![e] = FALSE]
       \/ ~recording /\ phase[e] = "bypassed" /\ UNCHANGED enableCache
       \/ ~recording /\ phase[e] = "open" /\ ~isCachedArgs[e] /\ MissArgs(e)
    /\ phase' = [phase EXCEPT ![e] = "missed"]
    /\ UNCHANGED <<args, asks, isCachedArgs, repeatable, argVars, poolVars, recording>>

\* CreateArgs, the part under the lock: the new arguments are in the pool
\* before their key is.
CreateArgs(e, a) ==
    /\ phase[e] = "missed" /\ enableCache[e]
    /\ a \in Heap \ alive
    /\ Put(a)
    /\ alive' = (alive \ Erased) \cup {a}
    /\ argsMap' = Filed(e, a)
    /\ key' = [key EXCEPT ![a] = None]
    /\ tiled' = [tiled EXCEPT ![a] = None]
    /\ isVist' = [isVist EXCEPT ![a] = TRUE]
    /\ args' = [args EXCEPT ![e] = a]
    /\ phase' = [phase EXCEPT ![e] = "created"]
    /\ UNCHANGED <<asks, isCachedArgs, enableCache, repeatable, fixedCacheMap,
                   recording>>

\* CreateArgs with caching off.
UseOwnArgs(e) ==
    /\ phase[e] = "missed" /\ ~enableCache[e]
    /\ args' = [args EXCEPT ![e] = e]
    /\ key' = [key EXCEPT ![e] = text[e]]
    /\ phase' = [phase EXCEPT ![e] = "created"]
    /\ UNCHANGED <<asks, isCachedArgs, enableCache, repeatable, alive, tiled,
                   isVist, poolVars, recording>>

\* The rest of CreateArgs and of NnopbaseExecutorTilingAndUpdateBinInfo.
Tiling(e) ==
    /\ phase[e] = "created"
    /\ key' = [key EXCEPT ![args[e]] = text[e]]
    /\ tiled' = [tiled EXCEPT ![args[e]] = wanted[e]]
    /\ phase' = [phase EXCEPT ![e] = "ready"]
    /\ UNCHANGED <<args, asks, isCachedArgs, enableCache, repeatable, alive,
                   isVist, poolVars, recording>>

\* No binary, or the tiling function refuses: phase one returns an error and
\* releases nothing.
TilingFails(e) ==
    /\ MayFail
    /\ phase[e] = "created"
    /\ key' = [key EXCEPT ![args[e]] = text[e]]
    /\ phase' = [phase EXCEPT ![e] = "failed"]
    /\ UNCHANGED <<args, asks, isCachedArgs, enableCache, repeatable, alive, tiled,
                   isVist, poolVars, recording>>

-----------------------------------------------------------------------------
(* Repeatable executors, phase two, release.                               *)

\* NnopbaseSetRepeatable, FixCache: the arguments leave the LRU list.
SetRepeatable(e) ==
    /\ MayRepeat
    /\ phase[e] = "ready" /\ ~repeatable[e]
    /\ LET a == args[e]
           s == Seed[key[a]]
       IN  /\ cacheList' = IF a \in argsMap[s] /\ a \in argsCache
                           THEN Without(a) ELSE cacheList
           /\ argsMap' = [argsMap EXCEPT ![s] = @ \ {a}]
           /\ argsCache' = argsCache \ {a}
           /\ fixedCacheMap' = [fixedCacheMap EXCEPT ![s] = @ \cup {a}]
    /\ repeatable' = [repeatable EXCEPT ![e] = TRUE]
    /\ UNCHANGED <<phase, args, asks, isCachedArgs, enableCache, argVars, recording>>

\* NnopbaseRunWithWorkspace: launches, and ends the use of an executor that
\* is not repeatable, also when it fails.
RunWithWorkspace(e) ==
    /\ phase[e] = "ready"
    /\ phase' = [phase EXCEPT ![e] = IF repeatable[e] THEN "ready" ELSE "clearing"]
    /\ UNCHANGED <<args, asks, isCachedArgs, enableCache, repeatable, argVars,
                   poolVars, recording>>

\* aclDestroyAclOpExecutor of a repeatable executor.
ResetExecutor(e) ==
    /\ phase[e] = "ready" /\ repeatable[e]
    /\ phase' = [phase EXCEPT ![e] = "clearing"]
    /\ UNCHANGED <<args, asks, isCachedArgs, enableCache, repeatable, argVars,
                   poolVars, recording>>

\* NnopbaseExecutorClear up to ReleaseArgs: arguments that were fixed are put
\* back into the LRU list, but not into argsMap.
ReleaseArgs(e) ==
    /\ phase[e] = "clearing"
    /\ LET a == args[e]
           s == Seed[key[a]]
       IN  /\ IF a \in fixedCacheMap[s]
              THEN /\ Put(a)
                   /\ alive' = alive \ Erased
                   /\ argsMap' = [t \in Seeds |-> Unmapped(t)]
                   /\ fixedCacheMap' = [fixedCacheMap EXCEPT ![s] = @ \ {a}]
              ELSE UNCHANGED <<poolVars, alive>>
           /\ isVist' = Unpinned(a)
    /\ isCachedArgs' = [isCachedArgs EXCEPT ![e] = FALSE]
    /\ enableCache' = [enableCache EXCEPT ![e] = TRUE]
    /\ repeatable' = [repeatable EXCEPT ![e] = FALSE]
    /\ phase' = [phase EXCEPT ![e] = "released"]
    /\ UNCHANGED <<args, asks, key, tiled, recording>>

\* The last statement of NnopbaseExecutorClear: isWork becomes false.
ClearDone(e) ==
    /\ phase[e] = "released"
    /\ phase' = [phase EXCEPT ![e] = "idle"]
    /\ UNCHANGED <<args, asks, isCachedArgs, enableCache, repeatable, argVars,
                   poolVars, recording>>

\* NnopbaseReloadStaticBinJsonInfos, called when no executor is at work: the
\* executors are dropped and Finalize deletes what argsMap holds.
Reload ==
    /\ \A e \in Executor : phase[e] = "idle"
    /\ alive' = alive \ UNION {argsMap[s] : s \in Seeds}
    /\ cacheList' = <<>>
    /\ argsCache' = {}
    /\ argsMap' = [s \in Seeds |-> {}]
    /\ fixedCacheMap' = [s \in Seeds |-> {}]
    /\ args' = [e \in Executor |-> None]
    /\ wanted' = [e \in Executor |-> None]
    /\ text' = [e \in Executor |-> <<>>]
    /\ key' = [a \in Args |-> IF a \in Executor THEN None ELSE key[a]]
    /\ tiled' = [a \in Args |-> IF a \in Executor THEN None ELSE tiled[a]]
    /\ UNCHANGED <<phase, added, isCachedArgs, enableCache, repeatable, isVist, recording>>

\* RecordOpArgCallback and RecordOpArgDump: the switch is turned from outside, at
\* any time.
SwitchRecording ==
    /\ MayRecord
    /\ recording' = ~recording
    /\ UNCHANGED <<execVars, argVars, poolVars>>

Next ==
    \/ \E e \in Executor :
          \/ \E k \in Key, matchArgsV2 \in BOOLEAN : GetExecutor(e, k, matchArgsV2)
          \/ AddPart(e) \/ SealKey(e) \/ BypassCache(e)
          \/ \E a \in Heap : EarlyMatch(e, a) \/ LateMatch(e, a) \/ CreateArgs(e, a)
          \/ EarlyMiss(e) \/ KeepMatch(e) \/ LateMiss(e) \/ UseOwnArgs(e)
          \/ Tiling(e) \/ TilingFails(e)
          \/ SetRepeatable(e) \/ RunWithWorkspace(e) \/ ResetExecutor(e)
          \/ ReleaseArgs(e) \/ ClearDone(e)
    \/ Reload
    \/ SwitchRecording

Spec == Init /\ [][Next]_vars

-----------------------------------------------------------------------------
(* Properties.                                                             *)

\* The executor works with executor->args: they may not be freed, nor given
\* to anyone else.
Holds(e) == \/ phase[e] \in {"created", "failed", "ready", "clearing"}
            \/ phase[e] \in {"open", "missed"} /\ isCachedArgs[e]

\* Types of all variables; only allocated arguments can be matched, no matter
\* how MatchArgs and CreateArgs of several executors interleave.
TypeOK ==
    /\ phase \in [Executor -> Phases]
    /\ args \in [Executor -> Args \cup {None}]
    /\ wanted \in [Executor -> Key \cup {None}]
    /\ added \in [Executor -> 0 .. PartNum - 1]
    /\ text \in [Executor -> Text]
    /\ isCachedArgs \in [Executor -> BOOLEAN]
    /\ enableCache \in [Executor -> BOOLEAN]
    /\ repeatable \in [Executor -> BOOLEAN]
    /\ alive \in SUBSET Heap
    /\ key \in [Args -> Text \cup {None}]
    /\ tiled \in [Args -> Key \cup {None}]
    /\ isVist \in [Args -> BOOLEAN]
    /\ cacheList \in Seq(Args)
    /\ argsCache \in SUBSET Args
    /\ argsMap \in [Seeds -> SUBSET Heap]
    /\ fixedCacheMap \in [Seeds -> SUBSET Args]
    /\ recording \in BOOLEAN

\* The binary and the tiling in executor->args are those that were asked for.
HasTiling(e) == \/ phase[e] \in {"ready", "clearing"}
                \/ phase[e] \in {"open", "missed"} /\ isCachedArgs[e]

\* What an executor works with is allocated and pinned from the match or the
\* creation to the release, whatever Put evicts in between on behalf of other
\* executors (ArgsPool::Put tests isVist only of the oldest entry).
HeldAlive ==
    \A e \in Executor : Holds(e) /\ args[e] \in Heap =>
        args[e] \in alive /\ isVist[args[e]]

\* No two executors work with the same arguments: launch buffers and tensor
\* addresses in them are written without a lock (IsArgsMatch refuses pinned
\* arguments, CreateArgs pins before it unlocks).
Exclusive ==
    \A e, f \in Executor : Holds(e) /\ Holds(f) /\ e # f => args[e] # args[f]

\* A part of the key is missing: the switch was on at one of the NnopbaseAdd*
\* calls and off again in NnopbaseMatchArgs.
Cut(e) == text[e] \notin Key

\* An operator is launched with the binary and the tiling of its own key, also
\* when seeds collide or an address is allocated a second time.  A call whose key
\* was cut takes what was filed under an equal rest, but it spoils nothing for
\* the others: whatever it files, a call that has the switch off at its own
\* NnopbaseAdd* calls, or uses no cached arguments, is launched with its own.
TiledForKey ==
    \A e \in Executor : phase[e] = "ready" =>
        \/ tiled[args[e]] = wanted[e]
        \/ Cut(e) /\ args[e] \in Heap

\* cacheList, argsCache, argsMap and fixedCacheMap tell the same story: what
\* can be matched or evicted is allocated and filed once, and the arguments of
\* a repeatable executor can be neither.
Consistent ==
    /\ argsCache = Range(cacheList)
    /\ \A i, j \in DOMAIN cacheList : i # j => cacheList[i] # cacheList[j]
    /\ \A s \in Seeds : argsMap[s] \subseteq argsCache /\ argsMap[s] \subseteq alive
    /\ argsCache \subseteq alive
    /\ \A s \in Seeds : fixedCacheMap[s] \cap argsCache = {}

\* Nothing stays pinned that nobody works with: such an entry would be lost to
\* MatchArgs, and once it is the oldest one, Put could never evict again.
PinsHeld ==
    \A a \in alive : isVist[a] => \E e \in Executor : Holds(e) /\ args[e] = a

\* Without repeatable executors, whatever is allocated can be matched and can
\* be evicted, and so Reload frees all of it.
NothingLost ==
    /\ alive = UNION {argsMap[s] : s \in Seeds}
    /\ alive = Range(cacheList)

\* Parts of the inductive invariant.  What executors point to:
Asked ==
    \A e \in Executor :
        /\ args[e] \in Heap \cup {e, None}
        /\ phase[e] \in {"idle", "adding", "sealed", "bypassed", "released"} =>
              ~isCachedArgs[e]
        /\ Holds(e) => args[e] # None
        /\ phase[e] = "created" /\ args[e] \in Heap => key[args[e]] = None
        /\ HasTiling(e) =>
              /\ key[args[e]] = text[e]
              /\ ~Cut(e) \/ args[e] = e => tiled[args[e]] = wanted[e]

\* What is written so far is the beginning of the key, or shorter than it; at
\* the end a text is the whole key, or that of no other call.
Spelled ==
    \A e \in Executor :
        /\ phase[e] \notin {"idle", "released"} => wanted[e] \in Key
        /\ phase[e] = "adding" =>
              /\ Len(text[e]) <= added[e]
              /\ Len(text[e]) = added[e] => \A i \in 1 .. added[e] : text[e][i] = wanted[e][i]
        /\ phase[e] \notin {"idle", "released", "adding"} => Cut(e) \/ text[e] = wanted[e]

\* What argsMap holds is filed under the seed of its key, or its creator still
\* has to write the key; and what can be matched has the tiling of its key, if
\* that is a whole one.
Mapped ==
    \A s \in Seeds : \A a \in argsMap[s] :
        /\ a \in alive
        /\ \/ key[a] \in Text /\ Seed[key[a]] = s
           \/ \E e \in Executor :
                 phase[e] = "created" /\ args[e] = a /\ Seed[text[e]] = s
        /\ ~isVist[a] /\ key[a] \in Key => tiled[a] = key[a]

\* Every position that argsCache knows is one of cacheList.
Listed == argsCache \subseteq Range(cacheList)

\* Inductive: pins keep arguments alive and apart, because the only steps that
\* free or hand out arguments look at isVist under the lock, and because keys
\* are written before pins are taken away.
IndInv == TypeOK /\ HeldAlive /\ Exclusive /\ Asked /\ Spelled /\ Mapped /\ Listed

\* The comment above ArgsPool::Put: only arguments that were allocated get into
\* the LRU list, from which they are deleted.
OnlyMadeArgs == Range(cacheList) \subseteq Heap
=============================================================================
