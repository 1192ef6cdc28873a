--------------------------- MODULE StaticKernels ---------------------------
(***************************************************************************)
(* Static kernels of the composite operators: their configuration is       *)
(* loaded once and parsed once per operator type, both under a flag that   *)
(* aclnnReselectStaticKernel resets while other threads select and launch. *)
(*                                                                         *)
(* A generation is one version of the configuration on disk; a static      *)
(* binary is its path and the generation it was registered from.  Dynamic  *)
(* binaries are the fallback and are abstracted to one value.              *)
(***************************************************************************)
EXTENDS Naturals, FiniteSets

CONSTANTS Thread, OpType,
          Path,               \* Path[g][o]: o's static binary in generation g
          MaxGen,             \* bound: versions put on disk
          MaxReselect,        \* CALL_RESELECT_STATIC_KERNEL_MAX_COUNT
          MaxThrow            \* bound: parses that throw

ASSUME MaxGenAssumption == MaxGen \in Nat \ {0}

NoPath == "none"
Dynamic == [path |-> "dynamic", gen |-> MaxGen]

VARIABLES
    disk,                \* the version on disk; 0: none
    jsonFlag,            \* loadStaticBinJsonFlag_
    initFlag,            \* initStaticKernelFlags_
    json,                \* staticConfigJson_: the generation in memory
    staticBins,          \* per operator type
    abandonedStaticBins,
    collecter,           \* the generation the single operator collecter read
    callCount,
    pc, opType,          \* per thread
    reading,             \* the generation ParseStaticKernels iterates over
    bin,                 \* the binary a call works with
    todo,                \* the operator types a reselection has before it
    floor,               \* the version the last clean reselection ensures, as
                         \* long as no other one has met an initialisation
    settled,             \* that version when a thread's call began, or what
                         \* was on disk when its reselection began
    clean,               \* per thread: its reselection met no initialisation
    throws

flags == <<jsonFlag, initFlag>>
callVars == <<pc, opType, reading, bin, settled>>
binVars == <<staticBins, abandonedStaticBins>>
staticVars == <<disk, flags, json, binVars, collecter, callCount, callVars, floor, clean, todo,
                throws>>

StaticInit ==
    /\ disk = 1
    /\ jsonFlag = "NOT_EXECUTE"
    /\ initFlag = [o \in OpType |-> "NOT_EXECUTE"]
    /\ json = 0
    /\ staticBins = [o \in OpType |-> {}]
    /\ abandonedStaticBins = [o \in OpType |-> {}]
    /\ collecter = 1
    /\ callCount = 0
    /\ pc = [t \in Thread |-> "idle"]
    /\ opType \in [Thread -> OpType]
    /\ reading = [t \in Thread |-> 0]
    /\ bin = [t \in Thread |-> Dynamic]
    /\ settled = [t \in Thread |-> 0]
    /\ floor = 0
    /\ clean = [t \in Thread |-> FALSE]
    /\ todo = [t \in Thread |-> {}]
    /\ throws = 0

GotoStep(t, label) == pc' = [pc EXCEPT ![t] = label]

Initialising == {"load", "loading", "loadWait", "init", "parsing", "initWait"}
Reselecting == {"count", "resetLoad", "storeLoad", "resetInit", "storeInit", "clear",
                "refresh"}

\* Some thread is at one of these steps.
Under(steps) == \E u \in Thread : pc[u] \in steps

\* A reselection and an initialisation that meet end the promise of the last
\* clean reselection, for the calls under way too: of two threads that load,
\* the one that waits is let through by the reset and parses what was there.
Promise(met) == IF met THEN 0 ELSE floor
Promised(met) == IF met THEN [u \in Thread |-> 0] ELSE settled

\* Another version of the static kernels is compiled.
Install ==
    /\ disk < MaxGen
    /\ disk' = disk + 1
    /\ UNCHANGED <<flags, json, binVars, collecter, callCount, callVars, floor, clean, todo,
                   throws>>

----------------------------------------------------------------------------
(* AclOpKernelInit.                                                         *)

\* A phase one or a launch enters AclOpKernelInit.
BeginCall(t) ==
    /\ pc[t] = "idle"
    /\ \E o \in OpType : opType' = [opType EXCEPT ![t] = o]
    /\ floor' = Promise(Under(Reselecting))
    /\ settled' = [Promised(Under(Reselecting)) EXCEPT ![t] = floor']
    /\ clean' = [u \in Thread |-> FALSE]
    /\ GotoStep(t, "load")
    /\ UNCHANGED <<disk, flags, json, binVars, collecter, callCount, reading, bin,
                   todo, throws>>

\* ResettableOnceFlag::CallOnce: the exchange succeeds, or the caller waits
\* until nobody executes, whatever the flag is then.
CallOnce(t, flag, running, waiting) ==
    GotoStep(t, IF flag = "NOT_EXECUTE" THEN running ELSE waiting)

Exchanged(flag) == IF flag = "NOT_EXECUTE" THEN "EXECUTING" ELSE flag

EnterLoad(t) ==
    /\ pc[t] = "load"
    /\ CallOnce(t, jsonFlag, "loading", "loadWait")
    /\ jsonFlag' = Exchanged(jsonFlag)
    /\ UNCHANGED <<disk, initFlag, json, binVars, collecter, callCount, opType, reading,
                   bin, settled, floor, clean, todo, throws>>

LoadWaited(t) ==
    /\ pc[t] = "loadWait"
    /\ jsonFlag # "EXECUTING"
    /\ GotoStep(t, "init")
    /\ UNCHANGED <<disk, flags, json, binVars, collecter, callCount, opType, reading,
                   bin, settled, floor, clean, todo, throws>>

\* LoadStaticBinJson.
LoadStaticBinJson(t) ==
    /\ pc[t] = "loading"
    /\ json' = disk
    /\ jsonFlag' = "EXECUTED"
    /\ GotoStep(t, "init")
    /\ UNCHANGED <<disk, initFlag, binVars, collecter, callCount, opType, reading,
                   bin, settled, floor, clean, todo, throws>>

\* The file cannot be parsed, and the call goes on, or its directory is not
\* found, and the call returns the error; either way what was in memory stays
\* and the flag is set.  Nothing is promised of the calls that follow.
LoadFails(t) ==
    /\ pc[t] = "loading"
    /\ jsonFlag' = "EXECUTED"
    /\ GotoStep(t, "init") \/ GotoStep(t, "idle")
    /\ floor' = 0
    /\ settled' = [u \in Thread |-> 0]
    /\ clean' = [u \in Thread |-> FALSE]
    /\ UNCHANGED <<disk, initFlag, json, binVars, collecter, callCount, opType, reading, bin,
                   todo, throws>>

\* What comes before the load (the platform, the library) or between it and the
\* static kernels (the dynamic ones) fails, and the call returns the error.
InitFails(t) ==
    /\ pc[t] \in {"load", "init"}
    /\ GotoStep(t, "idle")
    /\ UNCHANGED <<disk, flags, json, binVars, collecter, callCount, opType, reading,
                   bin, settled, floor, clean, todo, throws>>

EnterInit(t) ==
    /\ pc[t] = "init"
    /\ CallOnce(t, initFlag[opType[t]], "parsing", "initWait")
    /\ initFlag' = [initFlag EXCEPT ![opType[t]] = Exchanged(@)]
    /\ reading' = [reading EXCEPT ![t] = json]
    /\ UNCHANGED <<disk, jsonFlag, json, binVars, collecter, callCount, opType,
                   bin, settled, floor, clean, todo, throws>>

InitWaited(t) ==
    /\ pc[t] = "initWait"
    /\ initFlag[opType[t]] # "EXECUTING"
    /\ GotoStep(t, "select")
    /\ UNCHANGED <<disk, flags, json, binVars, collecter, callCount, opType, reading,
                   bin, settled, floor, clean, todo, throws>>

\* HashAndInsert: emplace keeps a binary that is registered under the path.
HashAndInsert(bins, p, g) ==
    IF p = NoPath \/ \E b \in bins : b.path = p THEN bins
    ELSE bins \cup {[path |-> p, gen |-> g]}

\* ParseStaticKernels; where the configuration was replaced under the
\* iteration, it may have seen either version.
ParseStaticKernels(t) ==
    /\ pc[t] = "parsing"
    /\ \E g \in {reading[t], json} :
         staticBins' = [staticBins EXCEPT ![opType[t]] =
             IF g = 0 THEN @ ELSE HashAndInsert(@, Path[g][opType[t]], g)]
    /\ initFlag' = [initFlag EXCEPT ![opType[t]] = "EXECUTED"]
    /\ GotoStep(t, "select")
    /\ UNCHANGED <<disk, jsonFlag, json, abandonedStaticBins, collecter, callCount,
                   opType, reading, bin, settled, floor, clean, todo, throws>>

\* The flag after the callback has thrown (mutant: it stays as it is).
ThrownKept(flag) == flag
Thrown(flag) == "NOT_EXECUTE"

\* A description of an unexpected type makes AppendStaticBin throw; CallOnce
\* lets others try again and the exception leaves the call.
ParseThrows(t) ==
    /\ pc[t] = "parsing" /\ throws < MaxThrow
    /\ throws' = throws + 1
    /\ initFlag' = [initFlag EXCEPT ![opType[t]] = Thrown(@)]
    /\ GotoStep(t, "idle")
    /\ UNCHANGED <<disk, jsonFlag, json, binVars, collecter, callCount, opType, reading,
                   bin, settled, floor, clean, todo>>

----------------------------------------------------------------------------
(* Selection and use.                                                       *)

\* SelectStaticBin asks the collecter for a path and looks that up; else
\* SelectBin takes a dynamic binary.
Selected(o) ==
    LET found == {b \in staticBins[o] : collecter # 0 /\ b.path = Path[collecter][o]} IN
    IF found = {} THEN Dynamic ELSE CHOOSE b \in found : TRUE

SelectBin(t) ==
    /\ pc[t] = "select"
    /\ bin' = [bin EXCEPT ![t] = Selected(opType[t])]
    /\ GotoStep(t, "run")
    /\ UNCHANGED <<disk, flags, json, binVars, collecter, callCount, opType, reading,
                   settled, floor, clean, todo, throws>>

\* JsonLoad and Launch, or GetWorkspace, through the pointer.
Run(t) ==
    /\ pc[t] = "run"
    /\ bin' = [bin EXCEPT ![t] = Dynamic]
    /\ GotoStep(t, "idle")
    /\ UNCHANGED <<disk, flags, json, binVars, collecter, callCount, opType, reading,
                   settled, floor, clean, todo, throws>>

----------------------------------------------------------------------------
(* aclnnReselectStaticKernel.                                               *)

\* The limit is tested, and the call counted, in two steps.
Reselect(t) ==
    /\ pc[t] = "idle"
    /\ callCount < MaxReselect
    /\ clean' = [clean EXCEPT ![t] = ~Under(Initialising)]
    /\ floor' = Promise(Under(Initialising))
    /\ settled' = [Promised(Under(Initialising)) EXCEPT ![t] = disk]
    /\ GotoStep(t, "count")
    /\ UNCHANGED <<disk, flags, json, binVars, collecter, callCount, opType, reading,
                   bin, todo, throws>>

Count(t) ==
    /\ pc[t] = "count"
    /\ callCount' = callCount + 1
    /\ GotoStep(t, "resetLoad")
    /\ UNCHANGED <<disk, flags, json, binVars, collecter, opType, reading,
                   bin, settled, floor, clean, todo, throws>>

\* ResettableOnceFlag::reset waits until nobody executes, and then stores.
ResetLoad(t) ==
    /\ pc[t] = "resetLoad"
    /\ jsonFlag # "EXECUTING"
    /\ GotoStep(t, "storeLoad")
    /\ UNCHANGED <<disk, flags, json, binVars, collecter, callCount, opType, reading,
                   bin, settled, floor, clean, todo, throws>>

\* The flag of the configuration (mutant: only the operators' flags are reset).
StoreKept(flag) == flag
Store(flag) == "NOT_EXECUTE"

StoreLoad(t) ==
    /\ pc[t] = "storeLoad"
    /\ jsonFlag' = Store(jsonFlag)
    /\ todo' = [todo EXCEPT ![t] = OpType]
    /\ GotoStep(t, "resetInit")
    /\ UNCHANGED <<disk, initFlag, json, binVars, collecter, callCount, opType, reading,
                   bin, settled, floor, clean, throws>>

\* The loop over the operator types: reset the flag, then give up the binaries.
ResetInit(t) ==
    /\ pc[t] = "resetInit"
    /\ \E o \in todo[t] : /\ initFlag[o] # "EXECUTING"
                          /\ opType' = [opType EXCEPT ![t] = o]
    /\ GotoStep(t, "storeInit")
    /\ UNCHANGED <<disk, flags, json, binVars, collecter, callCount, reading,
                   bin, settled, floor, clean, todo, throws>>

StoreInit(t) ==
    /\ pc[t] = "storeInit"
    /\ initFlag' = [initFlag EXCEPT ![opType[t]] = "NOT_EXECUTE"]
    /\ GotoStep(t, "clear")
    /\ UNCHANGED <<disk, jsonFlag, json, binVars, collecter, callCount, opType, reading,
                   bin, settled, floor, clean, todo, throws>>

\* Where OpKernel::ClearStaticBins puts the binaries (mutant: nowhere).
AbandonedNone(o) == abandonedStaticBins[o]
Abandoned(o) == abandonedStaticBins[o] \cup staticBins[o]

ClearStaticBins(t) ==
    /\ pc[t] = "clear"
    /\ abandonedStaticBins' = [abandonedStaticBins EXCEPT ![opType[t]] = Abandoned(opType[t])]
    /\ staticBins' = [staticBins EXCEPT ![opType[t]] = {}]
    /\ todo' = [todo EXCEPT ![t] = @ \ {opType[t]}]
    /\ GotoStep(t, IF todo'[t] = {} THEN "refresh" ELSE "resetInit")
    /\ UNCHANGED <<disk, flags, json, collecter, callCount, opType, reading,
                   bin, settled, floor, clean, throws>>

\* NnopbaseReloadStaticBinJsonInfos; a file it cannot read changes nothing.
ReloadStaticBinJsonInfos(t) ==
    /\ pc[t] = "refresh"
    /\ collecter' \in {disk, collecter}
    /\ floor' = IF clean[t] /\ settled[t] > floor THEN settled[t] ELSE floor
    /\ GotoStep(t, "idle")
    /\ UNCHANGED <<disk, flags, json, binVars, callCount, opType, reading, bin,
                   settled, clean, todo, throws>>

----------------------------------------------------------------------------
\* What a thread that is in a call or a reselection does next.
StaticStep(t) ==
    \/ EnterLoad(t) \/ LoadWaited(t) \/ LoadStaticBinJson(t) \/ LoadFails(t) \/ InitFails(t)
    \/ EnterInit(t) \/ InitWaited(t) \/ ParseStaticKernels(t) \/ ParseThrows(t)
    \/ SelectBin(t) \/ Run(t)
    \/ Count(t) \/ ResetLoad(t) \/ StoreLoad(t) \/ ResetInit(t) \/ StoreInit(t)
    \/ ClearStaticBins(t) \/ ReloadStaticBinJsonInfos(t)

StaticNext ==
    \/ Install
    \/ \E t \in Thread : BeginCall(t) \/ Reselect(t) \/ StaticStep(t)

\* Threads are scheduled; nobody is made to call.
StaticFairness == \A t \in Thread : WF_staticVars(StaticStep(t))

----------------------------------------------------------------------------
(* Properties.                                                              *)

\* A call that began after a reselection works with no static binary that is
\* older than what was on disk when that reselection began, as long as neither
\* that one nor another since has met an initialisation; and the binary any
\* call works with is still allocated, although reselections give up binaries
\* under its feet.
SelectedUsable ==
    \A t \in Thread : pc[t] = "run" =>
        /\ bin[t].gen >= settled[t]
        /\ bin[t] = Dynamic \/ bin[t] \in staticBins[opType[t]] \cup abandonedStaticBins[opType[t]]

\* Neither a call nor a reselection spins forever on a flag that somebody else
\* holds or has just reset.
CallsReturn == \A t \in Thread : pc[t] # "idle" ~> pc[t] = "idle"
----------------------------------------------------------------------------
(* The inductive invariant of selection.                                    *)

Flag == {"NOT_EXECUTE", "EXECUTING", "EXECUTED"}
Gen == 0 .. MaxGen
Binary == [path : {Path[g][o] : g \in 1 .. MaxGen, o \in OpType} \cup {"dynamic"}, gen : Gen]

StaticTypeOK ==
    /\ disk \in Gen /\ json \in Gen /\ floor \in Gen
    /\ jsonFlag \in Flag /\ initFlag \in [OpType -> Flag]
    /\ staticBins \in [OpType -> SUBSET Binary]
    /\ abandonedStaticBins \in [OpType -> SUBSET Binary]
    /\ pc \in [Thread -> {"idle", "select", "run"} \cup Initialising \cup Reselecting]
    /\ opType \in [Thread -> OpType]
    /\ reading \in [Thread -> Gen] /\ settled \in [Thread -> Gen]
    /\ bin \in [Thread -> Binary]
    /\ todo \in [Thread -> SUBSET OpType]
    /\ clean \in [Thread -> BOOLEAN]

\* What is in memory, and what a thread is about to parse, is as new as was
\* promised.  A waiting thread is let through by a load, not by a reset.
Fresh ==
    /\ floor <= disk
    /\ \A o \in OpType : \A b \in staticBins[o] : floor <= b.gen
    /\ jsonFlag = "EXECUTED" => floor <= json
    /\ \A t \in Thread :
         /\ pc[t] \in {"init", "parsing"} => floor <= json
         /\ pc[t] = "parsing" => floor <= reading[t]
         /\ pc[t] = "loadWait" /\ floor > 0 => jsonFlag # "NOT_EXECUTE"

\* No call was promised more than there is now.
Settled ==
    \A t \in Thread :
        /\ pc[t] \in Initialising \cup {"select", "run"} => settled[t] <= floor
        /\ pc[t] \in Reselecting => settled[t] <= disk

\* While a reselection and an initialisation are under way, nothing is
\* promised.
Apart == Under(Initialising) /\ Under(Reselecting) => floor = 0

\* How far a reselection that meets no initialisation has come.
Cleaned ==
    \A t \in Thread : clean[t] /\ pc[t] \in Reselecting =>
        /\ ~Under(Initialising)
        /\ pc[t] \in {"resetInit", "storeInit", "clear", "refresh"} =>
             /\ jsonFlag = "NOT_EXECUTE"
             /\ \A o \in OpType \ todo[t] : staticBins[o] = {}
        /\ pc[t] = "refresh" => todo[t] = {}

StaticInv == StaticTypeOK /\ Fresh /\ Settled /\ Apart /\ Cleaned /\ SelectedUsable
=============================================================================
