---------------------------- MODULE KernelLaunch ----------------------------
(***************************************************************************)
(* Launching the kernel of a composite operator: AiCoreKernelLauncher,     *)
(* OpKernel::Run and OpKernelBin.  What a binary needs is initialised once *)
(* for all threads: its description, the binary on a device, the tiling    *)
(* compile information, the handle of a function.  What a launch uses is   *)
(* in the thread: the tiling result is written into one set of registers   *)
(* by whatever the thread tiles, and a copy of it waits in the launcher    *)
(* context, which moves between the launcher and the thread.               *)
(*                                                                         *)
(* A job is a kernel that is launched: the operator's own, the MemSet that *)
(* clears its outputs before it, or the NonFiniteChecks of the overflow    *)
(* dump after it, one for each data type of its outputs.  A register, and  *)
(* a copy, is abstracted to the job, which for a check is the type, and    *)
(* the launcher it was computed for.                                       *)
(*                                                                         *)
(* External: tiling functions, files and the runtime; each can fail.       *)
(* Descriptions that can be read are complete.                             *)
(***************************************************************************)
EXTENDS Naturals, FiniteSets, Sequences

CONSTANTS
    Runner,        \* threads
    DeviceOf,      \* the device a thread works on
    Launcher,      \* kernel launchers of executors
    BinOf,         \* the binary SelectBin finds for a launcher
    KeyOf,         \* the tiling key of a launcher's kernel
    Static,        \* launchers with a static binary
    NoWorkspace,   \* launchers whose binary has no workspace
    OwnWorkspace,  \* launchers that were given a workspace argument
    Cleared,       \* launchers with outputs to clear
    Repeatable,    \* launchers of repeatable executors
    OutTypes,      \* OutTypes[l]: the floating point types of a launcher's
                   \* outputs, in the order dtype2Tensors yields them
    None,
    MaxFail,       \* bound: failures in a behaviour
    Cast           \* bound: which threads and launchers a behaviour is of, and
                   \* how many failures

ASSUME DeviceAssumption == DeviceOf = [r \in Runner |-> DeviceOf[r]]

VARIABLES
    currDevId,     \* OpKernelBin::currDevId_
    launcherCtx,   \* the tiling result in GetLauncherCtx()
    launchCtx,     \* the one in a launcher
    out,           \* opRunCtx_.tilingCtx_: the registers of a thread
    memOut,        \* opRunCtx_.memSetTilingCtx_
    good, bad,     \* what is initialised, what failed to be
    launcher,      \* launcher[l]: not there, with a thread, or ready
    at, cur, job,  \* per thread: the step, the launcher, the job
    nth,           \* per thread: which of the types it checks
    last,          \* per thread: what it has just launched
    fails

launchVars == <<currDevId, launcherCtx, launchCtx, out, memOut, good, bad, launcher,
                at, cur, job, nth, last, fails>>

Field == {"tilingKey", "tilingData", "blockDim", "localMemorySize"}

\* A tiling result that was stored although the tiling had failed.
Invalid == [job |-> "invalid", of |-> None]

LaunchInit ==
    /\ currDevId = DeviceOf
    /\ launcherCtx = [r \in Runner |-> None]
    /\ launchCtx = [l \in Launcher |-> None]
    /\ out = [r \in Runner |-> [f \in Field |-> None]]
    /\ memOut = out
    /\ good = {} /\ bad = {}
    /\ \E c \in Cast :
         /\ launcher = [l \in Launcher |-> IF l \in c.launchers THEN "none" ELSE "absent"]
         /\ at = [r \in Runner |-> IF r \in c.runners THEN "idle" ELSE "absent"]
         /\ fails = MaxFail - c.failures
    /\ cur = [r \in Runner |-> None]
    /\ job = [r \in Runner |-> "op"]
    /\ nth = [r \in Runner |-> 1]
    /\ last = [r \in Runner |-> None]
-----------------------------------------------------------------------------
(* Initialised once *)

Sizes == {"size", "checkSize"}
IsCheck(r) == job[r] \in {"check", "checkSize"}

\* For whom the thread tiles and launches, and with which binary: there is one
\* check for every type.
Dtype(r) == OutTypes[cur[r]][nth[r]]
Mine(r) == [job |-> IF job[r] = "size" THEN "op" ELSE IF IsCheck(r) THEN Dtype(r) ELSE job[r],
            of |-> cur[r]]
Bin(r) == IF job[r] \in {"op", "size"} THEN BinOf[cur[r]] ELSE Mine(r).job
IsStatic(r) == job[r] \in {"op", "size"} /\ cur[r] \in Static

\* InitOnceVar::InitVar: what the first caller got, everybody gets.
InitVar(var, ok) ==
    \/ ok /\ var \notin bad /\ good' = good \cup {var} /\ UNCHANGED <<bad, fails>>
    \/ ~ok /\ var \in bad /\ UNCHANGED <<good, bad, fails>>
    \/ /\ ~ok /\ var \notin good \cup bad /\ fails < MaxFail
       /\ bad' = bad \cup {var} /\ fails' = fails + 1 /\ UNCHANGED good

Readable(r) == <<"json", Bin(r)>> \in good

Goto(r, label) == at' = [at EXCEPT ![r] = label]
Become(r, j, label) == job' = [job EXCEPT ![r] = j] /\ Goto(r, label) /\ UNCHANGED nth

\* RunNonfiniteCheckOp's loop goes on with the next type, if there is one.
NextType(r) ==
    \/ /\ nth[r] < Len(OutTypes[cur[r]])
       /\ nth' = [nth EXCEPT ![r] = @ + 1]
       /\ job' = [job EXCEPT ![r] = "checkSize"] /\ Goto(r, "json")
    \/ nth[r] >= Len(OutTypes[cur[r]]) /\ Become(r, job[r], "end")

\* The job is done. After a MemSet comes the operator's own launch, after a
\* launch the overflow dump, if IsOverflowDumpEnable, a switch that may change
\* at any time. The dump runs the checks or asks the device, as the device's
\* overflow mode has it; a check that finds something, or cannot be read back,
\* is the last.
JobDone(r) ==
    \/ job[r] = "memset" /\ Become(r, "op", "func")
    \/ /\ job[r] = "op"
       /\ \/ Become(r, "op", "end")
          \/ OutTypes[cur[r]] # <<>> /\ Become(r, "checkSize", "json")
          \/ Become(r, "check", "end")
    \/ job[r] = "checkSize" /\ Become(r, "check", "bin")
    \/ job[r] \in {"size", "check"} /\ Become(r, job[r], "end")
    \/ job[r] = "check" /\ NextType(r)

JobFails(r) ==
    \/ job[r] = "size" /\ Become(r, "size", "failed")
    \/ job[r] = "memset" /\ Become(r, "op", "end")
    \/ job[r] \notin {"size", "memset"} /\ Become(r, job[r], "end")
-----------------------------------------------------------------------------
(* Phase one and phase two *)

\* CreatAiCoreKernelLauncher; with a workspace argument nothing is tiled.
Create(r, l) ==
    /\ at[r] = "idle" /\ launcher[l] = "none"
    /\ cur' = [cur EXCEPT ![r] = l]
    /\ launcher' = [launcher EXCEPT ![l] = "busy"]
    /\ Become(r, "size", IF l \in OwnWorkspace THEN "end" ELSE "json")
    /\ launcherCtx' = [launcherCtx EXCEPT ![r] = None]
    /\ last' = [last EXCEPT ![r] = None]
    /\ UNCHANGED <<currDevId, launchCtx, out, memOut, good, bad, fails>>

\* AiCoreKernelLauncher::Launch: the launcher's context moves to the thread.
Launch(r, l) ==
    /\ at[r] = "idle" /\ launcher[l] = "ready"
    /\ cur' = [cur EXCEPT ![r] = l]
    /\ launcher' = [launcher EXCEPT ![l] = "busy"]
    /\ Become(r, "op", "json")
    /\ launcherCtx' = [launcherCtx EXCEPT ![r] = launchCtx[l]]
    /\ launchCtx' = [launchCtx EXCEPT ![l] = None]
    /\ last' = [last EXCEPT ![r] = None]
    /\ UNCHANGED <<currDevId, out, memOut, good, bad, fails>>

\* JsonLoad. OpKernel::GetWorkspace gives up when it fails, and no MemSet and
\* no check is found without it, which leaves out this type only;
\* OpKernel::Run does not look.
JsonLoad(r) ==
    /\ at[r] = "json"
    /\ \/ /\ InitVar(<<"json", Bin(r)>>, TRUE)
          /\ Become(r, job[r], IF job[r] \in Sizes THEN "parse" ELSE "bin")
       \/ /\ InitVar(<<"json", Bin(r)>>, FALSE)
          /\ \/ job[r] = "op" /\ Become(r, "op", "bin")
             \/ job[r] = "checkSize" /\ NextType(r)
             \/ job[r] \notin {"op", "checkSize"} /\ JobFails(r)
    /\ last' = [last EXCEPT ![r] = None]
    /\ UNCHANGED <<currDevId, launcherCtx, launchCtx, out, memOut, launcher, cur>>

\* OpKernelBin::BinLoad.
BinLoad(r) ==
    /\ at[r] = "bin"
    /\ currDevId' = [currDevId EXCEPT ![r] = DeviceOf[r]]
    /\ \/ InitVar(<<"bin", Bin(r), DeviceOf[r]>>, TRUE) /\ Become(r, job[r], "parse")
       \/ InitVar(<<"bin", Bin(r), DeviceOf[r]>>, FALSE) /\ JobFails(r)
    /\ UNCHANGED <<launcherCtx, launchCtx, out, memOut, launcher, cur, last>>

\* InitTilingParseCtx, and what OpKernelBin::GetWorkspace does before it. Only
\* the thread that finds it failing is told so.
InitTilingParseCtx(r) ==
    /\ at[r] = "parse"
    /\ LET var == <<"parse", Bin(r)>> IN
       \/ /\ job[r] = "size" /\ (IsStatic(r) \/ cur[r] \in NoWorkspace)
          /\ JobDone(r) /\ UNCHANGED <<good, bad, fails>>
       \/ /\ job[r] # "size" /\ IsStatic(r)
          /\ Become(r, job[r], "tile") /\ UNCHANGED <<good, bad, fails>>
       \/ /\ ~IsStatic(r) /\ ~(job[r] = "size" /\ cur[r] \in NoWorkspace)
          /\ \/ InitVar(var, TRUE) /\ Become(r, job[r], "tile")
             \/ InitVar(var, FALSE) /\ IF var \in bad THEN Become(r, job[r], "tile") ELSE JobFails(r)
    /\ UNCHANGED <<currDevId, launcherCtx, launchCtx, out, memOut, launcher, cur, last>>
-----------------------------------------------------------------------------
(* Tiling *)

\* UpdateTilingCtx resets every register and the tiling function writes them.
Written(owner) == [f \in Field |-> owner]

\* GetStaticTilingCtxOutput, which does not know of localMemorySize.
StaticOutput(regs, owner) ==
    [f \in Field |-> IF f = "localMemorySize" THEN regs[f] ELSE owner]

\* The job has a tiling result: the outputs are cleared first, if the
\* description says so, and sizes need no launch.
Tiled(r) ==
    IF job[r] \in Sizes THEN JobDone(r)
    ELSE IF job[r] = "op" /\ cur[r] \in Cleared /\ Readable(r) THEN Become(r, "memset", "json")
    ELSE Become(r, job[r], "func")

TileStatic(r) ==
    /\ at[r] = "tile" /\ IsStatic(r)
    /\ out' = [out EXCEPT ![r] = StaticOutput(@, Mine(r))]
    /\ Tiled(r)
    /\ UNCHANGED <<currDevId, launcherCtx, launchCtx, memOut, good, bad, launcher, cur,
                   last, fails>>

Caches(r) == job[r] \in {"op", "check"} /\ ~IsStatic(r) /\ launcherCtx[r] # None

\* GetTilingResFromCache; a result that is not valid fails the launch.
TileFromCache(r) ==
    /\ at[r] = "tile" /\ Caches(r)
    /\ IF launcherCtx[r] = Invalid THEN JobFails(r) /\ UNCHANGED out
       ELSE out' = [out EXCEPT ![r] = Written(launcherCtx[r])] /\ Tiled(r)
    /\ UNCHANGED <<currDevId, launcherCtx, launchCtx, memOut, good, bad, launcher, cur,
                   last, fails>>

\* SaveTilingResCache: for phase two, and for the next launch of a repeatable
\* executor, which keeps a failure as well.
Saves(r) == job[r] \in Sizes \/ (job[r] = "op" /\ cur[r] \in Repeatable)

\* OpRunContextMgr::Tiling, Tiling4MemSet and Tiling4MemSetV2.
Tiling(r) ==
    /\ at[r] = "tile" /\ ~IsStatic(r) /\ ~Caches(r)
    /\ <<"parse", Bin(r)>> \in good
    /\ IF job[r] = "memset"
       THEN memOut' = [memOut EXCEPT ![r] = Written(Mine(r))] /\ UNCHANGED out
       ELSE out' = [out EXCEPT ![r] = Written(Mine(r))] /\ UNCHANGED memOut
    /\ launcherCtx' = [launcherCtx EXCEPT ![r] = IF Saves(r) THEN Mine(r) ELSE @]
    /\ Tiled(r)
    /\ UNCHANGED <<currDevId, launchCtx, good, bad, launcher, cur, last, fails>>

\* No compile information, or the tiling function fails.
TilingFails(r) ==
    /\ at[r] = "tile" /\ ~IsStatic(r) /\ ~Caches(r)
    /\ \/ <<"parse", Bin(r)>> \in bad /\ UNCHANGED <<out, fails>>
       \/ /\ <<"parse", Bin(r)>> \in good /\ fails < MaxFail
          /\ out' = [out EXCEPT ![r] = IF job[r] = "memset" THEN @ ELSE Written(Mine(r))]
          /\ fails' = fails + 1
    /\ launcherCtx' = [launcherCtx EXCEPT ![r] =
         IF Saves(r) /\ job[r] = "op" THEN Invalid ELSE @]
    /\ JobFails(r)
    /\ UNCHANGED <<currDevId, launchCtx, memOut, good, bad, launcher, cur, last>>
-----------------------------------------------------------------------------
(* The launch *)

Registers(r) == IF job[r] = "memset" THEN memOut[r] ELSE out[r]

\* The key in a register; a static binary has one function.
Key(owner) == IF owner.job # "op" THEN owner.job
              ELSE IF owner.of \in Static THEN "only" ELSE KeyOf[owner.of]

Handle(r) == <<"func", Bin(r), currDevId[r], Key(Registers(r)["tilingKey"])>>

\* InitFunctionHandle, which finds no name in a description that was not read.
InitFunctionHandle(r) ==
    /\ at[r] = "func"
    /\ \/ Readable(r) /\ InitVar(Handle(r), TRUE) /\ Become(r, job[r], "launch")
       \/ Readable(r) /\ InitVar(Handle(r), FALSE) /\ JobFails(r)
       \/ ~Readable(r) /\ JobFails(r) /\ UNCHANGED <<good, bad, fails>>
    /\ UNCHANGED <<currDevId, launcherCtx, launchCtx, out, memOut, launcher, cur, last>>

\* The rest of DoLaunch.
DoLaunch(r) ==
    /\ at[r] = "launch"
    /\ \/ /\ last' = [last EXCEPT ![r] =
               [owner |-> Mine(r), regs |-> Registers(r), bin |-> Bin(r), handle |-> Handle(r)]]
          /\ JobDone(r) /\ UNCHANGED fails
       \/ fails < MaxFail /\ fails' = fails + 1 /\ JobFails(r) /\ UNCHANGED last
    /\ UNCHANGED <<currDevId, launcherCtx, launchCtx, out, memOut, good, bad, launcher,
                   cur>>

\* The tiling result after OverflowDumpProcess (mutant: that of the check).
AfterDumpKept(r) == launcherCtx[r]
AfterDump(r) == IF IsCheck(r) THEN None ELSE launcherCtx[r]

\* The end of CreatAiCoreKernelLauncher, or of AiCoreKernelLauncher::Launch:
\* the context moves to the launcher, or is reset.
End(r) ==
    /\ at[r] \in {"end", "failed"}
    /\ LET stays == IF job[r] = "size" THEN at[r] = "end" ELSE cur[r] \in Repeatable IN
       /\ launchCtx' = [launchCtx EXCEPT ![cur[r]] = IF stays THEN AfterDump(r) ELSE None]
       /\ launcher' = [launcher EXCEPT ![cur[r]] = IF stays THEN "ready" ELSE "none"]
    /\ launcherCtx' = [launcherCtx EXCEPT ![r] = None]
    /\ last' = [last EXCEPT ![r] = None]
    /\ job' = [job EXCEPT ![r] = "op"] /\ Goto(r, "idle")
    /\ nth' = [nth EXCEPT ![r] = 1]
    /\ cur' = [cur EXCEPT ![r] = None]
    /\ UNCHANGED <<currDevId, out, memOut, good, bad, fails>>

\* An executor that was not, or will not again be, launched is destroyed.
Destroy(l) ==
    /\ launcher[l] = "ready"
    /\ launcher' = [launcher EXCEPT ![l] = "none"]
    /\ launchCtx' = [launchCtx EXCEPT ![l] = None]
    /\ UNCHANGED <<currDevId, launcherCtx, out, memOut, good, bad, at, cur, job, nth, last,
                   fails>>

LaunchNext ==
    \/ \E r \in Runner :
         \/ \E l \in Launcher : Create(r, l) \/ Launch(r, l)
         \/ JsonLoad(r) \/ BinLoad(r) \/ InitTilingParseCtx(r)
         \/ TileStatic(r) \/ TileFromCache(r) \/ Tiling(r) \/ TilingFails(r)
         \/ InitFunctionHandle(r) \/ DoLaunch(r) \/ End(r)
    \/ \E l \in Launcher : Destroy(l)
-----------------------------------------------------------------------------
(* Properties *)

\* Every launch uses the function of its own binary, on the device of its
\* thread, for its own tiling key, and registers that were all computed for
\* it, although MemSets, checks and other operators' tilings use the same
\* thread's registers and contexts in between. (A static binary's
\* localMemorySize is whatever the thread tiled last.)
LaunchesOwn ==
    \A r \in Runner : last[r] # None =>
        LET own == last[r].owner IN
        /\ \A f \in Field :
             \/ last[r].regs[f] = own
             \/ f = "localMemorySize" /\ own.job = "op" /\ own.of \in Static
        /\ last[r].handle = <<"func", last[r].bin, DeviceOf[r], Key(own)>>
        /\ <<"bin", last[r].bin, DeviceOf[r]>> \in good
-----------------------------------------------------------------------------
(* The inductive invariant of launching.                                   *)

Steps == {"absent", "idle", "json", "bin", "parse", "tile", "func", "launch", "end", "failed"}
Jobs == Sizes \cup {"op", "memset", "check"}
Types == {OutTypes[l][n] : l \in Launcher \cup {None}, n \in Nat}
Owner == [job : {"op", "memset", "invalid"} \cup Types, of : Launcher \cup {None}] \cup {None}

LaunchTypeOK ==
    /\ currDevId = DeviceOf
    /\ launcherCtx \in [Runner -> Owner] /\ launchCtx \in [Launcher -> Owner]
    /\ out \in [Runner -> [Field -> Owner]] /\ memOut \in [Runner -> [Field -> Owner]]
    /\ at \in [Runner -> Steps] /\ cur \in [Runner -> Launcher \cup {None}]
    /\ job \in [Runner -> Jobs] /\ nth \in [Runner -> Nat]
    /\ DOMAIN last = Runner

OpOf(l) == [job |-> "op", of |-> l]
MemSetOf(l) == [job |-> "memset", of |-> l]
CheckOf(l, n) == [job |-> OutTypes[l][n], of |-> l]

\* What a thread with job j at step a for launcher l, and the n-th of its types,
\* relies on.  Its context holds the tiling of the launcher, and that of a check
\* while the check runs; what is there when a check is sized is not used.
ContextOwn(j, a, l, n, ctx) ==
    /\ j = "check" => a = "end" \/ ctx = CheckOf(l, n)
    /\ j \notin {"check", "checkSize"} => ctx \in {None, Invalid, OpOf(l)}

\* The registers of the operator are set until it is launched, through the
\* whole MemSet before it; those of MemSet and check until they are.
Set(regs, l) == \A f \in Field : regs[f] = OpOf(l) \/ (f = "localMemorySize" /\ l \in Static)

RegistersOwn(j, a, l, n, regs, memRegs) ==
    /\ j = "memset" \/ (j = "op" /\ a \in {"func", "launch"}) => Set(regs, l)
    /\ j = "memset" /\ a \in {"func", "launch"} => memRegs = Written(MemSetOf(l))
    /\ j = "check" /\ a \in {"func", "launch"} => regs = Written(CheckOf(l, n))

\* Nothing is tiled for a launch before its binary is on the device; what is
\* only tiled is not launched.
Loads(j, l, n) ==
    IF j = "op" THEN BinOf[l] ELSE IF j = "memset" THEN "memset" ELSE OutTypes[l][n]

BinaryLoaded(j, a, l, n, device) ==
    /\ j \in Sizes => a \in {"json", "parse", "tile", "end", "failed"}
    /\ j = "memset" => <<"bin", BinOf[l], device>> \in good
    /\ j \notin Sizes /\ a \in {"parse", "tile", "func", "launch"} =>
         <<"bin", Loads(j, l, n), device>> \in good

LaunchInv ==
    /\ LaunchTypeOK /\ LaunchesOwn
    /\ \A l \in Launcher : launchCtx[l] \in {None, Invalid, OpOf(l)}
    /\ \A r \in Runner : /\ ContextOwn(job[r], at[r], cur[r], nth[r], launcherCtx[r])
                         /\ RegistersOwn(job[r], at[r], cur[r], nth[r], out[r], memOut[r])
                         /\ BinaryLoaded(job[r], at[r], cur[r], nth[r], DeviceOf[r])
=============================================================================
