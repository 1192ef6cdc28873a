---------------------------- MODULE KernelProofs ----------------------------
(***************************************************************************)
(* Proofs about the selection and the launch of AI Core kernels, on one    *)
(* stream and on two.                                                      *)
(***************************************************************************)
EXTENDS Kernels, Integers, FiniteSetTheorems, SequenceTheorems, TLAPS

-----------------------------------------------------------------------------
(* Selection and reselection of static kernels                             *)

\* A dynamic binary is newer than every configuration.
LEMMA DynamicNewest == Dynamic \in Binary /\ Dynamic.gen = MaxGen /\ MaxGen \in Nat /\ 0 \in Gen
  BY MaxGenAssumption DEF Dynamic, Binary, Gen

\* What SelectBin takes.
LEMMA SelectedFrom ==
    ASSUME StaticTypeOK, NEW o \in OpType
    PROVE  Selected(o) = Dynamic \/ Selected(o) \in staticBins[o]
<1> DEFINE found == {b \in staticBins[o] : collecter # 0 /\ b.path = Path[collecter][o]}
<1>1. CASE found = {}
  BY <1>1 DEF Selected
<1>2. CASE found # {}
  <2>1. Selected(o) = CHOOSE b \in found : TRUE
    BY <1>2 DEF Selected
  <2>2. Selected(o) \in found
    BY <1>2, <2>1
  <2> QED BY <2>2
<1> QED BY <1>1, <1>2

\* A call begins; if a reselection is under way, nothing is promised any more.
LEMMA BeginCallKeeps ==
    ASSUME StaticInv, NEW t \in Thread, BeginCall(t)
    PROVE  StaticInv'
<1>1. StaticTypeOK /\ Fresh /\ Settled /\ Apart /\ Cleaned /\ SelectedUsable
  BY DEF StaticInv
<1>2. StaticTypeOK'
  <2>1. settled' \in [Thread -> Gen] /\ floor' \in Gen
    BY <1>1, DynamicNewest DEF StaticTypeOK, BeginCall, GotoStep, Promise, Promised
  <2> QED BY <1>1, <2>1 DEF StaticTypeOK, Flag, Initialising, Reselecting, flags, binVars, BeginCall, GotoStep, Promise, Promised
<1>3. Fresh'
  BY <1>1, <1>2 DEF Fresh, Apart, Under, StaticTypeOK, Gen, Binary, Flag, Initialising, Reselecting, flags, binVars, BeginCall, GotoStep, Promise, Promised
<1>4. Settled'
  BY <1>1, <1>2 DEF Settled, Fresh, StaticTypeOK, Gen, Initialising, Reselecting, Cleaned, flags, binVars, BeginCall, GotoStep, Promise, Promised
<1>5. Apart'
  BY <1>1, <1>2 DEF Apart, Under, StaticTypeOK, Cleaned, Initialising, Reselecting, flags, binVars, BeginCall, GotoStep, Promise, Promised
<1>6. Cleaned'
  BY <1>1, <1>2 DEF Cleaned, Under, StaticTypeOK, Initialising, Reselecting, flags, binVars, BeginCall, GotoStep, Promise, Promised
<1>7. SelectedUsable'
  <2>1. \A u \in Thread : pc'[u] = "run" =>
          /\ pc[u] = "run" /\ bin'[u] = bin[u] /\ opType'[u] = opType[u]
          /\ settled'[u] \in {0, settled[u]} /\ bin[u].gen \in Nat
    BY <1>1, MaxGenAssumption DEF StaticTypeOK, Binary, Gen, BeginCall, GotoStep, Promise, Promised
  <2>2. staticBins' = staticBins /\ abandonedStaticBins' = abandonedStaticBins
    BY DEF binVars, BeginCall, GotoStep, Promise, Promised
  <2> QED BY <1>1, <2>1, <2>2 DEF SelectedUsable
<1> QED BY <1>2, <1>3, <1>4, <1>5, <1>6, <1>7 DEF StaticInv

\* A call tries to load the configuration.
LEMMA EnterLoadKeeps ==
    ASSUME StaticInv, NEW t \in Thread, EnterLoad(t)
    PROVE  StaticInv'
<1>1. StaticTypeOK /\ Fresh /\ Settled /\ Apart /\ Cleaned /\ SelectedUsable
  BY DEF StaticInv
<1>2. StaticTypeOK'
  BY <1>1 DEF StaticTypeOK, Gen, Flag, Binary, Initialising, Reselecting, flags, binVars, EnterLoad, CallOnce, Exchanged, GotoStep
<1>3. Fresh'
  BY <1>1, <1>2 DEF Fresh, Apart, Under, StaticTypeOK, Gen, Binary, Flag, Initialising, Reselecting, flags, binVars, EnterLoad, CallOnce, Exchanged, GotoStep
<1>4. Settled'
  BY <1>1, <1>2 DEF Settled, Fresh, StaticTypeOK, Gen, Initialising, Reselecting, Cleaned, flags, binVars, EnterLoad, CallOnce, Exchanged, GotoStep
<1>5. Apart'
  BY <1>1, <1>2 DEF Apart, Under, StaticTypeOK, Cleaned, Initialising, Reselecting, flags, binVars, EnterLoad, CallOnce, Exchanged, GotoStep
<1>6. Cleaned'
  BY <1>1, <1>2 DEF Cleaned, Under, StaticTypeOK, Initialising, Reselecting, flags, binVars, EnterLoad, CallOnce, Exchanged, GotoStep
<1>7. SelectedUsable'
  BY <1>1, <1>2 DEF SelectedUsable, Dynamic, StaticTypeOK, Initialising, Reselecting, flags, binVars, EnterLoad, CallOnce, Exchanged, GotoStep
<1> QED BY <1>2, <1>3, <1>4, <1>5, <1>6, <1>7 DEF StaticInv

\* A waiting call is let through: by a load, as long as something is promised.
LEMMA LoadWaitedKeeps ==
    ASSUME StaticInv, NEW t \in Thread, LoadWaited(t)
    PROVE  StaticInv'
<1>1. StaticTypeOK /\ Fresh /\ Settled /\ Apart /\ Cleaned /\ SelectedUsable
  BY DEF StaticInv
<1>2. StaticTypeOK'
  BY <1>1 DEF StaticTypeOK, Gen, Flag, Binary, Initialising, Reselecting, flags, binVars, LoadWaited, GotoStep
<1>3. Fresh'
  BY <1>1, <1>2 DEF Fresh, Apart, Under, StaticTypeOK, Gen, Binary, Flag, Initialising, Reselecting, flags, binVars, LoadWaited, GotoStep
<1>4. Settled'
  BY <1>1, <1>2 DEF Settled, Fresh, StaticTypeOK, Gen, Initialising, Reselecting, Cleaned, flags, binVars, LoadWaited, GotoStep
<1>5. Apart'
  BY <1>1, <1>2 DEF Apart, Under, StaticTypeOK, Cleaned, Initialising, Reselecting, flags, binVars, LoadWaited, GotoStep
<1>6. Cleaned'
  BY <1>1, <1>2 DEF Cleaned, Under, StaticTypeOK, Initialising, Reselecting, flags, binVars, LoadWaited, GotoStep
<1>7. SelectedUsable'
  BY <1>1, <1>2 DEF SelectedUsable, Dynamic, StaticTypeOK, Initialising, Reselecting, flags, binVars, LoadWaited, GotoStep
<1> QED BY <1>2, <1>3, <1>4, <1>5, <1>6, <1>7 DEF StaticInv

\* The configuration is loaded, from a disk that is new enough.
LEMMA LoadStaticBinJsonKeeps ==
    ASSUME StaticInv, NEW t \in Thread, LoadStaticBinJson(t)
    PROVE  StaticInv'
<1>1. StaticTypeOK /\ Fresh /\ Settled /\ Apart /\ Cleaned /\ SelectedUsable
  BY DEF StaticInv
<1>2. StaticTypeOK'
  BY <1>1 DEF StaticTypeOK, Gen, Flag, Binary, Initialising, Reselecting, flags, binVars, LoadStaticBinJson, GotoStep
<1>3. Fresh'
  BY <1>1, <1>2 DEF Fresh, Apart, Under, StaticTypeOK, Gen, Binary, Flag, Initialising, Reselecting, flags, binVars, LoadStaticBinJson, GotoStep
<1>4. Settled'
  BY <1>1, <1>2 DEF Settled, Fresh, StaticTypeOK, Gen, Initialising, Reselecting, Cleaned, flags, binVars, LoadStaticBinJson, GotoStep
<1>5. Apart'
  BY <1>1, <1>2 DEF Apart, Under, StaticTypeOK, Cleaned, Initialising, Reselecting, flags, binVars, LoadStaticBinJson, GotoStep
<1>6. Cleaned'
  BY <1>1, <1>2 DEF Cleaned, Under, StaticTypeOK, Initialising, Reselecting, flags, binVars, LoadStaticBinJson, GotoStep
<1>7. SelectedUsable'
  BY <1>1, <1>2 DEF SelectedUsable, Dynamic, StaticTypeOK, Initialising, Reselecting, flags, binVars, LoadStaticBinJson, GotoStep
<1> QED BY <1>2, <1>3, <1>4, <1>5, <1>6, <1>7 DEF StaticInv

\* A load that fails ends every promise.
LEMMA LoadFailsKeeps ==
    ASSUME StaticInv, NEW t \in Thread, LoadFails(t)
    PROVE  StaticInv'
<1>1. StaticTypeOK /\ Fresh /\ Settled /\ Apart /\ Cleaned /\ SelectedUsable
  BY DEF StaticInv
<1>2. StaticTypeOK'
  <2>1. settled' \in [Thread -> Gen] /\ floor' \in Gen
    BY <1>1, DynamicNewest DEF StaticTypeOK, LoadFails, GotoStep
  <2> QED BY <1>1, <2>1 DEF StaticTypeOK, Flag, Initialising, Reselecting, flags, binVars, LoadFails, GotoStep
<1>3. Fresh'
  BY <1>1, <1>2 DEF Fresh, Apart, Under, StaticTypeOK, Gen, Binary, Flag, Initialising, Reselecting, flags, binVars, LoadFails, GotoStep
<1>4. Settled'
  BY <1>1, <1>2 DEF Settled, Fresh, StaticTypeOK, Gen, Initialising, Reselecting, Cleaned, flags, binVars, LoadFails, GotoStep
<1>5. Apart'
  BY <1>1, <1>2 DEF Apart, Under, StaticTypeOK, Cleaned, Initialising, Reselecting, flags, binVars, LoadFails, GotoStep
<1>6. Cleaned'
  BY <1>1, <1>2 DEF Cleaned, Under, StaticTypeOK, Initialising, Reselecting, flags, binVars, LoadFails, GotoStep
<1>7. SelectedUsable'
  <2>1. \A u \in Thread : pc'[u] = "run" =>
          /\ pc[u] = "run" /\ bin'[u] = bin[u] /\ opType'[u] = opType[u]
          /\ settled'[u] \in {0, settled[u]} /\ bin[u].gen \in Nat
    BY <1>1, MaxGenAssumption DEF StaticTypeOK, Binary, Gen, LoadFails, GotoStep
  <2>2. staticBins' = staticBins /\ abandonedStaticBins' = abandonedStaticBins
    BY DEF binVars, LoadFails, GotoStep
  <2> QED BY <1>1, <2>1, <2>2 DEF SelectedUsable
<1> QED BY <1>2, <1>3, <1>4, <1>5, <1>6, <1>7 DEF StaticInv

\* A call that returns early takes nothing with it.
LEMMA InitFailsKeeps ==
    ASSUME StaticInv, NEW t \in Thread, InitFails(t)
    PROVE  StaticInv'
<1>1. StaticTypeOK /\ Fresh /\ Settled /\ Apart /\ Cleaned /\ SelectedUsable
  BY DEF StaticInv
<1>2. StaticTypeOK'
  BY <1>1 DEF StaticTypeOK, Gen, Flag, Binary, Initialising, Reselecting, flags, binVars, InitFails, GotoStep
<1>3. Fresh'
  BY <1>1, <1>2 DEF Fresh, Apart, Under, StaticTypeOK, Gen, Binary, Flag, Initialising, Reselecting, flags, binVars, InitFails, GotoStep
<1>4. Settled'
  BY <1>1, <1>2 DEF Settled, Fresh, StaticTypeOK, Gen, Initialising, Reselecting, Cleaned, flags, binVars, InitFails, GotoStep
<1>5. Apart'
  BY <1>1, <1>2 DEF Apart, Under, StaticTypeOK, Cleaned, Initialising, Reselecting, flags, binVars, InitFails, GotoStep
<1>6. Cleaned'
  BY <1>1, <1>2 DEF Cleaned, Under, StaticTypeOK, Initialising, Reselecting, flags, binVars, InitFails, GotoStep
<1>7. SelectedUsable'
  BY <1>1, <1>2 DEF SelectedUsable, Dynamic, StaticTypeOK, Initialising, Reselecting, flags, binVars, InitFails, GotoStep
<1> QED BY <1>2, <1>3, <1>4, <1>5, <1>6, <1>7 DEF StaticInv

\* A call begins to parse what is in memory, or waits.
LEMMA EnterInitKeeps ==
    ASSUME StaticInv, NEW t \in Thread, EnterInit(t)
    PROVE  StaticInv'
<1>1. StaticTypeOK /\ Fresh /\ Settled /\ Apart /\ Cleaned /\ SelectedUsable
  BY DEF StaticInv
<1>2. StaticTypeOK'
  BY <1>1 DEF StaticTypeOK, Gen, Flag, Binary, Initialising, Reselecting, flags, binVars, EnterInit, CallOnce, Exchanged, GotoStep
<1>3. Fresh'
  BY <1>1, <1>2 DEF Fresh, Apart, Under, StaticTypeOK, Gen, Binary, Flag, Initialising, Reselecting, flags, binVars, EnterInit, CallOnce, Exchanged, GotoStep
<1>4. Settled'
  BY <1>1, <1>2 DEF Settled, Fresh, StaticTypeOK, Gen, Initialising, Reselecting, Cleaned, flags, binVars, EnterInit, CallOnce, Exchanged, GotoStep
<1>5. Apart'
  BY <1>1, <1>2 DEF Apart, Under, StaticTypeOK, Cleaned, Initialising, Reselecting, flags, binVars, EnterInit, CallOnce, Exchanged, GotoStep
<1>6. Cleaned'
  BY <1>1, <1>2 DEF Cleaned, Under, StaticTypeOK, Initialising, Reselecting, flags, binVars, EnterInit, CallOnce, Exchanged, GotoStep
<1>7. SelectedUsable'
  BY <1>1, <1>2 DEF SelectedUsable, Dynamic, StaticTypeOK, Initialising, Reselecting, flags, binVars, EnterInit, CallOnce, Exchanged, GotoStep
<1> QED BY <1>2, <1>3, <1>4, <1>5, <1>6, <1>7 DEF StaticInv

\* A waiting call goes on to select.
LEMMA InitWaitedKeeps ==
    ASSUME StaticInv, NEW t \in Thread, InitWaited(t)
    PROVE  StaticInv'
<1>1. StaticTypeOK /\ Fresh /\ Settled /\ Apart /\ Cleaned /\ SelectedUsable
  BY DEF StaticInv
<1>2. StaticTypeOK'
  BY <1>1 DEF StaticTypeOK, Gen, Flag, Binary, Initialising, Reselecting, flags, binVars, InitWaited, GotoStep
<1>3. Fresh'
  BY <1>1, <1>2 DEF Fresh, Apart, Under, StaticTypeOK, Gen, Binary, Flag, Initialising, Reselecting, flags, binVars, InitWaited, GotoStep
<1>4. Settled'
  BY <1>1, <1>2 DEF Settled, Fresh, StaticTypeOK, Gen, Initialising, Reselecting, Cleaned, flags, binVars, InitWaited, GotoStep
<1>5. Apart'
  BY <1>1, <1>2 DEF Apart, Under, StaticTypeOK, Cleaned, Initialising, Reselecting, flags, binVars, InitWaited, GotoStep
<1>6. Cleaned'
  BY <1>1, <1>2 DEF Cleaned, Under, StaticTypeOK, Initialising, Reselecting, flags, binVars, InitWaited, GotoStep
<1>7. SelectedUsable'
  BY <1>1, <1>2 DEF SelectedUsable, Dynamic, StaticTypeOK, Initialising, Reselecting, flags, binVars, InitWaited, GotoStep
<1> QED BY <1>2, <1>3, <1>4, <1>5, <1>6, <1>7 DEF StaticInv

\* What is parsed is as new as was promised.
LEMMA ParseStaticKernelsKeeps ==
    ASSUME StaticInv, NEW t \in Thread, ParseStaticKernels(t)
    PROVE  StaticInv'
<1>1. StaticTypeOK /\ Fresh /\ Settled /\ Apart /\ Cleaned /\ SelectedUsable
  BY DEF StaticInv
<1>2. StaticTypeOK'
  BY <1>1 DEF StaticTypeOK, Gen, Flag, Binary, Initialising, Reselecting, flags, binVars, ParseStaticKernels, HashAndInsert, GotoStep
<1>3. Fresh'
  BY <1>1, <1>2 DEF Fresh, Apart, Under, StaticTypeOK, Gen, Binary, Flag, Initialising, Reselecting, flags, binVars, ParseStaticKernels, HashAndInsert, GotoStep
<1>4. Settled'
  BY <1>1, <1>2 DEF Settled, Fresh, StaticTypeOK, Gen, Initialising, Reselecting, Cleaned, flags, binVars, ParseStaticKernels, HashAndInsert, GotoStep
<1>5. Apart'
  BY <1>1, <1>2 DEF Apart, Under, StaticTypeOK, Cleaned, Initialising, Reselecting, flags, binVars, ParseStaticKernels, HashAndInsert, GotoStep
<1>6. Cleaned'
  BY <1>1, <1>2 DEF Cleaned, Under, StaticTypeOK, Initialising, Reselecting, flags, binVars, ParseStaticKernels, HashAndInsert, GotoStep
<1>7. SelectedUsable'
  BY <1>1, <1>2 DEF SelectedUsable, Dynamic, StaticTypeOK, Initialising, Reselecting, flags, binVars, ParseStaticKernels, HashAndInsert, GotoStep
<1> QED BY <1>2, <1>3, <1>4, <1>5, <1>6, <1>7 DEF StaticInv

\* A parse that throws registers nothing.
LEMMA ParseThrowsKeeps ==
    ASSUME StaticInv, NEW t \in Thread, ParseThrows(t)
    PROVE  StaticInv'
<1>1. StaticTypeOK /\ Fresh /\ Settled /\ Apart /\ Cleaned /\ SelectedUsable
  BY DEF StaticInv
<1>2. StaticTypeOK'
  BY <1>1 DEF StaticTypeOK, Gen, Flag, Binary, Initialising, Reselecting, flags, binVars, ParseThrows, Thrown, GotoStep
<1>3. Fresh'
  BY <1>1, <1>2 DEF Fresh, Apart, Under, StaticTypeOK, Gen, Binary, Flag, Initialising, Reselecting, flags, binVars, ParseThrows, Thrown, GotoStep
<1>4. Settled'
  BY <1>1, <1>2 DEF Settled, Fresh, StaticTypeOK, Gen, Initialising, Reselecting, Cleaned, flags, binVars, ParseThrows, Thrown, GotoStep
<1>5. Apart'
  BY <1>1, <1>2 DEF Apart, Under, StaticTypeOK, Cleaned, Initialising, Reselecting, flags, binVars, ParseThrows, Thrown, GotoStep
<1>6. Cleaned'
  BY <1>1, <1>2 DEF Cleaned, Under, StaticTypeOK, Initialising, Reselecting, flags, binVars, ParseThrows, Thrown, GotoStep
<1>7. SelectedUsable'
  BY <1>1, <1>2 DEF SelectedUsable, Dynamic, StaticTypeOK, Initialising, Reselecting, flags, binVars, ParseThrows, Thrown, GotoStep
<1> QED BY <1>2, <1>3, <1>4, <1>5, <1>6, <1>7 DEF StaticInv

\* The selected binary is registered, or dynamic.
LEMMA SelectBinKeeps ==
    ASSUME StaticInv, NEW t \in Thread, SelectBin(t)
    PROVE  StaticInv'
<1>1. StaticTypeOK /\ Fresh /\ Settled /\ Apart /\ Cleaned /\ SelectedUsable
  BY DEF StaticInv
<1>2. StaticTypeOK'
  <2>1. Selected(opType[t]) \in Binary
    BY <1>1, DynamicNewest, SelectedFrom DEF StaticTypeOK
  <2> QED BY <1>1, <2>1 DEF StaticTypeOK, Initialising, Reselecting, flags, binVars, SelectBin, GotoStep
<1>3. Fresh'
  BY <1>1, <1>2 DEF Fresh, Apart, Under, StaticTypeOK, Gen, Binary, Flag, Initialising, Reselecting, flags, binVars, SelectBin, GotoStep
<1>4. Settled'
  BY <1>1, <1>2 DEF Settled, Fresh, StaticTypeOK, Gen, Initialising, Reselecting, Cleaned, flags, binVars, SelectBin, GotoStep
<1>5. Apart'
  BY <1>1, <1>2 DEF Apart, Under, StaticTypeOK, Cleaned, Initialising, Reselecting, flags, binVars, SelectBin, GotoStep
<1>6. Cleaned'
  BY <1>1, <1>2 DEF Cleaned, Under, StaticTypeOK, Initialising, Reselecting, flags, binVars, SelectBin, GotoStep
<1>7. SelectedUsable'
  <2>1. PICK b : b = Selected(opType[t])
    OBVIOUS
  <2>2. b = Dynamic \/ b \in staticBins[opType[t]]
    BY <1>1, <2>1, SelectedFrom DEF StaticTypeOK
  <2>3. b.gen >= settled[t]
    <3>1. settled[t] <= floor /\ floor <= disk /\ floor <= MaxGen
      BY <1>1 DEF Settled, Fresh, StaticTypeOK, Gen, Initialising, SelectBin
    <3>2. floor <= b.gen /\ b.gen \in Nat
      BY <1>1, <2>2, <3>1, DynamicNewest DEF Fresh, StaticTypeOK, Binary, Gen
    <3> QED BY <1>1, <3>1, <3>2 DEF StaticTypeOK, Gen
  <2> QED BY <1>1, <2>1, <2>2, <2>3 DEF SelectedUsable, StaticTypeOK, binVars, SelectBin, GotoStep
<1> QED BY <1>2, <1>3, <1>4, <1>5, <1>6, <1>7 DEF StaticInv

\* A call ends.
LEMMA RunKeeps ==
    ASSUME StaticInv, NEW t \in Thread, Run(t)
    PROVE  StaticInv'
<1>1. StaticTypeOK /\ Fresh /\ Settled /\ Apart /\ Cleaned /\ SelectedUsable
  BY DEF StaticInv
<1>2. StaticTypeOK'
  BY <1>1, DynamicNewest DEF StaticTypeOK, Initialising, Reselecting, flags, binVars, Run, GotoStep
<1>3. Fresh'
  BY <1>1, <1>2 DEF Fresh, Apart, Under, StaticTypeOK, Gen, Binary, Flag, Initialising, Reselecting, flags, binVars, Run, GotoStep
<1>4. Settled'
  BY <1>1, <1>2 DEF Settled, Fresh, StaticTypeOK, Gen, Initialising, Reselecting, Cleaned, flags, binVars, Run, GotoStep
<1>5. Apart'
  BY <1>1, <1>2 DEF Apart, Under, StaticTypeOK, Cleaned, Initialising, Reselecting, flags, binVars, Run, GotoStep
<1>6. Cleaned'
  BY <1>1, <1>2 DEF Cleaned, Under, StaticTypeOK, Initialising, Reselecting, flags, binVars, Run, GotoStep
<1>7. SelectedUsable'
  BY <1>1, <1>2 DEF SelectedUsable, Dynamic, StaticTypeOK, Initialising, Reselecting, flags, binVars, Run, GotoStep
<1> QED BY <1>2, <1>3, <1>4, <1>5, <1>6, <1>7 DEF StaticInv

\* A reselection begins; if an initialisation is under way, it is not clean and nothing is promised any more.
LEMMA ReselectKeeps ==
    ASSUME StaticInv, NEW t \in Thread, Reselect(t)
    PROVE  StaticInv'
<1>1. StaticTypeOK /\ Fresh /\ Settled /\ Apart /\ Cleaned /\ SelectedUsable
  BY DEF StaticInv
<1>2. StaticTypeOK'
  <2>1. settled' \in [Thread -> Gen] /\ floor' \in Gen
    BY <1>1, DynamicNewest DEF StaticTypeOK, Reselect, GotoStep, Promise, Promised
  <2> QED BY <1>1, <2>1 DEF StaticTypeOK, Flag, Initialising, Reselecting, flags, binVars, Reselect, GotoStep, Promise, Promised
<1>3. Fresh'
  BY <1>1, <1>2 DEF Fresh, Apart, Under, StaticTypeOK, Gen, Binary, Flag, Initialising, Reselecting, flags, binVars, Reselect, GotoStep, Promise, Promised
<1>4. Settled'
  BY <1>1, <1>2 DEF Settled, Fresh, StaticTypeOK, Gen, Initialising, Reselecting, Cleaned, flags, binVars, Reselect, GotoStep, Promise, Promised
<1>5. Apart'
  BY <1>1, <1>2 DEF Apart, Under, StaticTypeOK, Cleaned, Initialising, Reselecting, flags, binVars, Reselect, GotoStep, Promise, Promised
<1>6. Cleaned'
  BY <1>1, <1>2 DEF Cleaned, Under, StaticTypeOK, Initialising, Reselecting, flags, binVars, Reselect, GotoStep, Promise, Promised
<1>7. SelectedUsable'
  <2>1. \A u \in Thread : pc'[u] = "run" =>
          /\ pc[u] = "run" /\ bin'[u] = bin[u] /\ opType'[u] = opType[u]
          /\ settled'[u] \in {0, settled[u]} /\ bin[u].gen \in Nat
    BY <1>1, MaxGenAssumption DEF StaticTypeOK, Binary, Gen, Reselect, GotoStep, Promise, Promised
  <2>2. staticBins' = staticBins /\ abandonedStaticBins' = abandonedStaticBins
    BY DEF binVars, Reselect, GotoStep, Promise, Promised
  <2> QED BY <1>1, <2>1, <2>2 DEF SelectedUsable
<1> QED BY <1>2, <1>3, <1>4, <1>5, <1>6, <1>7 DEF StaticInv

\* It is counted.
LEMMA CountKeeps ==
    ASSUME StaticInv, NEW t \in Thread, Count(t)
    PROVE  StaticInv'
<1>1. StaticTypeOK /\ Fresh /\ Settled /\ Apart /\ Cleaned /\ SelectedUsable
  BY DEF StaticInv
<1>2. StaticTypeOK'
  BY <1>1 DEF StaticTypeOK, Gen, Flag, Binary, Initialising, Reselecting, flags, binVars, Count, GotoStep
<1>3. Fresh'
  BY <1>1, <1>2 DEF Fresh, Apart, Under, StaticTypeOK, Gen, Binary, Flag, Initialising, Reselecting, flags, binVars, Count, GotoStep
<1>4. Settled'
  BY <1>1, <1>2 DEF Settled, Fresh, StaticTypeOK, Gen, Initialising, Reselecting, Cleaned, flags, binVars, Count, GotoStep
<1>5. Apart'
  BY <1>1, <1>2 DEF Apart, Under, StaticTypeOK, Cleaned, Initialising, Reselecting, flags, binVars, Count, GotoStep
<1>6. Cleaned'
  BY <1>1, <1>2 DEF Cleaned, Under, StaticTypeOK, Initialising, Reselecting, flags, binVars, Count, GotoStep
<1>7. SelectedUsable'
  BY <1>1, <1>2 DEF SelectedUsable, Dynamic, StaticTypeOK, Initialising, Reselecting, flags, binVars, Count, GotoStep
<1> QED BY <1>2, <1>3, <1>4, <1>5, <1>6, <1>7 DEF StaticInv

\* It has seen that nobody loads.
LEMMA ResetLoadKeeps ==
    ASSUME StaticInv, NEW t \in Thread, ResetLoad(t)
    PROVE  StaticInv'
<1>1. StaticTypeOK /\ Fresh /\ Settled /\ Apart /\ Cleaned /\ SelectedUsable
  BY DEF StaticInv
<1>2. StaticTypeOK'
  BY <1>1 DEF StaticTypeOK, Gen, Flag, Binary, Initialising, Reselecting, flags, binVars, ResetLoad, GotoStep
<1>3. Fresh'
  BY <1>1, <1>2 DEF Fresh, Apart, Under, StaticTypeOK, Gen, Binary, Flag, Initialising, Reselecting, flags, binVars, ResetLoad, GotoStep
<1>4. Settled'
  BY <1>1, <1>2 DEF Settled, Fresh, StaticTypeOK, Gen, Initialising, Reselecting, Cleaned, flags, binVars, ResetLoad, GotoStep
<1>5. Apart'
  BY <1>1, <1>2 DEF Apart, Under, StaticTypeOK, Cleaned, Initialising, Reselecting, flags, binVars, ResetLoad, GotoStep
<1>6. Cleaned'
  BY <1>1, <1>2 DEF Cleaned, Under, StaticTypeOK, Initialising, Reselecting, flags, binVars, ResetLoad, GotoStep
<1>7. SelectedUsable'
  BY <1>1, <1>2 DEF SelectedUsable, Dynamic, StaticTypeOK, Initialising, Reselecting, flags, binVars, ResetLoad, GotoStep
<1> QED BY <1>2, <1>3, <1>4, <1>5, <1>6, <1>7 DEF StaticInv

\* The reset: no thread waits for the flag while something is promised.
LEMMA StoreLoadKeeps ==
    ASSUME StaticInv, NEW t \in Thread, StoreLoad(t)
    PROVE  StaticInv'
<1>1. StaticTypeOK /\ Fresh /\ Settled /\ Apart /\ Cleaned /\ SelectedUsable
  BY DEF StaticInv
<1>2. StaticTypeOK'
  BY <1>1 DEF StaticTypeOK, Gen, Flag, Binary, Initialising, Reselecting, flags, binVars, StoreLoad, Store, GotoStep
<1>3. Fresh'
  BY <1>1, <1>2 DEF Fresh, Apart, Under, StaticTypeOK, Gen, Binary, Flag, Initialising, Reselecting, flags, binVars, StoreLoad, Store, GotoStep
<1>4. Settled'
  BY <1>1, <1>2 DEF Settled, Fresh, StaticTypeOK, Gen, Initialising, Reselecting, Cleaned, flags, binVars, StoreLoad, Store, GotoStep
<1>5. Apart'
  BY <1>1, <1>2 DEF Apart, Under, StaticTypeOK, Cleaned, Initialising, Reselecting, flags, binVars, StoreLoad, Store, GotoStep
<1>6. Cleaned'
  BY <1>1, <1>2 DEF Cleaned, Under, StaticTypeOK, Initialising, Reselecting, flags, binVars, StoreLoad, Store, GotoStep
<1>7. SelectedUsable'
  BY <1>1, <1>2 DEF SelectedUsable, Dynamic, StaticTypeOK, Initialising, Reselecting, flags, binVars, StoreLoad, Store, GotoStep
<1> QED BY <1>2, <1>3, <1>4, <1>5, <1>6, <1>7 DEF StaticInv

\* It has seen that nobody parses for an operator type.
LEMMA ResetInitKeeps ==
    ASSUME StaticInv, NEW t \in Thread, ResetInit(t)
    PROVE  StaticInv'
<1>1. StaticTypeOK /\ Fresh /\ Settled /\ Apart /\ Cleaned /\ SelectedUsable
  BY DEF StaticInv
<1>2. StaticTypeOK'
  BY <1>1 DEF StaticTypeOK, Gen, Flag, Binary, Initialising, Reselecting, flags, binVars, ResetInit, GotoStep
<1>3. Fresh'
  BY <1>1, <1>2 DEF Fresh, Apart, Under, StaticTypeOK, Gen, Binary, Flag, Initialising, Reselecting, flags, binVars, ResetInit, GotoStep
<1>4. Settled'
  BY <1>1, <1>2 DEF Settled, Fresh, StaticTypeOK, Gen, Initialising, Reselecting, Cleaned, flags, binVars, ResetInit, GotoStep
<1>5. Apart'
  BY <1>1, <1>2 DEF Apart, Under, StaticTypeOK, Cleaned, Initialising, Reselecting, flags, binVars, ResetInit, GotoStep
<1>6. Cleaned'
  BY <1>1, <1>2 DEF Cleaned, Under, StaticTypeOK, Initialising, Reselecting, flags, binVars, ResetInit, GotoStep
<1>7. SelectedUsable'
  BY <1>1, <1>2 DEF SelectedUsable, Dynamic, StaticTypeOK, Initialising, Reselecting, flags, binVars, ResetInit, GotoStep
<1> QED BY <1>2, <1>3, <1>4, <1>5, <1>6, <1>7 DEF StaticInv

\* That flag is reset.
LEMMA StoreInitKeeps ==
    ASSUME StaticInv, NEW t \in Thread, StoreInit(t)
    PROVE  StaticInv'
<1>1. StaticTypeOK /\ Fresh /\ Settled /\ Apart /\ Cleaned /\ SelectedUsable
  BY DEF StaticInv
<1>2. StaticTypeOK'
  BY <1>1 DEF StaticTypeOK, Gen, Flag, Binary, Initialising, Reselecting, flags, binVars, StoreInit, GotoStep
<1>3. Fresh'
  BY <1>1, <1>2 DEF Fresh, Apart, Under, StaticTypeOK, Gen, Binary, Flag, Initialising, Reselecting, flags, binVars, StoreInit, GotoStep
<1>4. Settled'
  BY <1>1, <1>2 DEF Settled, Fresh, StaticTypeOK, Gen, Initialising, Reselecting, Cleaned, flags, binVars, StoreInit, GotoStep
<1>5. Apart'
  BY <1>1, <1>2 DEF Apart, Under, StaticTypeOK, Cleaned, Initialising, Reselecting, flags, binVars, StoreInit, GotoStep
<1>6. Cleaned'
  BY <1>1, <1>2 DEF Cleaned, Under, StaticTypeOK, Initialising, Reselecting, flags, binVars, StoreInit, GotoStep
<1>7. SelectedUsable'
  BY <1>1, <1>2 DEF SelectedUsable, Dynamic, StaticTypeOK, Initialising, Reselecting, flags, binVars, StoreInit, GotoStep
<1> QED BY <1>2, <1>3, <1>4, <1>5, <1>6, <1>7 DEF StaticInv

\* Binaries are given up and stay allocated.
LEMMA ClearStaticBinsKeeps ==
    ASSUME StaticInv, NEW t \in Thread, ClearStaticBins(t)
    PROVE  StaticInv'
<1>1. StaticTypeOK /\ Fresh /\ Settled /\ Apart /\ Cleaned /\ SelectedUsable
  BY DEF StaticInv
<1>2. StaticTypeOK'
  BY <1>1 DEF StaticTypeOK, Gen, Flag, Binary, Initialising, Reselecting, flags, binVars, ClearStaticBins, Abandoned, GotoStep
<1>3. Fresh'
  BY <1>1, <1>2 DEF Fresh, Apart, Under, StaticTypeOK, Gen, Binary, Flag, Initialising, Reselecting, flags, binVars, ClearStaticBins, Abandoned, GotoStep
<1>4. Settled'
  BY <1>1, <1>2 DEF Settled, Fresh, StaticTypeOK, Gen, Initialising, Reselecting, Cleaned, flags, binVars, ClearStaticBins, Abandoned, GotoStep
<1>5. Apart'
  BY <1>1, <1>2 DEF Apart, Under, StaticTypeOK, Cleaned, Initialising, Reselecting, flags, binVars, ClearStaticBins, Abandoned, GotoStep
<1>6. Cleaned'
  BY <1>1, <1>2 DEF Cleaned, Under, StaticTypeOK, Initialising, Reselecting, flags, binVars, ClearStaticBins, Abandoned, GotoStep
<1>7. SelectedUsable'
  BY <1>1, <1>2 DEF SelectedUsable, Dynamic, StaticTypeOK, Initialising, Reselecting, flags, binVars, ClearStaticBins, Abandoned, GotoStep
<1> QED BY <1>2, <1>3, <1>4, <1>5, <1>6, <1>7 DEF StaticInv

\* A clean reselection ends with nothing registered and nothing loaded.
LEMMA ReloadStaticBinJsonInfosKeeps ==
    ASSUME StaticInv, NEW t \in Thread, ReloadStaticBinJsonInfos(t)
    PROVE  StaticInv'
<1>1. StaticTypeOK /\ Fresh /\ Settled /\ Apart /\ Cleaned /\ SelectedUsable
  BY DEF StaticInv
<1>2. StaticTypeOK'
  BY <1>1 DEF StaticTypeOK, Gen, Flag, Binary, Initialising, Reselecting, flags, binVars, ReloadStaticBinJsonInfos, GotoStep
<1>3. Fresh'
  <2>1. CASE floor' = floor
    BY <1>1, <2>1 DEF Fresh, StaticTypeOK, Gen, flags, binVars, ReloadStaticBinJsonInfos, GotoStep
  <2>2. CASE floor' # floor
    <3>1. clean[t] /\ floor' = settled[t] /\ pc[t] = "refresh" /\ pc' = [pc EXCEPT ![t] = "idle"]
      BY <1>1, <2>2 DEF StaticTypeOK, ReloadStaticBinJsonInfos, GotoStep
    <3>2. settled[t] <= disk
      BY <1>1, <3>1 DEF Settled, Reselecting
    <3>3. /\ \A u \in Thread : pc[u] \notin Initialising
          /\ jsonFlag = "NOT_EXECUTE" /\ \A o \in OpType : staticBins[o] = {}
      BY <1>1, <3>1 DEF Cleaned, Under, Reselecting
    <3>4. \A u \in Thread : pc'[u] \notin Initialising
      BY <1>1, <3>1, <3>3 DEF StaticTypeOK, Initialising
    <3> QED BY <3>1, <3>2, <3>3, <3>4
            DEF Fresh, Initialising, flags, binVars, ReloadStaticBinJsonInfos
  <2> QED BY <2>1, <2>2
<1>4. Settled'
  BY <1>1, <1>2 DEF Settled, Fresh, StaticTypeOK, Gen, Initialising, Reselecting, Cleaned, flags, binVars, ReloadStaticBinJsonInfos, GotoStep
<1>5. Apart'
  BY <1>1, <1>2 DEF Apart, Under, StaticTypeOK, Cleaned, Initialising, Reselecting, flags, binVars, ReloadStaticBinJsonInfos, GotoStep
<1>6. Cleaned'
  BY <1>1, <1>2 DEF Cleaned, Under, StaticTypeOK, Initialising, Reselecting, flags, binVars, ReloadStaticBinJsonInfos, GotoStep
<1>7. SelectedUsable'
  BY <1>1, <1>2 DEF SelectedUsable, Dynamic, StaticTypeOK, Initialising, Reselecting, flags, binVars, ReloadStaticBinJsonInfos, GotoStep
<1> QED BY <1>2, <1>3, <1>4, <1>5, <1>6, <1>7 DEF StaticInv

\* Other versions on disk are newer.
LEMMA InstallKeeps ==
    ASSUME StaticInv, Install
    PROVE  StaticInv'
<1>1. disk' \in Gen /\ disk < disk'
  BY MaxGenAssumption DEF StaticInv, StaticTypeOK, Gen, Install
<1> QED BY <1>1 DEF StaticInv, StaticTypeOK, Gen, Fresh, Settled, Apart, Under, Cleaned,
                    SelectedUsable, flags, binVars, callVars, Install

\* The inductive invariant holds at the start ...
LEMMA StaticInitInv == StaticInit => StaticInv
<1> SUFFICES ASSUME StaticInit PROVE StaticInv
  OBVIOUS
<1>1. StaticTypeOK
  BY MaxGenAssumption, DynamicNewest
     DEF StaticInit, StaticTypeOK, Gen, Flag, Initialising, Reselecting
<1>2. Fresh /\ Settled /\ Apart /\ Cleaned /\ SelectedUsable
  BY <1>1, MaxGenAssumption
     DEF StaticInit, Fresh, Settled, Apart, Under, Cleaned, SelectedUsable, Gen,
         Initialising, Reselecting
<1> QED BY <1>1, <1>2 DEF StaticInv

\* ... and every step of selection keeps it, and every step of the others.
LEMMA StaticNextInv == StaticInv /\ [StaticNext]_staticVars => StaticInv'
<1> SUFFICES ASSUME StaticInv, [StaticNext]_staticVars PROVE StaticInv'
  OBVIOUS
<1>1. CASE Install
  BY <1>1, InstallKeeps
<1>2. ASSUME NEW t \in Thread, BeginCall(t) \/ Reselect(t) PROVE StaticInv'
  BY <1>2, BeginCallKeeps, ReselectKeeps
<1>3. ASSUME NEW t \in Thread, StaticStep(t) PROVE StaticInv'
  BY <1>3, EnterLoadKeeps, LoadWaitedKeeps, LoadStaticBinJsonKeeps, LoadFailsKeeps, InitFailsKeeps,
     EnterInitKeeps, InitWaitedKeeps, ParseStaticKernelsKeeps, ParseThrowsKeeps,
     SelectBinKeeps, RunKeeps, CountKeeps, ResetLoadKeeps, StoreLoadKeeps, ResetInitKeeps,
     StoreInitKeeps, ClearStaticBinsKeeps, ReloadStaticBinJsonInfosKeeps
     DEF StaticStep
<1>4. CASE UNCHANGED staticVars
  BY <1>4 DEF staticVars, flags, binVars, callVars, StaticInv, StaticTypeOK, Fresh, Settled,
              Apart, Under, Cleaned, SelectedUsable
<1> QED BY <1>1, <1>2, <1>3, <1>4 DEF StaticNext

-----------------------------------------------------------------------------
(* Launching                                                               *)

\* What LaunchesOwn says of a launch x on a device.
Proper(x, device) ==
    x # None => /\ \A f \in Field : \/ x.regs[f] = x.owner
                                    \/ /\ f = "localMemorySize"
                                       /\ x.owner.job = "op" /\ x.owner.of \in Static
                /\ x.handle = <<"func", x.bin, device, Key(x.owner)>>
                /\ <<"bin", x.bin, device>> \in good

\* It says so of every thread's latest launch.
LEMMA LaunchesProper == LaunchesOwn <=> \A r \in Runner : Proper(last[r], DeviceOf[r])
  BY DEF LaunchesOwn, Proper

\* What the invariant says of a thread.
ThreadOk(r) == /\ ContextOwn(job[r], at[r], cur[r], nth[r], launcherCtx[r])
               /\ RegistersOwn(job[r], at[r], cur[r], nth[r], out[r], memOut[r])
               /\ BinaryLoaded(job[r], at[r], cur[r], nth[r], DeviceOf[r])
               /\ Proper(last[r], DeviceOf[r])

\* A step of a thread changes no other thread, and what is initialised stays.
Alone(r) ==
    /\ good \subseteq good'
    /\ \A s \in Runner : s # r =>
         /\ job'[s] = job[s] /\ at'[s] = at[s] /\ cur'[s] = cur[s] /\ nth'[s] = nth[s]
         /\ launcherCtx'[s] = launcherCtx[s] /\ last'[s] = last[s]
         /\ out'[s] = out[s] /\ memOut'[s] = memOut[s]

\* So it is enough to look at the thread itself.
LEMMA ThreadAlone ==
    ASSUME LaunchInv, NEW r \in Runner, Alone(r), LaunchTypeOK', ThreadOk(r)',
           \A l \in Launcher : launchCtx'[l] \in {None, Invalid, OpOf(l)}
    PROVE  LaunchInv'
<1>1. ASSUME NEW s \in Runner, s # r PROVE ThreadOk(s)'
  <2>1. ThreadOk(s)
    BY LaunchesProper DEF LaunchInv, ThreadOk
  <2>2. ContextOwn(job'[s], at'[s], cur'[s], nth'[s], launcherCtx'[s])
    BY <1>1, <2>1 DEF Alone, ThreadOk
  <2>3. RegistersOwn(job'[s], at'[s], cur'[s], nth'[s], out'[s], memOut'[s])
    BY <1>1, <2>1 DEF Alone, ThreadOk
  <2>4. BinaryLoaded(job[s], at[s], cur[s], nth[s], DeviceOf[s])'
    BY <1>1, <2>1 DEF Alone, ThreadOk, BinaryLoaded
  <2>5. Proper(last[s], DeviceOf[s])'
    BY <1>1, <2>1 DEF Alone, ThreadOk, Proper
  <2> QED BY <2>2, <2>3, <2>4, <2>5 DEF ThreadOk
<1>2. \A s \in Runner : ThreadOk(s)'
  BY <1>1
<1>3. LaunchesOwn'
  BY <1>2 DEF LaunchesOwn, ThreadOk, Proper
<1> QED BY <1>2, <1>3 DEF LaunchInv, ThreadOk

\* How a step of a thread moves it.
Moves(r) ==
    /\ job' \in [Runner -> Jobs] /\ at' \in [Runner -> Steps] /\ nth' \in [Runner -> Nat]
    /\ \A s \in Runner : s # r => job'[s] = job[s] /\ at'[s] = at[s] /\ nth'[s] = nth[s]

\* Become moves its thread only.
LEMMA BecomeMoves ==
    ASSUME LaunchTypeOK, NEW r \in Runner, NEW j \in Jobs, NEW a \in Steps, Become(r, j, a)
    PROVE  Moves(r) /\ job'[r] = j /\ at'[r] = a /\ nth'[r] = nth[r]
  BY DEF LaunchTypeOK, Moves, Become, Goto

\* The loop over the types goes on, or ends.
Loops(r) ==
    \/ job'[r] = "checkSize" /\ at'[r] = "json"
    \/ job'[r] = job[r] /\ at'[r] = "end"

\* NextType moves its thread only.
LEMMA NextTypeMoves ==
    ASSUME LaunchTypeOK, NEW r \in Runner, NextType(r)
    PROVE  Moves(r) /\ Loops(r)
<1>1. job[r] \in Jobs /\ {"end", "json"} \subseteq Steps /\ "checkSize" \in Jobs
  BY DEF LaunchTypeOK, Jobs, Steps, Sizes
<1>2. CASE Become(r, job[r], "end")
  BY <1>1, <1>2, BecomeMoves DEF Loops
<1>3. CASE /\ nth' = [nth EXCEPT ![r] = @ + 1]
           /\ job' = [job EXCEPT ![r] = "checkSize"] /\ Goto(r, "json")
  <2>1. nth' \in [Runner -> Nat] /\ \A s \in Runner : s # r => nth'[s] = nth[s]
    BY <1>3 DEF LaunchTypeOK
  <2>2. /\ job' \in [Runner -> Jobs] /\ at' \in [Runner -> Steps]
        /\ job'[r] = "checkSize" /\ at'[r] = "json"
        /\ \A s \in Runner : s # r => job'[s] = job[s] /\ at'[s] = at[s]
    BY <1>1, <1>3 DEF LaunchTypeOK, Goto
  <2> QED BY <2>1, <2>2 DEF Moves, Loops
<1> QED BY <1>2, <1>3 DEF NextType

\* A job that failed is no MemSet and no longer needs anything; it is a check
\* if it was one.
Quiet(r) ==
    /\ job'[r] # "memset" /\ at'[r] \in {"end", "failed"}
    /\ job'[r] = "check" => at'[r] = "end"
    /\ job'[r] = "check" <=> job[r] = "check"
    /\ job'[r] = "checkSize" <=> job[r] = "checkSize"

\* Every way a job fails is quiet.
LEMMA FailsQuietly ==
    ASSUME LaunchTypeOK, NEW r \in Runner, JobFails(r)
    PROVE  Moves(r) /\ Quiet(r)
<1>1. job[r] \in Jobs /\ {"end", "failed"} \subseteq Steps /\ {"size", "op"} \subseteq Jobs
  BY DEF LaunchTypeOK, Jobs, Steps, Sizes
<1>2. CASE job[r] = "size" /\ Become(r, "size", "failed")
  BY <1>1, <1>2, BecomeMoves DEF Quiet
<1>3. CASE job[r] = "memset" /\ Become(r, "op", "end")
  BY <1>1, <1>3, BecomeMoves DEF Quiet
<1>4. CASE job[r] \notin {"size", "memset"} /\ Become(r, job[r], "end")
  BY <1>1, <1>4, BecomeMoves DEF Quiet
<1> QED BY <1>2, <1>3, <1>4 DEF JobFails

\* What a done job becomes.
Followed(r) ==
    \/ job[r] = "memset" /\ job'[r] = "op" /\ at'[r] = "func"
    \/ job[r] = "op" /\ job'[r] = "checkSize" /\ at'[r] = "json"
    \/ job[r] = "op" /\ job'[r] \in {"op", "check"} /\ at'[r] = "end"
    \/ job[r] = "checkSize" /\ job'[r] = "check" /\ at'[r] = "bin" /\ nth'[r] = nth[r]
    \/ job[r] \in {"size", "check"} /\ job'[r] = job[r] /\ at'[r] = "end"
    \/ job[r] = "check" /\ Loops(r)

\* Every way a job ends is one of these.
LEMMA DoneFollowed ==
    ASSUME LaunchTypeOK, NEW r \in Runner, JobDone(r)
    PROVE  Moves(r) /\ Followed(r)
<1>1. /\ job[r] \in Jobs /\ {"end", "func", "json", "bin"} \subseteq Steps
      /\ {"op", "check", "checkSize"} \subseteq Jobs
  BY DEF LaunchTypeOK, Jobs, Steps, Sizes
<1>2. CASE job[r] = "memset" /\ Become(r, "op", "func")
  BY <1>1, <1>2, BecomeMoves DEF Followed
<1>3. CASE job[r] = "op" /\ (Become(r, "op", "end") \/ Become(r, "check", "end"))
  BY <1>1, <1>3, BecomeMoves DEF Followed
<1>4. CASE job[r] = "op" /\ Become(r, "checkSize", "json")
  BY <1>1, <1>4, BecomeMoves DEF Followed
<1>5. CASE job[r] = "checkSize" /\ Become(r, "check", "bin")
  BY <1>1, <1>5, BecomeMoves DEF Followed
<1>6. CASE job[r] \in {"size", "check"} /\ Become(r, job[r], "end")
  BY <1>1, <1>6, BecomeMoves DEF Followed
<1>7. CASE job[r] = "check" /\ NextType(r)
  BY <1>7, NextTypeMoves DEF Followed
<1> QED BY <1>2, <1>3, <1>4, <1>5, <1>6, <1>7 DEF JobDone

\* What a tiled job becomes.
Continued(r) ==
    \/ job[r] \in Sizes /\ Followed(r)
    \/ job[r] = "op" /\ job'[r] = "memset" /\ at'[r] = "json"
    \/ job[r] \notin Sizes /\ job'[r] = job[r] /\ at'[r] = "func" /\ nth'[r] = nth[r]

\* Every tiled job continues in one of these ways.
LEMMA TiledContinued ==
    ASSUME LaunchTypeOK, NEW r \in Runner, Tiled(r)
    PROVE  Moves(r) /\ Continued(r)
<1>1. job[r] \in Jobs /\ {"func", "json"} \subseteq Steps /\ "memset" \in Jobs
  BY DEF LaunchTypeOK, Jobs, Steps, Sizes
<1>2. CASE job[r] \in Sizes
  BY <1>2, DoneFollowed DEF Tiled, Continued
<1>3. CASE job[r] = "op" /\ Become(r, "memset", "json")
  BY <1>1, <1>3, BecomeMoves DEF Continued
<1>4. CASE job[r] \notin Sizes /\ Become(r, job[r], "func")
  BY <1>1, <1>4, BecomeMoves DEF Continued
<1> QED BY <1>2, <1>3, <1>4 DEF Tiled

\* A thread that failed quietly needs its context only for the launcher.
LEMMA QuietOk ==
    ASSUME NEW r \in Runner, Quiet(r), Proper(last[r], DeviceOf[r])',
           job'[r] \notin {"check", "checkSize"} => launcherCtx'[r] \in {None, Invalid, OpOf(cur'[r])}
    PROVE  ThreadOk(r)'
<1>1. ContextOwn(job[r], at[r], cur[r], nth[r], launcherCtx[r])'
  BY DEF Quiet, ContextOwn
<1>2. RegistersOwn(job[r], at[r], cur[r], nth[r], out[r], memOut[r])'
  BY DEF Quiet, RegistersOwn
<1>3. BinaryLoaded(job[r], at[r], cur[r], nth[r], DeviceOf[r])'
  BY DEF Quiet, BinaryLoaded
<1> QED BY <1>1, <1>2, <1>3 DEF ThreadOk

\* What was launched stays proper, as nothing initialised is taken back.
LEMMA ProperStays ==
    ASSUME NEW x, NEW d, Proper(x, d), good \subseteq good'
    PROVE  Proper(x, d)'
  BY DEF Proper

\* The parts of the invariant a step of thread r starts from.
LEMMA ThreadIsOk ==
    ASSUME LaunchInv, NEW r \in Runner
    PROVE  LaunchTypeOK /\ ThreadOk(r) /\ \A l \in Launcher : launchCtx[l] \in {None, Invalid, OpOf(l)}
  BY LaunchesProper DEF LaunchInv, ThreadOk

\* Mine names the job and the launcher.
LEMMA MineIs ==
    ASSUME LaunchTypeOK, NEW r \in Runner
    PROVE  /\ Mine(r) \in Owner /\ Invalid \in Owner /\ None \in Owner
           /\ job[r] \in {"op", "size"} => Mine(r) = OpOf(cur[r]) /\ Bin(r) = BinOf[cur[r]]
           /\ job[r] = "memset" => Mine(r) = MemSetOf(cur[r]) /\ Bin(r) = "memset"
           /\ job[r] \in {"check", "checkSize"} =>
                Mine(r) = CheckOf(cur[r], nth[r]) /\ Bin(r) = OutTypes[cur[r]][nth[r]]
           /\ IsStatic(r) => job[r] \in {"op", "size"} /\ cur[r] \in Static
<1>1. job[r] \in Jobs /\ cur[r] \in Launcher \cup {None} /\ nth[r] \in Nat
  BY DEF LaunchTypeOK
<1>2. job[r] \in {"op", "size"} => Mine(r) = OpOf(cur[r])
  BY DEF Mine, IsCheck, OpOf
<1>3. job[r] = "memset" => Mine(r) = MemSetOf(cur[r])
  BY DEF Mine, IsCheck, MemSetOf
<1>4. job[r] \in {"check", "checkSize"} => Mine(r) = CheckOf(cur[r], nth[r])
  BY DEF Mine, IsCheck, CheckOf, Dtype
<1>5. Invalid \in Owner /\ None \in Owner
  BY DEF Owner, Invalid
<1>6. OpOf(cur[r]) \in Owner /\ MemSetOf(cur[r]) \in Owner /\ CheckOf(cur[r], nth[r]) \in Owner
  <2>1. OutTypes[cur[r]][nth[r]] \in Types
    BY <1>1 DEF Types
  <2> QED BY <1>1, <2>1 DEF Owner, OpOf, MemSetOf, CheckOf
<1>7. job[r] \in {"op", "size", "memset", "check", "checkSize"}
  BY <1>1 DEF Jobs, Sizes
<1>8. /\ OpOf(cur[r]).job = "op" /\ MemSetOf(cur[r]).job = "memset"
      /\ CheckOf(cur[r], nth[r]).job = OutTypes[cur[r]][nth[r]]
  BY DEF OpOf, MemSetOf, CheckOf
<1> QED BY <1>2, <1>3, <1>4, <1>5, <1>6, <1>7, <1>8 DEF Bin, IsStatic

\* An initialisation takes nothing back.
LEMMA InitVarGrows ==
    ASSUME NEW var, NEW ok \in BOOLEAN, InitVar(var, ok)
    PROVE  good \subseteq good' /\ (ok => var \in good')
  BY DEF InitVar

\* Phase one starts with an empty context.
LEMMA CreateKeeps ==
    ASSUME LaunchInv, NEW r \in Runner, NEW l \in Launcher, Create(r, l)
    PROVE  LaunchInv'
<1>1. LaunchTypeOK /\ \A m \in Launcher : launchCtx[m] \in {None, Invalid, OpOf(m)}
  BY ThreadIsOk
<1>2. Moves(r) /\ job'[r] = "size" /\ at'[r] \in {"json", "end"}
  BY <1>1, BecomeMoves DEF Create, Jobs, Sizes, Steps
<1>3. LaunchTypeOK'
  BY <1>1, <1>2, MineIs DEF LaunchTypeOK, Moves, Create
<1>4. Alone(r)
  BY <1>1, <1>2 DEF LaunchTypeOK, Moves, Alone, Create
<1>5. launcherCtx'[r] = None /\ last'[r] = None
  BY <1>1 DEF LaunchTypeOK, Create
<1>6. ThreadOk(r)'
  BY <1>2, <1>5 DEF ThreadOk, ContextOwn, RegistersOwn, BinaryLoaded, Proper, Sizes
<1> QED BY <1>1, <1>3, <1>4, <1>6, ThreadAlone DEF Create

\* Phase two starts with the launcher's context.
LEMMA LaunchKeeps ==
    ASSUME LaunchInv, NEW r \in Runner, NEW l \in Launcher, Launch(r, l)
    PROVE  LaunchInv'
<1>1. LaunchTypeOK /\ \A m \in Launcher : launchCtx[m] \in {None, Invalid, OpOf(m)}
  BY ThreadIsOk
<1>2. Moves(r) /\ job'[r] = "op" /\ at'[r] = "json"
  BY <1>1, BecomeMoves DEF Launch, Jobs, Sizes, Steps
<1>3. LaunchTypeOK'
  BY <1>1, <1>2, MineIs DEF LaunchTypeOK, Moves, Launch
<1>4. Alone(r)
  BY <1>1, <1>2 DEF LaunchTypeOK, Moves, Alone, Launch
<1>5. launcherCtx'[r] = launchCtx[l] /\ last'[r] = None /\ cur'[r] = l
  BY <1>1 DEF LaunchTypeOK, Launch
<1>6. ThreadOk(r)'
  BY <1>1, <1>2, <1>5 DEF ThreadOk, ContextOwn, RegistersOwn, BinaryLoaded, Proper, Sizes
<1>7. \A m \in Launcher : launchCtx'[m] \in {None, Invalid, OpOf(m)}
  BY <1>1 DEF LaunchTypeOK, Launch
<1> QED BY <1>3, <1>4, <1>6, <1>7, ThreadAlone

\* Reading a description touches no context and no register.
LEMMA JsonLoadKeeps ==
    ASSUME LaunchInv, NEW r \in Runner, JsonLoad(r)
    PROVE  LaunchInv'
<1>1. LaunchTypeOK /\ ThreadOk(r) /\ \A m \in Launcher : launchCtx[m] \in {None, Invalid, OpOf(m)}
  BY ThreadIsOk
<1>2. job[r] \in Jobs /\ {"parse", "bin"} \subseteq Steps
  BY <1>1 DEF LaunchTypeOK, Steps
<1>3. good \subseteq good'
  BY InitVarGrows DEF JsonLoad
<1>4. /\ Moves(r)
      /\ \/ Quiet(r)
         \/ /\ job'[r] = job[r] /\ at'[r] = IF job[r] \in Sizes THEN "parse" ELSE "bin"
            /\ nth'[r] = nth[r]
         \/ job[r] = "checkSize" /\ job'[r] = "checkSize" /\ at'[r] \in {"json", "end"}
  <2>1. CASE Become(r, job[r], IF job[r] \in Sizes THEN "parse" ELSE "bin")
    BY <1>1, <1>2, <2>1, BecomeMoves
  <2>2. CASE job[r] = "op" /\ Become(r, "op", "bin")
    BY <1>1, <1>2, <2>2, BecomeMoves DEF Sizes
  <2>3. CASE JobFails(r)
    BY <1>1, <2>3, FailsQuietly
  <2>4. CASE job[r] = "checkSize" /\ NextType(r)
    BY <1>1, <2>4, NextTypeMoves DEF Loops
  <2> QED BY <2>1, <2>2, <2>3, <2>4 DEF JsonLoad
<1>5. LaunchTypeOK'
  BY <1>1, <1>4 DEF LaunchTypeOK, Moves, JsonLoad
<1>6. Alone(r)
  BY <1>1, <1>3, <1>4 DEF LaunchTypeOK, Moves, Alone, JsonLoad
<1>7. /\ last'[r] = None /\ cur'[r] = cur[r] /\ launcherCtx'[r] = launcherCtx[r]
      /\ out'[r] = out[r] /\ memOut'[r] = memOut[r]
  BY <1>1 DEF LaunchTypeOK, JsonLoad
<1>8. ThreadOk(r)'
  <2>1. CASE Quiet(r)
    BY <1>1, <1>7, <2>1, QuietOk DEF Quiet, ThreadOk, ContextOwn, Proper
  <2>2. CASE /\ job'[r] = job[r] /\ at'[r] = IF job[r] \in Sizes THEN "parse" ELSE "bin"
             /\ nth'[r] = nth[r]
    <3>1. ContextOwn(job[r], at[r], cur[r], nth[r], launcherCtx[r])'
      BY <1>1, <1>7, <2>2 DEF JsonLoad, ThreadOk, ContextOwn
    <3>2. RegistersOwn(job[r], at[r], cur[r], nth[r], out[r], memOut[r])'
      BY <1>1, <1>7, <2>2 DEF JsonLoad, ThreadOk, RegistersOwn
    <3>3. BinaryLoaded(job[r], at[r], cur[r], nth[r], DeviceOf[r])'
      BY <1>1, <1>3, <1>7, <2>2 DEF JsonLoad, ThreadOk, BinaryLoaded
    <3> QED BY <1>7, <3>1, <3>2, <3>3 DEF ThreadOk, Proper
  <2>3. CASE job'[r] = "checkSize" /\ at'[r] \in {"json", "end"}
    BY <1>7, <2>3 DEF ThreadOk, ContextOwn, RegistersOwn, BinaryLoaded, Proper, Sizes
  <2> QED BY <1>4, <2>1, <2>2, <2>3
<1> QED BY <1>1, <1>5, <1>6, <1>8, ThreadAlone DEF JsonLoad

\* The binary is then on the thread's device, or the job has failed.
LEMMA BinLoadKeeps ==
    ASSUME LaunchInv, NEW r \in Runner, BinLoad(r)
    PROVE  LaunchInv'
<1>1. LaunchTypeOK /\ ThreadOk(r) /\ \A m \in Launcher : launchCtx[m] \in {None, Invalid, OpOf(m)}
  BY ThreadIsOk
<1>2. job[r] \in Jobs /\ "parse" \in Steps
  BY <1>1 DEF LaunchTypeOK, Steps
<1>3. good \subseteq good'
  BY InitVarGrows DEF BinLoad
<1>4. /\ Moves(r)
      /\ \/ Quiet(r)
         \/ /\ job'[r] = job[r] /\ at'[r] = "parse" /\ nth'[r] = nth[r]
            /\ <<"bin", Bin(r), DeviceOf[r]>> \in good'
  <2>1. CASE InitVar(<<"bin", Bin(r), DeviceOf[r]>>, TRUE) /\ Become(r, job[r], "parse")
    BY <1>1, <1>2, <2>1, BecomeMoves, InitVarGrows
  <2>2. CASE JobFails(r)
    BY <1>1, <2>2, FailsQuietly
  <2> QED BY <2>1, <2>2 DEF BinLoad
<1>5. currDevId' = DeviceOf
  BY <1>1, DeviceAssumption DEF LaunchTypeOK, BinLoad
<1>6. LaunchTypeOK'
  BY <1>1, <1>4, <1>5 DEF LaunchTypeOK, Moves, BinLoad
<1>7. Alone(r)
  BY <1>1, <1>3, <1>4 DEF LaunchTypeOK, Moves, Alone, BinLoad
<1>8. /\ last'[r] = last[r] /\ cur'[r] = cur[r] /\ launcherCtx'[r] = launcherCtx[r]
      /\ out'[r] = out[r] /\ memOut'[r] = memOut[r]
  BY DEF BinLoad
<1>9. Proper(last[r], DeviceOf[r])'
  BY <1>1, <1>3, <1>8, ProperStays DEF ThreadOk, Proper
<1>10. ThreadOk(r)'
  <2>1. CASE Quiet(r)
    BY <1>1, <1>8, <1>9, <2>1, QuietOk DEF Quiet, ThreadOk, ContextOwn
  <2>2. CASE /\ job'[r] = job[r] /\ at'[r] = "parse" /\ nth'[r] = nth[r]
             /\ <<"bin", Bin(r), DeviceOf[r]>> \in good'
    <3>1. ContextOwn(job[r], at[r], cur[r], nth[r], launcherCtx[r])'
      BY <1>1, <1>8, <2>2 DEF BinLoad, ThreadOk, ContextOwn
    <3>2. RegistersOwn(job[r], at[r], cur[r], nth[r], out[r], memOut[r])'
      BY <1>1, <1>8, <2>2 DEF BinLoad, ThreadOk, RegistersOwn
    <3>3. job[r] \in {"op", "memset", "check"} /\ job[r] \notin Sizes
      BY <1>1, <1>2 DEF BinLoad, ThreadOk, BinaryLoaded, Jobs, Sizes
    <3>4. Bin(r) = Loads(job[r], cur[r], nth[r])
      BY <1>1, <3>3, MineIs DEF Loads
    <3>5. job[r] = "memset" => <<"bin", BinOf[cur[r]], DeviceOf[r]>> \in good'
      BY <1>1, <1>3 DEF ThreadOk, BinaryLoaded
    <3>6. BinaryLoaded(job[r], at[r], cur[r], nth[r], DeviceOf[r])'
      BY <1>8, <2>2, <3>3, <3>4, <3>5 DEF BinaryLoaded
    <3> QED BY <1>9, <3>1, <3>2, <3>6 DEF ThreadOk
  <2> QED BY <1>4, <2>1, <2>2
<1> QED BY <1>1, <1>6, <1>7, <1>10, ThreadAlone DEF BinLoad

\* Compile information touches no context and no register.
LEMMA InitTilingParseCtxKeeps ==
    ASSUME LaunchInv, NEW r \in Runner, InitTilingParseCtx(r)
    PROVE  LaunchInv'
<1>1. LaunchTypeOK /\ ThreadOk(r) /\ \A m \in Launcher : launchCtx[m] \in {None, Invalid, OpOf(m)}
  BY ThreadIsOk
<1>2. job[r] \in Jobs /\ "tile" \in Steps
  BY <1>1 DEF LaunchTypeOK, Steps
<1>3. good \subseteq good'
  BY InitVarGrows DEF InitTilingParseCtx
<1>4. /\ Moves(r)
      /\ Quiet(r) \/ (job'[r] = job[r] /\ at'[r] = "tile" /\ nth'[r] = nth[r])
  <2>1. CASE Become(r, job[r], "tile")
    BY <1>1, <1>2, <2>1, BecomeMoves
  <2>2. CASE JobFails(r)
    BY <1>1, <2>2, FailsQuietly
  <2>3. CASE job[r] = "size" /\ JobDone(r)
    BY <1>1, <2>3, DoneFollowed DEF Followed, Quiet
  <2> QED BY <2>1, <2>2, <2>3 DEF InitTilingParseCtx
<1>5. LaunchTypeOK'
  BY <1>1, <1>4 DEF LaunchTypeOK, Moves, InitTilingParseCtx
<1>6. Alone(r)
  BY <1>1, <1>3, <1>4 DEF LaunchTypeOK, Moves, Alone, InitTilingParseCtx
<1>7. /\ last'[r] = last[r] /\ cur'[r] = cur[r] /\ launcherCtx'[r] = launcherCtx[r]
      /\ out'[r] = out[r] /\ memOut'[r] = memOut[r] /\ at[r] = "parse"
  BY DEF InitTilingParseCtx
<1>8. Proper(last[r], DeviceOf[r])'
  BY <1>1, <1>3, <1>7, ProperStays DEF ThreadOk, Proper
<1>9. ThreadOk(r)'
  <2>1. CASE Quiet(r)
    BY <1>1, <1>7, <1>8, <2>1, QuietOk DEF Quiet, ThreadOk, ContextOwn
  <2>2. CASE job'[r] = job[r] /\ at'[r] = "tile" /\ nth'[r] = nth[r]
    <3>1. ContextOwn(job[r], at[r], cur[r], nth[r], launcherCtx[r])'
      BY <1>1, <1>7, <2>2 DEF ThreadOk, ContextOwn
    <3>2. RegistersOwn(job[r], at[r], cur[r], nth[r], out[r], memOut[r])'
      BY <1>1, <1>7, <2>2 DEF ThreadOk, RegistersOwn
    <3>3. BinaryLoaded(job[r], at[r], cur[r], nth[r], DeviceOf[r])'
      BY <1>1, <1>3, <1>7, <2>2 DEF ThreadOk, BinaryLoaded
    <3> QED BY <1>8, <3>1, <3>2, <3>3 DEF ThreadOk
  <2> QED BY <1>4, <2>1, <2>2
<1> QED BY <1>1, <1>5, <1>6, <1>9, ThreadAlone DEF InitTilingParseCtx

\* A tiled job has what its launch uses, in the registers and in the context.
LEMMA TiledOk ==
    ASSUME LaunchInv, NEW r \in Runner, at[r] = "tile", Continued(r), good \subseteq good',
           cur'[r] = cur[r], last'[r] = last[r],
           job[r] = "op" => Set(out'[r], cur[r]),
           job[r] = "memset" => out'[r] = out[r] /\ memOut'[r] = Written(MemSetOf(cur[r])),
           job[r] = "check" => out'[r] = Written(CheckOf(cur[r], nth[r])) /\ launcherCtx'[r] = launcherCtx[r],
           job[r] = "checkSize" => launcherCtx'[r] = CheckOf(cur[r], nth[r]),
           job[r] \in {"op", "size", "memset"} => launcherCtx'[r] \in {None, Invalid, OpOf(cur[r])}
    PROVE  ThreadOk(r)'
<1>1. LaunchTypeOK /\ ThreadOk(r)
  BY ThreadIsOk
<1>2. job[r] \in {"op", "size", "memset", "check", "checkSize"}
  BY <1>1 DEF LaunchTypeOK, Jobs, Sizes
<1>3. Proper(last[r], DeviceOf[r])'
  BY <1>1, ProperStays DEF ThreadOk, Proper
<1>4. \/ job[r] = "checkSize" /\ job'[r] = "check" /\ at'[r] = "bin" /\ nth'[r] = nth[r]
      \/ job[r] = "size" /\ job'[r] = "size" /\ at'[r] = "end"
      \/ job[r] = "op" /\ job'[r] = "memset" /\ at'[r] = "json"
      \/ /\ job[r] \in {"op", "memset", "check"} /\ job'[r] = job[r] /\ at'[r] = "func"
         /\ nth'[r] = nth[r]
  BY <1>2 DEF Continued, Followed, Sizes
<1>5. ContextOwn(job[r], at[r], cur[r], nth[r], launcherCtx[r])'
  BY <1>1, <1>4 DEF ThreadOk, ContextOwn
<1>6. Set(out[r], cur[r])' \/ job'[r] \notin {"op", "memset"} \/ at'[r] = "end"
  BY <1>1, <1>4 DEF ThreadOk, RegistersOwn, Set
<1>7. RegistersOwn(job[r], at[r], cur[r], nth[r], out[r], memOut[r])'
  BY <1>4, <1>6 DEF RegistersOwn
<1>8. job[r] \notin Sizes => <<"bin", Loads(job[r], cur[r], nth[r]), DeviceOf[r]>> \in good'
  BY <1>1 DEF ThreadOk, BinaryLoaded
<1>9. job[r] = "memset" => <<"bin", BinOf[cur[r]], DeviceOf[r]>> \in good'
  BY <1>1 DEF ThreadOk, BinaryLoaded
<1>10. BinaryLoaded(job[r], at[r], cur[r], nth[r], DeviceOf[r])'
  BY <1>4, <1>8, <1>9 DEF BinaryLoaded, Loads, Sizes
<1> QED BY <1>3, <1>5, <1>7, <1>10 DEF ThreadOk

\* Written registers are the operator's.
LEMMA WrittenSet == \A l : Set(Written(OpOf(l)), l)
  BY DEF Set, Written

\* Written registers hold owners.
LEMMA WrittenOwners == ASSUME NEW o \in Owner PROVE Written(o) \in [Field -> Owner]
  BY DEF Written

\* A static binary's tiling sets the registers but localMemorySize.
LEMMA TileStaticKeeps ==
    ASSUME LaunchInv, NEW r \in Runner, TileStatic(r)
    PROVE  LaunchInv'
<1>1. LaunchTypeOK /\ ThreadOk(r) /\ \A m \in Launcher : launchCtx[m] \in {None, Invalid, OpOf(m)}
  BY ThreadIsOk
<1>2. Moves(r) /\ Continued(r)
  BY <1>1, TiledContinued DEF TileStatic
<1>3. /\ job[r] \in {"op", "size"} /\ cur[r] \in Static /\ Mine(r) = OpOf(cur[r])
      /\ Mine(r) \in Owner
  BY <1>1, MineIs DEF TileStatic
<1>4. out'[r] = StaticOutput(out[r], OpOf(cur[r])) /\ out' \in [Runner -> [Field -> Owner]]
  <2>1. out \in [Runner -> [Field -> Owner]] /\ out' = [out EXCEPT ![r] = StaticOutput(out[r], Mine(r))]
    BY <1>1 DEF LaunchTypeOK, TileStatic
  <2>2. StaticOutput(out[r], Mine(r)) \in [Field -> Owner]
    BY <1>3, <2>1 DEF StaticOutput
  <2> QED BY <1>3, <2>1, <2>2
<1>5. LaunchTypeOK'
  BY <1>1, <1>2, <1>4 DEF LaunchTypeOK, Moves, TileStatic
<1>6. Alone(r)
  BY <1>1, <1>2 DEF LaunchTypeOK, Moves, Alone, TileStatic
<1>7. Set(out'[r], cur[r])
  BY <1>3, <1>4 DEF Set, StaticOutput
<1>8. launcherCtx'[r] \in {None, Invalid, OpOf(cur[r])}
  BY <1>1, <1>3 DEF TileStatic, ThreadOk, ContextOwn
<1>9. at[r] = "tile" /\ good \subseteq good' /\ cur'[r] = cur[r] /\ last'[r] = last[r]
  BY DEF TileStatic
<1>10. ThreadOk(r)'
  BY <1>2, <1>3, <1>7, <1>8, <1>9, TiledOk
<1> QED BY <1>1, <1>5, <1>6, <1>10, ThreadAlone DEF TileStatic

\* A valid result in the context is the job's own.
LEMMA TileFromCacheKeeps ==
    ASSUME LaunchInv, NEW r \in Runner, TileFromCache(r)
    PROVE  LaunchInv'
<1>1. LaunchTypeOK /\ ThreadOk(r) /\ \A m \in Launcher : launchCtx[m] \in {None, Invalid, OpOf(m)}
  BY ThreadIsOk
<1>2. /\ at[r] = "tile" /\ good' = good /\ cur' = cur /\ last' = last
      /\ launcherCtx' = launcherCtx /\ memOut' = memOut /\ job[r] \in {"op", "check"}
      /\ launcherCtx[r] # None
  BY DEF TileFromCache, Caches
<1>3. CASE launcherCtx[r] = Invalid /\ JobFails(r) /\ UNCHANGED out
  <2>1. Moves(r) /\ Quiet(r)
    BY <1>1, <1>3, FailsQuietly
  <2>2. LaunchTypeOK'
    BY <1>1, <1>3, <2>1 DEF LaunchTypeOK, Moves, TileFromCache
  <2>3. Alone(r)
    BY <1>2, <1>3, <2>1 DEF Moves, Alone
  <2>4. Proper(last[r], DeviceOf[r])'
    BY <1>1, <1>2 DEF ThreadOk, Proper
  <2>5. ThreadOk(r)'
    BY <1>2, <1>3, <2>1, <2>4, QuietOk
  <2> QED BY <1>1, <2>2, <2>3, <2>5, ThreadAlone DEF TileFromCache
<1>4. CASE /\ launcherCtx[r] # Invalid /\ Tiled(r)
           /\ out' = [out EXCEPT ![r] = Written(launcherCtx[r])]
  <2>1. Moves(r) /\ Continued(r)
    BY <1>1, <1>4, TiledContinued
  <2>2. launcherCtx[r] \in Owner /\ Written(launcherCtx[r]) \in [Field -> Owner]
    BY <1>1, WrittenOwners DEF LaunchTypeOK
  <2>3. out'[r] = Written(launcherCtx[r]) /\ out' \in [Runner -> [Field -> Owner]]
    BY <1>1, <1>4, <2>2 DEF LaunchTypeOK
  <2>4. LaunchTypeOK'
    BY <1>1, <2>1, <2>3 DEF LaunchTypeOK, Moves, TileFromCache
  <2>5. Alone(r)
    BY <1>1, <1>2, <1>4, <2>1 DEF LaunchTypeOK, Moves, Alone
  <2>6. launcherCtx[r] = IF job[r] = "op" THEN OpOf(cur[r]) ELSE CheckOf(cur[r], nth[r])
    BY <1>1, <1>2, <1>4 DEF ThreadOk, ContextOwn
  <2>7. /\ job[r] = "op" => Set(out'[r], cur[r])
        /\ job[r] = "check" => out'[r] = Written(CheckOf(cur[r], nth[r]))
    BY <2>3, <2>6, WrittenSet
  <2>8. ThreadOk(r)'
    BY <1>2, <2>1, <2>6, <2>7, TiledOk
  <2> QED BY <1>1, <2>4, <2>5, <2>8, ThreadAlone DEF TileFromCache
<1> QED BY <1>3, <1>4 DEF TileFromCache

\* A tiling function writes the registers of the job that tiles.
LEMMA TilingKeeps ==
    ASSUME LaunchInv, NEW r \in Runner, Tiling(r)
    PROVE  LaunchInv'
<1>1. LaunchTypeOK /\ ThreadOk(r) /\ \A m \in Launcher : launchCtx[m] \in {None, Invalid, OpOf(m)}
  BY ThreadIsOk
<1>2. at[r] = "tile" /\ good' = good /\ cur' = cur /\ last' = last
  BY DEF Tiling
<1>3. Moves(r) /\ Continued(r)
  BY <1>1, TiledContinued DEF Tiling
<1>4. Mine(r) \in Owner /\ Written(Mine(r)) \in [Field -> Owner]
  BY <1>1, MineIs, WrittenOwners
<1>5. /\ out' \in [Runner -> [Field -> Owner]] /\ memOut' \in [Runner -> [Field -> Owner]]
      /\ \A s \in Runner : s # r => out'[s] = out[s] /\ memOut'[s] = memOut[s]
      /\ job[r] = "memset" => out'[r] = out[r] /\ memOut'[r] = Written(Mine(r))
      /\ job[r] # "memset" => out'[r] = Written(Mine(r))
  BY <1>1, <1>4 DEF LaunchTypeOK, Tiling
<1>6. /\ launcherCtx' \in [Runner -> Owner]
      /\ \A s \in Runner : s # r => launcherCtx'[s] = launcherCtx[s]
      /\ launcherCtx'[r] = IF Saves(r) THEN Mine(r) ELSE launcherCtx[r]
  BY <1>1, <1>4 DEF LaunchTypeOK, Tiling
<1>7. LaunchTypeOK'
  BY <1>1, <1>3, <1>5, <1>6 DEF LaunchTypeOK, Moves, Tiling
<1>8. Alone(r)
  BY <1>2, <1>3, <1>5, <1>6 DEF Moves, Alone
<1>9. /\ job[r] \in {"op", "size"} => Mine(r) = OpOf(cur[r])
      /\ job[r] = "memset" => Mine(r) = MemSetOf(cur[r])
      /\ job[r] \in {"check", "checkSize"} => Mine(r) = CheckOf(cur[r], nth[r])
  BY <1>1, MineIs
<1>10. job[r] = "op" => Set(out'[r], cur[r])
  BY <1>5, <1>9, WrittenSet
<1>11. /\ job[r] = "check" => launcherCtx'[r] = launcherCtx[r]
       /\ job[r] = "checkSize" => launcherCtx'[r] = CheckOf(cur[r], nth[r])
       /\ job[r] \in {"op", "size", "memset"} => launcherCtx'[r] \in {None, Invalid, OpOf(cur[r])}
  BY <1>1, <1>6, <1>9 DEF ThreadOk, ContextOwn, Saves, Sizes
<1>12. ThreadOk(r)'
  BY <1>2, <1>3, <1>5, <1>9, <1>10, <1>11, TiledOk
<1> QED BY <1>1, <1>7, <1>8, <1>12, ThreadAlone DEF Tiling

\* A tiling that fails leaves a result that is not valid, or none.
LEMMA TilingFailsKeeps ==
    ASSUME LaunchInv, NEW r \in Runner, TilingFails(r)
    PROVE  LaunchInv'
<1>1. LaunchTypeOK /\ ThreadOk(r) /\ \A m \in Launcher : launchCtx[m] \in {None, Invalid, OpOf(m)}
  BY ThreadIsOk
<1>2. good' = good /\ cur' = cur /\ last' = last /\ memOut' = memOut
  BY DEF TilingFails
<1>3. Moves(r) /\ Quiet(r)
  BY <1>1, FailsQuietly DEF TilingFails
<1>4. Invalid \in Owner /\ Written(Mine(r)) \in [Field -> Owner]
  BY <1>1, MineIs, WrittenOwners
<1>5. /\ out' \in [Runner -> [Field -> Owner]]
      /\ \A s \in Runner : s # r => out'[s] = out[s]
  BY <1>1, <1>4 DEF LaunchTypeOK, TilingFails
<1>6. /\ launcherCtx' \in [Runner -> Owner]
      /\ \A s \in Runner : s # r => launcherCtx'[s] = launcherCtx[s]
      /\ launcherCtx'[r] \in {Invalid, launcherCtx[r]}
  BY <1>1, <1>4 DEF LaunchTypeOK, TilingFails
<1>7. LaunchTypeOK'
  BY <1>1, <1>3, <1>5, <1>6 DEF LaunchTypeOK, Moves, TilingFails
<1>8. Alone(r)
  BY <1>2, <1>3, <1>5, <1>6 DEF Moves, Alone
<1>9. Proper(last[r], DeviceOf[r])'
  BY <1>1, <1>2 DEF ThreadOk, Proper
<1>10. job'[r] \notin {"check", "checkSize"} => launcherCtx'[r] \in {None, Invalid, OpOf(cur'[r])}
  BY <1>1, <1>2, <1>3, <1>6 DEF Quiet, ThreadOk, ContextOwn
<1>11. ThreadOk(r)'
  BY <1>3, <1>9, <1>10, QuietOk
<1> QED BY <1>1, <1>7, <1>8, <1>11, ThreadAlone DEF TilingFails

\* A function handle touches no context and no register.
LEMMA InitFunctionHandleKeeps ==
    ASSUME LaunchInv, NEW r \in Runner, InitFunctionHandle(r)
    PROVE  LaunchInv'
<1>1. LaunchTypeOK /\ ThreadOk(r) /\ \A m \in Launcher : launchCtx[m] \in {None, Invalid, OpOf(m)}
  BY ThreadIsOk
<1>2. job[r] \in Jobs /\ "launch" \in Steps
  BY <1>1 DEF LaunchTypeOK, Steps
<1>3. good \subseteq good'
  BY InitVarGrows DEF InitFunctionHandle
<1>4. /\ Moves(r)
      /\ Quiet(r) \/ (job'[r] = job[r] /\ at'[r] = "launch" /\ nth'[r] = nth[r])
  <2>1. CASE Become(r, job[r], "launch")
    BY <1>1, <1>2, <2>1, BecomeMoves
  <2>2. CASE JobFails(r)
    BY <1>1, <2>2, FailsQuietly
  <2> QED BY <2>1, <2>2 DEF InitFunctionHandle
<1>5. LaunchTypeOK'
  BY <1>1, <1>4 DEF LaunchTypeOK, Moves, InitFunctionHandle
<1>6. Alone(r)
  BY <1>1, <1>3, <1>4 DEF LaunchTypeOK, Moves, Alone, InitFunctionHandle
<1>7. /\ last'[r] = last[r] /\ cur'[r] = cur[r] /\ launcherCtx'[r] = launcherCtx[r]
      /\ out'[r] = out[r] /\ memOut'[r] = memOut[r] /\ at[r] = "func"
  BY DEF InitFunctionHandle
<1>8. Proper(last[r], DeviceOf[r])'
  BY <1>1, <1>3, <1>7, ProperStays DEF ThreadOk, Proper
<1>9. ThreadOk(r)'
  <2>1. CASE Quiet(r)
    BY <1>1, <1>7, <1>8, <2>1, QuietOk DEF Quiet, ThreadOk, ContextOwn
  <2>2. CASE job'[r] = job[r] /\ at'[r] = "launch" /\ nth'[r] = nth[r]
    <3>1. ContextOwn(job[r], at[r], cur[r], nth[r], launcherCtx[r])'
      BY <1>1, <1>7, <2>2 DEF ThreadOk, ContextOwn
    <3>2. RegistersOwn(job[r], at[r], cur[r], nth[r], out[r], memOut[r])'
      BY <1>1, <1>7, <2>2 DEF ThreadOk, RegistersOwn
    <3>3. BinaryLoaded(job[r], at[r], cur[r], nth[r], DeviceOf[r])'
      BY <1>1, <1>3, <1>7, <2>2 DEF ThreadOk, BinaryLoaded
    <3> QED BY <1>8, <3>1, <3>2, <3>3 DEF ThreadOk
  <2> QED BY <1>4, <2>1, <2>2
<1> QED BY <1>1, <1>5, <1>6, <1>9, ThreadAlone DEF InitFunctionHandle

\* The registers a thread launches with, the function and the binary are its
\* job's own.
LEMMA LaunchProper ==
    ASSUME LaunchInv, NEW r \in Runner, at[r] = "launch"
    PROVE  Proper([owner |-> Mine(r), regs |-> Registers(r), bin |-> Bin(r), handle |-> Handle(r)],
                  DeviceOf[r])
<1>1. LaunchTypeOK /\ ThreadOk(r)
  BY ThreadIsOk
<1>2. job[r] \in {"op", "memset", "check"} /\ job[r] \notin Sizes
  BY <1>1 DEF LaunchTypeOK, ThreadOk, BinaryLoaded, Jobs, Sizes
<1>3. /\ Mine(r) = CASE job[r] = "op" -> OpOf(cur[r]) [] job[r] = "memset" -> MemSetOf(cur[r])
                     [] job[r] = "check" -> CheckOf(cur[r], nth[r])
      /\ Bin(r) = Loads(job[r], cur[r], nth[r])
  BY <1>1, <1>2, MineIs DEF Loads
<1>4. \A f \in Field : \/ Registers(r)[f] = Mine(r)
                       \/ /\ f = "localMemorySize"
                          /\ Mine(r).job = "op" /\ Mine(r).of \in Static
  <2>1. CASE job[r] = "op"
    <3>1. Set(out[r], cur[r]) /\ Registers(r) = out[r] /\ Mine(r) = OpOf(cur[r])
      BY <1>1, <1>3, <2>1 DEF ThreadOk, RegistersOwn, Registers
    <3>2. OpOf(cur[r]).job = "op" /\ OpOf(cur[r]).of = cur[r]
      BY DEF OpOf
    <3> QED BY <3>1, <3>2 DEF Set
  <2>2. CASE job[r] = "memset"
    BY <1>1, <1>3, <2>2 DEF ThreadOk, RegistersOwn, Registers, Written
  <2>3. CASE job[r] = "check"
    BY <1>1, <1>3, <2>3 DEF ThreadOk, RegistersOwn, Registers, Written
  <2> QED BY <1>2, <2>1, <2>2, <2>3
<1>5. Handle(r) = <<"func", Bin(r), DeviceOf[r], Key(Mine(r))>>
  BY <1>1, <1>4 DEF Handle, LaunchTypeOK, Field
<1>6. <<"bin", Bin(r), DeviceOf[r]>> \in good
  BY <1>1, <1>2, <1>3 DEF ThreadOk, BinaryLoaded
<1> QED BY <1>4, <1>5, <1>6 DEF Proper

\* A launch is proper; after a MemSet the operator's registers are still set.
LEMMA DoLaunchKeeps ==
    ASSUME LaunchInv, NEW r \in Runner, DoLaunch(r)
    PROVE  LaunchInv'
<1>1. LaunchTypeOK /\ ThreadOk(r) /\ \A m \in Launcher : launchCtx[m] \in {None, Invalid, OpOf(m)}
  BY ThreadIsOk
<1>2. /\ cur' = cur /\ launcherCtx' = launcherCtx /\ out' = out /\ memOut' = memOut
      /\ good' = good /\ at[r] = "launch"
  BY DEF DoLaunch
<1>3. job[r] \in {"op", "memset", "check"}
  BY <1>1, <1>2 DEF LaunchTypeOK, ThreadOk, BinaryLoaded, Jobs, Sizes
<1>4. DOMAIN last' = Runner /\ \A s \in Runner : s # r => last'[s] = last[s]
  BY <1>1 DEF LaunchTypeOK, DoLaunch
<1>5. Proper(last[r], DeviceOf[r])'
  <2>1. PICK x : x = [owner |-> Mine(r), regs |-> Registers(r), bin |-> Bin(r), handle |-> Handle(r)]
    OBVIOUS
  <2>2. Proper(x, DeviceOf[r]) /\ Proper(last[r], DeviceOf[r])
    BY <1>1, <1>2, <2>1, LaunchProper DEF ThreadOk
  <2>3. last'[r] = x \/ last'[r] = last[r]
    BY <1>1, <2>1 DEF LaunchTypeOK, DoLaunch
  <2> QED BY <1>2, <2>2, <2>3 DEF Proper
<1>6. Moves(r) /\ (Quiet(r) \/ Followed(r))
  BY <1>1, DoneFollowed, FailsQuietly DEF DoLaunch
<1>7. LaunchTypeOK'
  BY <1>1, <1>4, <1>6 DEF LaunchTypeOK, Moves, DoLaunch
<1>8. Alone(r)
  BY <1>2, <1>4, <1>6 DEF Moves, Alone
<1>9. ThreadOk(r)'
  <2>1. CASE Quiet(r)
    BY <1>1, <1>2, <1>5, <2>1, QuietOk DEF Quiet, ThreadOk, ContextOwn
  <2>2. CASE Followed(r)
    <3>1. \/ job[r] = "memset" /\ job'[r] = "op" /\ at'[r] = "func"
          \/ job'[r] = "checkSize" /\ at'[r] = "json"
          \/ job'[r] \in {"op", "check"} /\ at'[r] = "end" /\ (job'[r] = "op" => job[r] = "op")
      BY <1>3, <2>2 DEF Followed, Loops
    <3>2. ContextOwn(job[r], at[r], cur[r], nth[r], launcherCtx[r])'
      BY <1>1, <1>2, <3>1 DEF ThreadOk, ContextOwn
    <3>3. RegistersOwn(job[r], at[r], cur[r], nth[r], out[r], memOut[r])'
      BY <1>1, <1>2, <3>1 DEF ThreadOk, RegistersOwn
    <3>4. BinaryLoaded(job[r], at[r], cur[r], nth[r], DeviceOf[r])'
      BY <1>1, <1>2, <3>1 DEF ThreadOk, BinaryLoaded, Loads, Sizes
    <3> QED BY <1>5, <3>2, <3>3, <3>4 DEF ThreadOk
  <2> QED BY <1>6, <2>1, <2>2
<1> QED BY <1>1, <1>7, <1>8, <1>9, ThreadAlone DEF DoLaunch

\* The launcher gets the operator's tiling, never that of the check.
LEMMA EndKeeps ==
    ASSUME LaunchInv, NEW r \in Runner, End(r)
    PROVE  LaunchInv'
<1>1. LaunchTypeOK /\ ThreadOk(r) /\ \A m \in Launcher : launchCtx[m] \in {None, Invalid, OpOf(m)}
  BY ThreadIsOk
<1>2. Moves(r) /\ job'[r] = "op" /\ at'[r] = "idle"
  BY <1>1 DEF End, Goto, Moves, LaunchTypeOK, Jobs, Steps
<1>3. AfterDump(r) \in {None, Invalid, OpOf(cur[r])} /\ AfterDump(r) \in Owner /\ None \in Owner
  BY <1>1, MineIs DEF AfterDump, IsCheck, ThreadOk, ContextOwn, LaunchTypeOK
<1>4. PICK x \in {None, AfterDump(r)} : launchCtx' = [launchCtx EXCEPT ![cur[r]] = x]
  BY DEF End
<1>5. /\ launchCtx' \in [Launcher -> Owner]
      /\ \A m \in Launcher : launchCtx'[m] \in {None, Invalid, OpOf(m)}
  BY <1>1, <1>3, <1>4 DEF LaunchTypeOK
<1>6. LaunchTypeOK'
  BY <1>1, <1>2, <1>3, <1>5 DEF LaunchTypeOK, Moves, End
<1>7. Alone(r)
  BY <1>1, <1>2 DEF LaunchTypeOK, Moves, Alone, End
<1>8. launcherCtx'[r] = None /\ last'[r] = None
  BY <1>1 DEF LaunchTypeOK, End
<1>9. ThreadOk(r)'
  BY <1>2, <1>8 DEF ThreadOk, ContextOwn, RegistersOwn, BinaryLoaded, Proper, Sizes
<1> QED BY <1>5, <1>6, <1>7, <1>9, ThreadAlone

\* A destroyed launcher leaves no context.
LEMMA DestroyKeeps ==
    ASSUME LaunchInv, NEW l \in Launcher, Destroy(l)
    PROVE  LaunchInv'
<1>1. launchCtx \in [Launcher -> Owner] /\ None \in Owner
  BY DEF LaunchInv, LaunchTypeOK, Owner
<1>2. launchCtx' \in [Launcher -> Owner] /\ \A m \in Launcher : launchCtx'[m] \in {None, launchCtx[m]}
  BY <1>1 DEF Destroy
<1>3. LaunchTypeOK'
  BY <1>2 DEF LaunchInv, LaunchTypeOK, Destroy
<1>4. LaunchesOwn'
  BY DEF LaunchInv, LaunchesOwn, Destroy
<1>5. \A m \in Launcher : launchCtx'[m] \in {None, Invalid, OpOf(m)}
  BY <1>2 DEF LaunchInv
<1> QED BY <1>3, <1>4, <1>5 DEF LaunchInv, BinaryLoaded, Destroy

\* The inductive invariant holds at the start ...
LEMMA LaunchInitInv == LaunchInit => LaunchInv
<1> SUFFICES ASSUME LaunchInit PROVE LaunchInv
  OBVIOUS
<1>1. None \in Owner /\ {"absent", "idle"} \subseteq Steps /\ "op" \in Jobs
  BY DEF Owner, Steps, Jobs
<1>2. LaunchTypeOK
  BY <1>1 DEF LaunchInit, LaunchTypeOK
<1>3. LaunchesOwn /\ \A l \in Launcher : launchCtx[l] \in {None, Invalid, OpOf(l)}
  BY DEF LaunchInit, LaunchesOwn
<1>4. ASSUME NEW r \in Runner
      PROVE  job[r] = "op" /\ at[r] \in {"absent", "idle"} /\ launcherCtx[r] = None
  BY DEF LaunchInit
<1> QED BY <1>2, <1>3, <1>4 DEF LaunchInv, ContextOwn, RegistersOwn, BinaryLoaded, Sizes

\* ... and every step of launching keeps it, and every step of the others.
LEMMA LaunchNextInv == LaunchInv /\ [LaunchNext]_launchVars => LaunchInv'
<1> SUFFICES ASSUME LaunchInv, [LaunchNext]_launchVars PROVE LaunchInv'
  OBVIOUS
<1>1. ASSUME NEW r \in Runner, NEW l \in Launcher, Create(r, l) \/ Launch(r, l)
      PROVE  LaunchInv'
  BY <1>1, CreateKeeps, LaunchKeeps
<1>2. ASSUME NEW r \in Runner,
             \/ JsonLoad(r) \/ BinLoad(r) \/ InitTilingParseCtx(r)
             \/ TileStatic(r) \/ TileFromCache(r) \/ Tiling(r) \/ TilingFails(r)
             \/ InitFunctionHandle(r) \/ DoLaunch(r) \/ End(r)
      PROVE  LaunchInv'
  BY <1>2, JsonLoadKeeps, BinLoadKeeps, InitTilingParseCtxKeeps, TileStaticKeeps,
     TileFromCacheKeeps, TilingKeeps, TilingFailsKeeps, InitFunctionHandleKeeps,
     DoLaunchKeeps, EndKeeps
<1>3. ASSUME NEW l \in Launcher, Destroy(l) PROVE LaunchInv'
  BY <1>3, DestroyKeeps
<1>4. CASE UNCHANGED launchVars
  BY <1>4 DEF launchVars, LaunchInv, LaunchTypeOK, LaunchesOwn, BinaryLoaded
<1> QED BY <1>1, <1>2, <1>3, <1>4 DEF LaunchNext

-----------------------------------------------------------------------------
(* The launches on two streams: what holds at any time                     *)

\* A launch, a task of a queue, and where a caller can be.
LaunchRec == [kind : {"composite", "mixAiv", "mixAiCore"}, dim : Nat, stream : MainStream,
           by : Caller, res : {"open", "ok", "failed"}, split : BOOLEAN, after : SUBSET Nat]
Task == [do : {"kernel"}, launch : Nat, blocks : SUBSET Int]
        \cup [do : {"record", "wait"}, event : Event, n : Nat]
Stage == {"idle", "plain", "get", "lock"} \cup Locked

\* Types; a second stream exists exactly for the entries of the table.
SplitTypeOK ==
    /\ launches \in Seq(LaunchRec)
    /\ stage \in [Caller -> Stage]
    /\ streamMap \subseteq MainStream /\ subLive = streamMap
    /\ streamMtx \in [MainStream -> Caller \cup {NoCaller}]
    /\ queue \in [Queues -> Seq(Task)]
    /\ recorded \in [MainStream -> [Event -> Nat]]
    /\ reached \in [MainStream -> [Event -> Nat]]
    /\ ran \in Seq([launch : Nat, blocks : SUBSET Int])

\* A launch that has not returned, and where its caller is.
Open(l) == l \in DOMAIN launches /\ launches[l].res = "open"
At(l) == stage[launches[l].by]

\* An open launch is the latest of its caller, which is at work on it; the
\* mutex of the stream and the entry of the table are there while they are used.
CallersFit ==
    /\ \A l \in DOMAIN launches :
         Open(l) => /\ At(l) # "idle"
                    /\ \A k \in DOMAIN launches : launches[k].by = launches[l].by => k <= l
    /\ \A c \in Caller : stage[c] # "idle" => \E l \in DOMAIN launches : Open(l) /\ launches[l].by = c
    /\ \A l \in DOMAIN launches : Open(l) => (launches[l].split <=> At(l) # "plain")
    /\ \A l \in DOMAIN launches :
         launches[l].split <=> NeedsSplit(launches[l].kind, launches[l].dim)
    /\ \A l \in DOMAIN launches : \A k \in launches[l].after :
         /\ k \in DOMAIN launches /\ k # l
         /\ launches[k].stream = launches[l].stream /\ launches[k].res = "ok"
    /\ \A l \in DOMAIN launches : Open(l) /\ At(l) \in Locked =>
         streamMtx[launches[l].stream] = launches[l].by
    /\ \A l \in DOMAIN launches : Open(l) /\ At(l) \in Locked \cup {"lock"} =>
         launches[l].stream \in streamMap

\* Place i of queue s is a kernel of launch l, the record n, a wait for record n.
KernelAt(s, i, l) == i \in 1 .. Len(s) /\ s[i].do = "kernel" /\ s[i].launch = l
RecordAt(s, i, n) == i \in 1 .. Len(s) /\ s[i].do = "record" /\ s[i].n = n
WaitAt(s, i, n) == i \in 1 .. Len(s) /\ s[i].do = "wait" /\ s[i].n = n

\* The records of event e in a queue: the numbers after lo up to hi, in order.
Numbered(s, e, lo, hi) ==
    /\ lo <= hi
    /\ \A i, n \in Nat : RecordAt(s, i, n) => s[i].event = e /\ lo < n /\ n <= hi
    /\ \A i, j, n, o \in Nat : RecordAt(s, i, n) /\ RecordAt(s, j, o) /\ i < j => n < o
    /\ \A n \in Nat : lo < n /\ n <= hi => \E i \in Nat : RecordAt(s, i, n)

\* The waits in a queue are for records of event e that were issued.
Awaits(s, e, hi) == \A i, n \in Nat : WaitAt(s, i, n) => s[i].event = e /\ n <= hi

\* The caller's stream m and the second stream that belongs to it.
MainQ(m) == queue[<<m, "main">>]
SubQ(m) == queue[<<m, "sub">>]

\* Event A is recorded on the caller's stream and awaited on the second one, B the
\* other way around.
EventsFit ==
    \A m \in MainStream :
        /\ Numbered(MainQ(m), "A", reached[m]["A"], recorded[m]["A"])
        /\ Numbered(SubQ(m), "B", reached[m]["B"], recorded[m]["B"])
        /\ Awaits(SubQ(m), "A", recorded[m]["A"])
        /\ Awaits(MainQ(m), "B", recorded[m]["B"])

\* The blocks of the parts of a launch L.
MainBlocks(L) == IF L.split THEN Halves(L.kind, L.dim).main ELSE Blocks(0, L.dim)
SubBlocks(L) == Halves(L.kind, L.dim).sub

\* A launch has at most one kernel in a queue.
Single(s) == \A i, j, l \in Nat : KernelAt(s, i, l) /\ KernelAt(s, j, l) => i = j

\* A kernel in a queue or one that has run is of a launch on that stream, with
\* the blocks of that part of it.
KernelsFit ==
    /\ \A m \in MainStream :
        /\ \A i, l \in Nat : KernelAt(MainQ(m), i, l) =>
             /\ l \in DOMAIN launches /\ launches[l].stream = m
             /\ MainQ(m)[i].blocks = MainBlocks(launches[l])
        /\ \A i, l \in Nat : KernelAt(SubQ(m), i, l) =>
             /\ l \in DOMAIN launches /\ launches[l].stream = m /\ launches[l].split
             /\ SubQ(m)[i].blocks = SubBlocks(launches[l])
        /\ Single(MainQ(m)) /\ Single(SubQ(m))
    /\ \A i \in DOMAIN ran : ran[i].launch \in DOMAIN launches

\* Whether queue s has a kernel of launch l, and which of the kernels r were of l.
Pending(s, l) == IF \E i \in Nat : KernelAt(s, i, l) THEN 1 ELSE 0
RanOf(r, l) == {i \in DOMAIN r : r[i].launch = l}

\* The kernels that were issued for a launch.
Out(l) == Cardinality(RanOf(ran, l)) + Pending(MainQ(launches[l].stream), l)
                                     + Pending(SubQ(launches[l].stream), l)

\* How many kernels were issued for a launch, by where its caller is.
CountsFit ==
    \A l \in DOMAIN launches :
        /\ launches[l].res = "ok" => Out(l) = Parts(l)
        /\ Open(l) /\ At(l) \in {"plain", "get", "lock", "recordA", "waitA", "launchAic"} => Out(l) = 0
        /\ Open(l) /\ At(l) = "launchAiv" => Out(l) = 1 /\ Pending(SubQ(launches[l].stream), l) = 0
        /\ Open(l) /\ At(l) \in {"recordB", "waitB"} => Out(l) = 2

\* What has run of a launch are parts of it, and each once.
BlocksFit ==
    \A l \in DOMAIN launches : launches[l].kind # "mixAiCore" =>
        /\ \A i \in RanOf(ran, l) :
             \/ ran[i].blocks = MainBlocks(launches[l])
             \/ launches[l].split /\ ran[i].blocks = SubBlocks(launches[l])
        /\ \A i, j \in RanOf(ran, l) : i # j => ran[i].blocks # ran[j].blocks
        /\ \A i \in RanOf(ran, l), p \in Nat :
             /\ KernelAt(MainQ(launches[l].stream), p, l) => ran[i].blocks # MainBlocks(launches[l])
             /\ KernelAt(SubQ(launches[l].stream), p, l) => ran[i].blocks # SubBlocks(launches[l])
        /\ Open(l) /\ At(l) = "launchAiv" =>
             \A i \in RanOf(ran, l) : ran[i].blocks # SubBlocks(launches[l])

\* Behind the kernel of k in queue s there is the record n.
Marked(s, k, n) == \A p \in Nat : KernelAt(s, p, k) => \E j \in Nat : p < j /\ RecordAt(s, j, n)

\* Who is at place i of queue s has the kernels of k behind it: the one in s
\* itself, and the one in t, as there is a wait for a record behind it.
Passed(s, t, k, i) ==
    /\ \A p \in Nat : KernelAt(s, p, k) => p < i
    /\ \A p \in Nat : KernelAt(t, p, k) =>
         \E n, j, w \in Nat : p < j /\ RecordAt(t, j, n) /\ w < i /\ WaitAt(s, w, n)

\* The end of queue s has the kernels of k behind it.
Closed(s, t, k) == Passed(s, t, k, Len(s) + 1)

\* The kernels of l run after those of k.
Ordered(s, t, r, k, l) ==
    /\ \A i \in RanOf(r, l) :
         /\ \A p \in Nat : ~ KernelAt(s, p, k) /\ ~ KernelAt(t, p, k)
         /\ \A j \in RanOf(r, k) : j < i
    /\ \A i \in Nat : KernelAt(s, i, l) => Passed(s, t, k, i)
    /\ \A i \in Nat : KernelAt(t, i, l) => Passed(t, s, k, i)

\* Two split launches on one stream.
SplitPair(k, l) ==
    /\ k # l /\ launches[k].split /\ launches[l].split
    /\ launches[k].stream = launches[l].stream

\* k has returned and l must run after it.
Ahead(k, l) ==
    /\ launches[k].res = "ok"
    /\ k \in launches[l].after \/ (SplitPair(k, l) /\ Open(l) /\ At(l) \in Locked)

\* l runs after k, on both streams.
InOrder(k, l) ==
    Ordered(MainQ(launches[l].stream), SubQ(launches[l].stream), ran, k, l)

\* l runs after k, and so will what its caller has yet to issue.
FollowsFits(k, l) ==
    /\ InOrder(k, l)
    /\ Open(l) /\ At(l) = "waitA" =>
         Marked(MainQ(launches[l].stream), k, recorded[launches[l].stream]["A"])
    /\ Open(l) /\ At(l) \in {"launchAic", "launchAiv"} =>
         Closed(SubQ(launches[l].stream), MainQ(launches[l].stream), k)

\* What is issued on the caller's stream after launch k runs after it.
ReturnFits(k) ==
    /\ launches[k].res = "ok" => Closed(MainQ(launches[k].stream), SubQ(launches[k].stream), k)
    /\ Open(k) /\ At(k) = "waitB" =>
         Marked(SubQ(launches[k].stream), k, recorded[launches[k].stream]["B"])

\* A launch runs after those that must be ahead of it, and of two split launches
\* that have returned one runs after the other.
OrderFits ==
    /\ \A k, l \in DOMAIN launches : Ahead(k, l) => FollowsFits(k, l)
    /\ \A k, l \in DOMAIN launches :
        SplitPair(k, l) /\ launches[k].res = "ok" /\ launches[l].res = "ok" =>
            InOrder(k, l) \/ InOrder(l, k)
    /\ \A k \in DOMAIN launches : ReturnFits(k)

\* What holds at any time.
SplitInv ==
    SplitTypeOK /\ CallersFit /\ EventsFit /\ KernelsFit /\ CountsFit /\ BlocksFit /\ OrderFits

-----------------------------------------------------------------------------
(* Queues                                                                  *)

\* Task t was appended to queue s, and its head was taken.
Pushed(s, t, u) == s \in Seq(Task) /\ t \in Task /\ u = Append(s, t)
Popped(s, u) == s \in Seq(Task) /\ s # << >> /\ u = Tail(s)

\* Where the tasks of a queue are after one is appended.
LEMMA PushedPlaces ==
    ASSUME NEW s, NEW t, NEW u, Pushed(s, t, u)
    PROVE  /\ u \in Seq(Task) /\ Len(s) \in Nat /\ Len(u) = Len(s) + 1
           /\ \A i \in 1 .. Len(s) : u[i] = s[i]
           /\ u[Len(s) + 1] = t
<1>1. s \in Seq(Task) /\ t \in Task /\ u = Append(s, t)
  BY DEF Pushed
<1> QED BY <1>1, AppendProperties

\* Where they are after the head was taken.
LEMMA PoppedPlaces ==
    ASSUME NEW s, NEW u, Popped(s, u)
    PROVE  /\ u \in Seq(Task) /\ Len(s) \in Nat \ {0} /\ Len(u) = Len(s) - 1
           /\ \A i \in 1 .. Len(u) : u[i] = s[i + 1]
           /\ Head(s) = s[1] /\ s[1] \in Task
<1>1. s \in Seq(Task) /\ s # << >> /\ u = Tail(s)
  BY DEF Popped
<1> QED BY <1>1, HeadTailProperties

\* The kernels of a queue after a task is appended.
LEMMA PushedKernel ==
    ASSUME NEW s, NEW t, NEW u, Pushed(s, t, u)
    PROVE  \A i, l \in Nat :
             KernelAt(u, i, l) <=> \/ KernelAt(s, i, l)
                                   \/ i = Len(s) + 1 /\ t.do = "kernel" /\ t.launch = l
  BY PushedPlaces DEF KernelAt

\* The records of a queue after a task is appended.
LEMMA PushedRecord ==
    ASSUME NEW s, NEW t, NEW u, Pushed(s, t, u)
    PROVE  \A i, n \in Nat :
             RecordAt(u, i, n) <=> \/ RecordAt(s, i, n)
                                   \/ i = Len(s) + 1 /\ t.do = "record" /\ t.n = n
  BY PushedPlaces DEF RecordAt

\* The waits of a queue after a task is appended.
LEMMA PushedWait ==
    ASSUME NEW s, NEW t, NEW u, Pushed(s, t, u)
    PROVE  \A i, n \in Nat :
             WaitAt(u, i, n) <=> \/ WaitAt(s, i, n)
                                 \/ i = Len(s) + 1 /\ t.do = "wait" /\ t.n = n
  BY PushedPlaces DEF WaitAt

\* The kernels of a queue after its head was taken.
LEMMA PoppedKernel ==
    ASSUME NEW s, NEW u, Popped(s, u)
    PROVE  \A i, l \in Nat : KernelAt(u, i, l) <=> i # 0 /\ KernelAt(s, i + 1, l)
  BY PoppedPlaces DEF KernelAt

\* The records of a queue after its head was taken.
LEMMA PoppedRecord ==
    ASSUME NEW s, NEW u, Popped(s, u)
    PROVE  \A i, n \in Nat : RecordAt(u, i, n) <=> i # 0 /\ RecordAt(s, i + 1, n)
  BY PoppedPlaces DEF RecordAt

\* The waits of a queue after its head was taken.
LEMMA PoppedWait ==
    ASSUME NEW s, NEW u, Popped(s, u)
    PROVE  \A i, n \in Nat : WaitAt(u, i, n) <=> i # 0 /\ WaitAt(s, i + 1, n)
  BY PoppedPlaces DEF WaitAt

\* A place is one of the queue.
LEMMA Places ==
    ASSUME NEW s \in Seq(Task)
    PROVE  /\ \A i, l : KernelAt(s, i, l) => i \in 1 .. Len(s)
           /\ \A i, l : RecordAt(s, i, l) => i \in 1 .. Len(s)
           /\ \A i, l : WaitAt(s, i, l) => i \in 1 .. Len(s)
           /\ Len(s) \in Nat
  BY DEF KernelAt, RecordAt, WaitAt
-----------------------------------------------------------------------------
(* Records and waits                                                       *)

\* A task that is no record leaves the numbers.
LEMMA PushOther ==
    ASSUME NEW s, NEW t, NEW u, Pushed(s, t, u), t.do # "record",
           NEW e, NEW lo \in Nat, NEW hi \in Nat, Numbered(s, e, lo, hi)
    PROVE  Numbered(u, e, lo, hi)
<1>1. \A i, n \in Nat : RecordAt(u, i, n) <=> RecordAt(s, i, n)
  BY PushedRecord
<1>2. \A i, n \in Nat : RecordAt(u, i, n) => u[i] = s[i]
  BY <1>1, PushedPlaces DEF RecordAt
<1> QED BY <1>1, <1>2 DEF Numbered

\* The next record is the next number.
LEMMA PushRecord ==
    ASSUME NEW s, NEW t, NEW u, Pushed(s, t, u),
           NEW e, NEW lo \in Nat, NEW hi \in Nat, Numbered(s, e, lo, hi),
           t.do = "record", t.event = e, t.n = hi + 1
    PROVE  Numbered(u, e, lo, hi + 1)
<1>0. \A i, n \in Nat : RecordAt(u, i, n) <=> RecordAt(s, i, n) \/ (i = Len(s) + 1 /\ n = hi + 1)
  BY PushedRecord
<1>1. \A i, n \in Nat : RecordAt(s, i, n) => s[i].event = e /\ lo < n /\ n <= hi /\ i \in 1 .. Len(s)
  BY DEF Numbered, RecordAt
<1>2. \A i, n \in Nat : RecordAt(u, i, n) => u[i].event = e /\ lo < n /\ n <= hi + 1
  <2>1. lo <= hi
    BY DEF Numbered
  <2> QED BY <1>0, <1>1, <2>1, PushedPlaces
<1>3. \A i, j, n, o \in Nat : RecordAt(u, i, n) /\ RecordAt(u, j, o) /\ i < j => n < o
  <2> SUFFICES ASSUME NEW i \in Nat, NEW j \in Nat, NEW n \in Nat, NEW o \in Nat,
                      RecordAt(u, i, n), RecordAt(u, j, o), i < j
               PROVE  n < o
    OBVIOUS
  <2>1. Len(s) \in Nat
    BY PushedPlaces
  <2>2. RecordAt(s, i, n)
    <3> SUFFICES ASSUME i = Len(s) + 1 PROVE FALSE
      BY <1>0
    <3> QED BY <1>0, <1>1, <2>1
  <2>3. CASE RecordAt(s, j, o)
    BY <2>2, <2>3 DEF Numbered
  <2>4. CASE o = hi + 1
    BY <2>2, <2>4, <1>1
  <2> QED BY <2>3, <2>4, <1>0
<1>4. \A n \in Nat : lo < n /\ n <= hi + 1 => \E i \in Nat : RecordAt(u, i, n)
  <2> SUFFICES ASSUME NEW n \in Nat, lo < n, n <= hi + 1 PROVE \E i \in Nat : RecordAt(u, i, n)
    OBVIOUS
  <2>1. CASE n <= hi
    <3>1. PICK i \in Nat : RecordAt(s, i, n)
      BY <2>1 DEF Numbered
    <3> QED BY <3>1, <1>0
  <2>2. CASE n = hi + 1
    <3>1. Len(s) + 1 \in Nat
      BY PushedPlaces
    <3> QED BY <3>1, <1>0, <2>2
  <2> QED BY <2>1, <2>2
<1>5. lo <= hi + 1
  BY DEF Numbered
<1> QED BY <1>2, <1>3, <1>4, <1>5 DEF Numbered

\* A head that is no record leaves the numbers.
LEMMA PopOther ==
    ASSUME NEW s, NEW u, Popped(s, u), s[1].do # "record",
           NEW e, NEW lo \in Nat, NEW hi \in Nat, Numbered(s, e, lo, hi)
    PROVE  Numbered(u, e, lo, hi)
<1>0. \A i, n \in Nat : RecordAt(u, i, n) <=> i # 0 /\ RecordAt(s, i + 1, n)
  BY PoppedRecord
<1>1. \A i, n \in Nat : RecordAt(u, i, n) => u[i] = s[i + 1]
  BY PoppedPlaces DEF RecordAt
<1>2. \A i, n \in Nat : RecordAt(u, i, n) => u[i].event = e /\ lo < n /\ n <= hi
  BY <1>0, <1>1 DEF Numbered
<1>3. \A i, j, n, o \in Nat : RecordAt(u, i, n) /\ RecordAt(u, j, o) /\ i < j => n < o
  <2> SUFFICES ASSUME NEW i \in Nat, NEW j \in Nat, NEW n \in Nat, NEW o \in Nat,
                      RecordAt(u, i, n), RecordAt(u, j, o), i < j
               PROVE  n < o
    OBVIOUS
  <2>0. i + 1 < j + 1 /\ i + 1 \in Nat /\ j + 1 \in Nat
    OBVIOUS
  <2>1. RecordAt(s, i + 1, n) /\ RecordAt(s, j + 1, o)
    BY <1>0
  <2> QED BY <2>0, <2>1 DEF Numbered
<1>4. \A n \in Nat : lo < n /\ n <= hi => \E i \in Nat : RecordAt(u, i, n)
  <2> SUFFICES ASSUME NEW n \in Nat, lo < n, n <= hi PROVE \E i \in Nat : RecordAt(u, i, n)
    OBVIOUS
  <2>1. PICK i \in Nat : RecordAt(s, i, n)
    BY DEF Numbered
  <2>2. i # 1 /\ i # 0
    BY <2>1 DEF RecordAt
  <2>3. i - 1 \in Nat /\ i - 1 # 0 /\ (i - 1) + 1 = i
    BY <2>2
  <2> QED BY <2>1, <2>3, <1>0
<1> QED BY <1>2, <1>3, <1>4 DEF Numbered

\* A record at the head is the next one to be reached.
LEMMA PopRecord ==
    ASSUME NEW s, NEW u, Popped(s, u), s[1].do = "record",
           NEW e, NEW lo \in Nat, NEW hi \in Nat, Numbered(s, e, lo, hi)
    PROVE  /\ s[1].n \in Nat /\ s[1].event = e /\ lo < s[1].n
           /\ Numbered(u, e, s[1].n, hi)
<1>a. s[1] \in Task /\ Len(s) \in Nat \ {0}
  BY PoppedPlaces
<1>b. s[1].n \in Nat
  BY <1>a DEF Task
<1>c. PICK h \in Nat : h = s[1].n
  BY <1>b
<1>d. RecordAt(s, 1, h)
  BY <1>a, <1>c DEF RecordAt
<1>e. s[1].event = e /\ lo < h /\ h <= hi
  BY <1>d DEF Numbered
<1>0. \A i, n \in Nat : RecordAt(u, i, n) <=> i # 0 /\ RecordAt(s, i + 1, n)
  BY PoppedRecord
<1>1. \A i, n \in Nat : RecordAt(u, i, n) => u[i] = s[i + 1]
  BY PoppedPlaces DEF RecordAt
<1>2. \A i, n \in Nat : RecordAt(u, i, n) => u[i].event = e /\ h < n /\ n <= hi
  <2> SUFFICES ASSUME NEW i \in Nat, NEW n \in Nat, RecordAt(u, i, n)
               PROVE  u[i].event = e /\ h < n /\ n <= hi
    OBVIOUS
  <2>1. RecordAt(s, i + 1, n) /\ 1 < i + 1 /\ i + 1 \in Nat /\ u[i] = s[i + 1]
    BY <1>0, <1>1
  <2>2. u[i].event = e /\ n <= hi
    BY <2>1 DEF Numbered
  <2>3. h < n
    BY <2>1, <1>d DEF Numbered
  <2> QED BY <2>2, <2>3
<1>3. \A i, j, n, o \in Nat : RecordAt(u, i, n) /\ RecordAt(u, j, o) /\ i < j => n < o
  <2> SUFFICES ASSUME NEW i \in Nat, NEW j \in Nat, NEW n \in Nat, NEW o \in Nat,
                      RecordAt(u, i, n), RecordAt(u, j, o), i < j
               PROVE  n < o
    OBVIOUS
  <2>0. i + 1 < j + 1 /\ i + 1 \in Nat /\ j + 1 \in Nat
    OBVIOUS
  <2>1. RecordAt(s, i + 1, n) /\ RecordAt(s, j + 1, o)
    BY <1>0
  <2> QED BY <2>0, <2>1 DEF Numbered
<1>4. \A n \in Nat : h < n /\ n <= hi => \E i \in Nat : RecordAt(u, i, n)
  <2> SUFFICES ASSUME NEW n \in Nat, h < n, n <= hi PROVE \E i \in Nat : RecordAt(u, i, n)
    OBVIOUS
  <2>0. lo < n
    BY <1>e
  <2>1. PICK i \in Nat : RecordAt(s, i, n)
    BY <2>0 DEF Numbered
  <2>2. i # 1 /\ i # 0
    BY <2>1, <1>c DEF RecordAt
  <2>3. i - 1 \in Nat /\ i - 1 # 0 /\ (i - 1) + 1 = i
    BY <2>2
  <2> QED BY <2>1, <2>3, <1>0
<1>5. Numbered(u, e, h, hi)
  BY <1>e, <1>2, <1>3, <1>4 DEF Numbered
<1> QED BY <1>5, <1>e, <1>c

\* Another record does not disturb the waits.
LEMMA AwaitsMore ==
    ASSUME NEW s, NEW e, NEW hi \in Nat, NEW to \in Nat, hi <= to, Awaits(s, e, hi)
    PROVE  Awaits(s, e, to)
  BY DEF Awaits

\* A wait that is issued is for a record that was issued.
LEMMA PushAwaits ==
    ASSUME NEW s, NEW t, NEW u, Pushed(s, t, u), NEW e, NEW hi \in Nat, Awaits(s, e, hi),
           t.do = "wait" => t.event = e /\ t.n \in Nat /\ t.n <= hi
    PROVE  Awaits(u, e, hi)
<1>1. \A i, n \in Nat : WaitAt(s, i, n) => u[i] = s[i]
  BY PushedPlaces DEF WaitAt
<1>2. u[Len(s) + 1] = t
  BY PushedPlaces
<1> QED BY <1>1, <1>2, PushedWait DEF Awaits

\* The waits behind the head.
LEMMA PopAwaits ==
    ASSUME NEW s, NEW u, Popped(s, u), NEW e, NEW hi \in Nat, Awaits(s, e, hi)
    PROVE  Awaits(u, e, hi)
<1>1. \A i, n \in Nat : WaitAt(u, i, n) => u[i] = s[i + 1]
  BY PoppedPlaces DEF WaitAt
<1>2. \A i, n \in Nat : WaitAt(u, i, n) => WaitAt(s, i + 1, n) /\ i + 1 \in Nat
  BY PoppedWait
<1> QED BY <1>1, <1>2 DEF Awaits

-----------------------------------------------------------------------------
(* Order                                                                   *)

\* t is a kernel of launch k.
Of(t, k) == t.do = "kernel" /\ t.launch = k

\* A task of another launch leaves the record behind k.
LEMMA MarkedPush ==
    ASSUME NEW s, NEW t, NEW u, Pushed(s, t, u), NEW k \in Nat, ~ Of(t, k), NEW n \in Nat, Marked(s, k, n)
    PROVE  Marked(u, k, n)
  BY PushedKernel, PushedRecord DEF Marked, Of

\* A record that is issued is behind every kernel of the queue.
LEMMA MarkedNew ==
    ASSUME NEW s, NEW t, NEW u, Pushed(s, t, u), NEW k \in Nat, NEW n \in Nat,
           t.do = "record", t.n = n
    PROVE  Marked(u, k, n)
<1>1. Len(s) + 1 \in Nat /\ RecordAt(u, Len(s) + 1, n)
  BY PushedRecord, PushedPlaces
<1>2. \A p \in Nat : KernelAt(u, p, k) => p < Len(s) + 1
  <2>1. \A p \in Nat : KernelAt(u, p, k) => KernelAt(s, p, k)
    BY PushedKernel
  <2>2. \A p \in Nat : KernelAt(s, p, k) => p \in 1 .. Len(s)
    BY DEF KernelAt
  <2> QED BY <2>1, <2>2, PushedPlaces
<1> QED BY <1>1, <1>2 DEF Marked

\* The record stays behind k when the head is taken.
LEMMA MarkedPop ==
    ASSUME NEW s, NEW u, Popped(s, u), NEW k \in Nat, NEW n \in Nat, Marked(s, k, n)
    PROVE  Marked(u, k, n)
<1> SUFFICES ASSUME NEW p \in Nat, KernelAt(u, p, k)
             PROVE  \E j \in Nat : p < j /\ RecordAt(u, j, n)
  BY DEF Marked
<1>1. p + 1 \in Nat /\ KernelAt(s, p + 1, k)
  BY PoppedKernel
<1>2. PICK j \in Nat : p + 1 < j /\ RecordAt(s, j, n)
  BY <1>1 DEF Marked
<1>3. j - 1 \in Nat /\ j - 1 # 0 /\ (j - 1) + 1 = j /\ p < j - 1
  BY <1>2
<1>4. RecordAt(u, j - 1, n)
  BY <1>2, <1>3, PoppedRecord
<1> QED BY <1>3, <1>4

\* Who has k behind it keeps it so when a task of another launch is appended ...
LEMMA PassedPushOwn ==
    ASSUME NEW s, NEW t, NEW x, NEW u, Pushed(s, x, u), NEW k \in Nat, ~ Of(x, k),
           NEW i \in Nat, Passed(s, t, k, i)
    PROVE  Passed(u, t, k, i)
<1>1. \A p \in Nat : KernelAt(u, p, k) <=> KernelAt(s, p, k)
  BY PushedKernel DEF Of
<1>2. \A w, n \in Nat : WaitAt(s, w, n) => WaitAt(u, w, n)
  BY PushedWait
<1> QED BY <1>1, <1>2 DEF Passed

\* ... here or to the other queue.
LEMMA PassedPushOther ==
    ASSUME NEW s, NEW t, NEW x, NEW u, Pushed(t, x, u), NEW k \in Nat, ~ Of(x, k),
           NEW i \in Nat, Passed(s, t, k, i)
    PROVE  Passed(s, u, k, i)
<1>1. \A p \in Nat : KernelAt(u, p, k) <=> KernelAt(t, p, k)
  BY PushedKernel DEF Of
<1>2. \A j, n \in Nat : RecordAt(t, j, n) => RecordAt(u, j, n)
  BY PushedRecord
<1> QED BY <1>1, <1>2 DEF Passed

\* Who comes later has k behind it too.
LEMMA PassedMore ==
    ASSUME NEW s, NEW t, NEW k \in Nat, NEW i \in Nat, NEW j \in Nat, i <= j, Passed(s, t, k, i)
    PROVE  Passed(s, t, k, j)
<1>1. \A p \in Nat : KernelAt(s, p, k) => p < j
  BY DEF Passed
<1>2. ASSUME NEW p \in Nat, KernelAt(t, p, k)
      PROVE  \E n, q, w \in Nat : p < q /\ RecordAt(t, q, n) /\ w < j /\ WaitAt(s, w, n)
  <2>1. PICK n \in Nat, q \in Nat, w \in Nat : p < q /\ RecordAt(t, q, n) /\ w < i /\ WaitAt(s, w, n)
    BY <1>2 DEF Passed
  <2>2. w < j
    BY <2>1
  <2> QED BY <2>1, <2>2
<1> QED BY <1>1, <1>2 DEF Passed

\* A wait at the head is for a record that the other queue has no more.
Over(s, t) == s[1].do = "wait" => \A j \in Nat : ~ RecordAt(t, j, s[1].n)

\* The head is taken: what was at place i is at the one before.
LEMMA PassedPopOwn ==
    ASSUME NEW s, NEW t, NEW u, Popped(s, u), Over(s, t), NEW k \in Nat, NEW i \in Nat, i # 0,
           Passed(s, t, k, i)
    PROVE  Passed(u, t, k, i - 1)
<1>1. \A p \in Nat : KernelAt(u, p, k) => p < i - 1
  <2> SUFFICES ASSUME NEW p \in Nat, KernelAt(u, p, k) PROVE p < i - 1
    OBVIOUS
  <2>1. p + 1 \in Nat /\ KernelAt(s, p + 1, k)
    BY PoppedKernel
  <2>2. p + 1 < i
    BY <2>1 DEF Passed
  <2> QED BY <2>2
<1>2. ASSUME NEW p \in Nat, KernelAt(t, p, k)
      PROVE  \E n, q, w \in Nat : p < q /\ RecordAt(t, q, n) /\ w < i - 1 /\ WaitAt(u, w, n)
  <2>1. PICK n \in Nat, q \in Nat, w \in Nat : p < q /\ RecordAt(t, q, n) /\ w < i /\ WaitAt(s, w, n)
    BY <1>2 DEF Passed
  <2>2. w # 0 /\ w # 1
    BY <2>1 DEF WaitAt, Over
  <2>3. w - 1 \in Nat /\ w - 1 # 0 /\ (w - 1) + 1 = w /\ w - 1 < i - 1
    BY <2>1, <2>2
  <2>4. WaitAt(u, w - 1, n)
    BY <2>1, <2>3, PoppedWait
  <2> QED BY <2>1, <2>3, <2>4
<1> QED BY <1>1, <1>2 DEF Passed

\* The head of the other queue is taken.
LEMMA PassedPopOther ==
    ASSUME NEW s, NEW t, NEW u, Popped(t, u), NEW k \in Nat, NEW i \in Nat, Passed(s, t, k, i)
    PROVE  Passed(s, u, k, i)
<1>1. \A p \in Nat : KernelAt(s, p, k) => p < i
  BY DEF Passed
<1>2. ASSUME NEW p \in Nat, KernelAt(u, p, k)
      PROVE  \E n, q, w \in Nat : p < q /\ RecordAt(u, q, n) /\ w < i /\ WaitAt(s, w, n)
  <2>0. p + 1 \in Nat /\ KernelAt(t, p + 1, k)
    BY <1>2, PoppedKernel
  <2>1. PICK n \in Nat, q \in Nat, w \in Nat : p + 1 < q /\ RecordAt(t, q, n) /\ w < i /\ WaitAt(s, w, n)
    BY <2>0 DEF Passed
  <2>3. q - 1 \in Nat /\ q - 1 # 0 /\ (q - 1) + 1 = q /\ p < q - 1
    BY <2>1
  <2>4. RecordAt(u, q - 1, n)
    BY <2>1, <2>3, PoppedRecord
  <2> QED BY <2>1, <2>3, <2>4
<1> QED BY <1>1, <1>2 DEF Passed

\* A wait for a record that is behind k's kernel in the other queue lets the
\* end of the queue have k behind it.
LEMMA PassedNew ==
    ASSUME NEW s, NEW t, NEW x, NEW u, Pushed(s, x, u), NEW k \in Nat, NEW n \in Nat,
           x.do = "wait", x.n = n, Marked(t, k, n)
    PROVE  Passed(u, t, k, Len(u) + 1)
<1>1. Len(s) \in Nat /\ Len(u) = Len(s) + 1
  BY PushedPlaces
<1>2. WaitAt(u, Len(s) + 1, n) /\ Len(s) + 1 \in Nat /\ Len(s) + 1 < Len(u) + 1
  BY <1>1, PushedWait
<1>3. \A p \in Nat : KernelAt(u, p, k) => p < Len(u) + 1
  BY <1>1 DEF KernelAt
<1> QED BY <1>2, <1>3 DEF Passed, Marked

\* The order does not tell the queues apart.
LEMMA OrderedSwap ==
    ASSUME NEW s, NEW t, NEW r, NEW k, NEW l, Ordered(s, t, r, k, l)
    PROVE  Ordered(t, s, r, k, l)
  BY DEF Ordered

\* Nothing of l was issued.
LEMMA OrderedNone ==
    ASSUME NEW s, NEW t, NEW r, NEW k, NEW l, RanOf(r, l) = {},
           \A i \in Nat : ~ KernelAt(s, i, l) /\ ~ KernelAt(t, i, l)
    PROVE  Ordered(s, t, r, k, l)
  BY DEF Ordered

\* A kernel of l that is issued where k is behind keeps the order.
LEMMA OrderedPush ==
    ASSUME NEW s, NEW t, NEW r, NEW x, NEW u, Pushed(s, x, u), NEW k \in Nat, NEW l \in Nat,
           ~ Of(x, k), Of(x, l) => Passed(s, t, k, Len(s) + 1), Ordered(s, t, r, k, l)
    PROVE  Ordered(u, t, r, k, l)
<1>0. Len(s) + 1 \in Nat
  BY PushedPlaces
<1>1. \A p \in Nat : KernelAt(u, p, k) <=> KernelAt(s, p, k)
  BY PushedKernel DEF Of
<1>2. \A i \in Nat : KernelAt(u, i, l) => Passed(u, t, k, i)
  <2> SUFFICES ASSUME NEW i \in Nat, KernelAt(u, i, l) PROVE Passed(u, t, k, i)
    OBVIOUS
  <2>1. Passed(s, t, k, i)
    BY PushedKernel DEF Of, Ordered
  <2> QED BY <2>1, PassedPushOwn
<1>3. \A i \in Nat : KernelAt(t, i, l) => Passed(t, u, k, i)
  <2> SUFFICES ASSUME NEW i \in Nat, KernelAt(t, i, l) PROVE Passed(t, u, k, i)
    OBVIOUS
  <2>1. Passed(t, s, k, i)
    BY DEF Ordered
  <2> QED BY <2>1, PassedPushOther
<1>4. \A i \in RanOf(r, l) : /\ \A p \in Nat : ~ KernelAt(u, p, k) /\ ~ KernelAt(t, p, k)
                             /\ \A j \in RanOf(r, k) : j < i
  BY <1>1 DEF Ordered
<1> QED BY <1>2, <1>3, <1>4 DEF Ordered

\* A kernel that has run.
RanKernel == [launch : Nat, blocks : SUBSET Int]

\* The device took head h of a queue, and r became v.
Took(h, r, v) ==
    /\ r \in Seq(RanKernel) /\ v \in Seq(RanKernel)
    /\ \/ h.do # "kernel" /\ v = r
       \/ /\ h.do = "kernel" /\ h \in Task
          /\ v = Append(r, [launch |-> h.launch, blocks |-> h.blocks])

\* What has run of a launch after a task was taken.
LEMMA TookRan ==
    ASSUME NEW h, NEW r, NEW v, Took(h, r, v)
    PROVE  /\ Len(r) \in Nat
           /\ \A l : RanOf(v, l) = IF Of(h, l) THEN RanOf(r, l) \cup {Len(r) + 1} ELSE RanOf(r, l)
           /\ \A l : \A i \in RanOf(r, l) : v[i] = r[i] /\ i \in 1 .. Len(r)
           /\ \A l : Of(h, l) => v[Len(r) + 1].blocks = h.blocks
<1>1. Len(r) \in Nat /\ DOMAIN r = 1 .. Len(r)
  BY DEF Took
<1>2. CASE h.do # "kernel" /\ v = r
  BY <1>1, <1>2 DEF RanOf, Of
<1>3. CASE h.do = "kernel" /\ h \in Task /\ v = Append(r, [launch |-> h.launch, blocks |-> h.blocks])
  <2>1. PICK e : e = [launch |-> h.launch, blocks |-> h.blocks]
    OBVIOUS
  <2>2. e.launch = h.launch /\ e.blocks = h.blocks
    BY <2>1
  <2>3. h.launch \in Nat /\ h.blocks \in SUBSET Int
    BY <1>3 DEF Task
  <2>4. e \in RanKernel
    BY <2>1, <2>3 DEF RanKernel
  <2>5. /\ Len(v) = Len(r) + 1 /\ DOMAIN v = 1 .. Len(v)
        /\ \A i \in 1 .. Len(r) : v[i] = r[i]
        /\ v[Len(r) + 1] = e
    BY <1>3, <2>1, <2>4, AppendProperties DEF Took
  <2>6. \A i : i \in DOMAIN v <=> i \in DOMAIN r \/ i = Len(r) + 1
    BY <1>1, <2>5
  <2>7. \A l : RanOf(v, l) = IF Of(h, l) THEN RanOf(r, l) \cup {Len(r) + 1} ELSE RanOf(r, l)
    <3> TAKE l
    <3>1. \A i : i \in RanOf(v, l) <=> i \in RanOf(r, l) \/ (Of(h, l) /\ i = Len(r) + 1)
      BY <1>1, <1>3, <2>2, <2>5, <2>6 DEF RanOf, Of
    <3> QED BY <3>1
  <2>8. \A l : \A i \in RanOf(r, l) : v[i] = r[i] /\ i \in 1 .. Len(r)
    BY <1>1, <2>5 DEF RanOf
  <2> QED BY <1>1, <2>2, <2>5, <2>7, <2>8
<1> QED BY <1>2, <1>3 DEF Took

\* Taking the head of a queue keeps the order: a kernel of l that is taken had k
\* behind it, so nothing of k is left in the queues.
LEMMA OrderedPop ==
    ASSUME NEW s, NEW t, NEW u, Popped(s, u), Over(s, t), NEW r, NEW v, Took(s[1], r, v),
           NEW k \in Nat, NEW l \in Nat, k # l, Ordered(s, t, r, k, l)
    PROVE  Ordered(u, t, v, k, l)
<1>0. Len(s) \in Nat \ {0}
  BY PoppedPlaces
<1>1. \A i \in Nat : KernelAt(u, i, l) => Passed(u, t, k, i)
  <2> SUFFICES ASSUME NEW i \in Nat, KernelAt(u, i, l) PROVE Passed(u, t, k, i)
    OBVIOUS
  <2>1. i + 1 \in Nat /\ i + 1 # 0 /\ (i + 1) - 1 = i /\ KernelAt(s, i + 1, l)
    BY PoppedKernel
  <2>2. Passed(s, t, k, i + 1)
    BY <2>1 DEF Ordered
  <2>3. Passed(u, t, k, (i + 1) - 1)
    BY <2>1, <2>2, PassedPopOwn
  <2> QED BY <2>1, <2>3
<1>2. \A i \in Nat : KernelAt(t, i, l) => Passed(t, u, k, i)
  <2> SUFFICES ASSUME NEW i \in Nat, KernelAt(t, i, l) PROVE Passed(t, u, k, i)
    OBVIOUS
  <2>1. Passed(t, s, k, i)
    BY DEF Ordered
  <2> QED BY <2>1, PassedPopOther
<1>3. \A p \in Nat : KernelAt(u, p, k) => \E q \in Nat : KernelAt(s, q, k)
  BY PoppedKernel
<1>4. CASE Of(s[1], l)
  <2>1. KernelAt(s, 1, l)
    BY <1>0, <1>4 DEF KernelAt, Of
  <2>2. Passed(s, t, k, 1)
    BY <2>1 DEF Ordered
  <2>3. \A p \in Nat : ~ KernelAt(s, p, k) /\ ~ KernelAt(t, p, k)
    <3>1. \A p \in Nat : ~ KernelAt(s, p, k)
      BY <2>2 DEF Passed, KernelAt
    <3>2. \A p \in Nat : ~ KernelAt(t, p, k)
      <4>1. \A w, n \in Nat : w < 1 => ~ WaitAt(s, w, n)
        BY DEF WaitAt
      <4> QED BY <2>2, <4>1 DEF Passed
    <3> QED BY <3>1, <3>2
  <2>4. ~ Of(s[1], k)
    BY <1>4 DEF Of
  <2>5. RanOf(v, l) = RanOf(r, l) \cup {Len(r) + 1} /\ RanOf(v, k) = RanOf(r, k) /\ Len(r) \in Nat
    BY <1>4, <2>4, TookRan
  <2>6. \A j \in RanOf(r, k) : j < Len(r) + 1
    BY <2>5, TookRan
  <2>7. \A i \in RanOf(r, l) : \A j \in RanOf(r, k) : j < i
    BY DEF Ordered
  <2>8. \A i \in RanOf(v, l) : \A j \in RanOf(v, k) : j < i
    BY <2>5, <2>6, <2>7
  <2> QED BY <1>1, <1>2, <1>3, <2>3, <2>8 DEF Ordered
<1>5. CASE ~ Of(s[1], l)
  <2>1. RanOf(v, l) = RanOf(r, l)
    BY <1>5, TookRan
  <2>2. CASE Of(s[1], k)
    <3>1. KernelAt(s, 1, k)
      BY <1>0, <2>2 DEF KernelAt, Of
    <3>2. RanOf(r, l) = {}
      BY <3>1 DEF Ordered
    <3> QED BY <1>1, <1>2, <2>1, <3>2 DEF Ordered
  <2>3. CASE ~ Of(s[1], k)
    <3>1. RanOf(v, k) = RanOf(r, k)
      BY <2>3, TookRan
    <3> QED BY <1>1, <1>2, <1>3, <2>1, <3>1 DEF Ordered
  <2> QED BY <2>2, <2>3
<1> QED BY <1>4, <1>5

\* The device took a task of another stream.
LEMMA OrderedElse ==
    ASSUME NEW s, NEW t, NEW h, NEW r, NEW v, Took(h, r, v), NEW k, NEW l, ~ Of(h, k), ~ Of(h, l),
           Ordered(s, t, r, k, l)
    PROVE  Ordered(s, t, v, k, l)
<1>1. RanOf(v, k) = RanOf(r, k) /\ RanOf(v, l) = RanOf(r, l)
  BY TookRan
<1> QED BY <1>1 DEF Ordered
-----------------------------------------------------------------------------
(* Counting                                                                *)

\* A task that is appended, counted.
LEMMA PendingPush ==
    ASSUME NEW s, NEW t, NEW u, Pushed(s, t, u), NEW l \in Nat
    PROVE  Pending(u, l) = IF Of(t, l) THEN 1 ELSE Pending(s, l)
<1>1. CASE Of(t, l)
  <2>1. KernelAt(u, Len(s) + 1, l) /\ Len(s) + 1 \in Nat
    BY <1>1, PushedKernel, PushedPlaces DEF Of
  <2> QED BY <1>1, <2>1 DEF Pending
<1>2. CASE ~ Of(t, l)
  <2>1. \A i \in Nat : KernelAt(u, i, l) <=> KernelAt(s, i, l)
    BY <1>2, PushedKernel DEF Of
  <2> QED BY <1>2, <2>1 DEF Pending
<1> QED BY <1>1, <1>2

\* A head that is taken, counted.
LEMMA PendingPop ==
    ASSUME NEW s, NEW u, Popped(s, u), NEW l \in Nat, Single(s)
    PROVE  /\ ~ Of(s[1], l) => Pending(u, l) = Pending(s, l)
           /\ Of(s[1], l) => Pending(s, l) = 1 /\ Pending(u, l) = 0
<1>1. CASE Of(s[1], l)
  <2>1. KernelAt(s, 1, l)
    BY <1>1, PoppedPlaces DEF Of, KernelAt
  <2>2. \A i \in Nat : i # 0 => ~ KernelAt(s, i + 1, l)
    BY <2>1 DEF Single
  <2>3. \A i \in Nat : ~ KernelAt(u, i, l)
    BY <2>2, PoppedKernel
  <2> QED BY <1>1, <2>1, <2>3 DEF Pending
<1>2. CASE ~ Of(s[1], l)
  <2>1. \A i \in Nat : KernelAt(u, i, l) => i + 1 \in Nat /\ KernelAt(s, i + 1, l)
    BY PoppedKernel
  <2>2. \A i \in Nat : KernelAt(s, i, l) => i # 0 /\ i # 1
    BY <1>2 DEF KernelAt, Of
  <2>3. \A i \in Nat : KernelAt(s, i, l) => i - 1 \in Nat /\ KernelAt(u, i - 1, l)
    <3> SUFFICES ASSUME NEW i \in Nat, KernelAt(s, i, l) PROVE i - 1 \in Nat /\ KernelAt(u, i - 1, l)
      OBVIOUS
    <3>1. i - 1 \in Nat /\ i - 1 # 0 /\ (i - 1) + 1 = i
      BY <2>2
    <3> QED BY <3>1, PoppedKernel
  <2>4. (\E i \in Nat : KernelAt(u, i, l)) <=> (\E i \in Nat : KernelAt(s, i, l))
    BY <2>1, <2>3
  <2> QED BY <1>2, <2>4 DEF Pending
<1> QED BY <1>1, <1>2

\* A kernel of a launch that has none there is appended.
LEMMA SinglePush ==
    ASSUME NEW s, NEW t, NEW u, Pushed(s, t, u), Single(s),
           \A l \in Nat : Of(t, l) => Pending(s, l) = 0
    PROVE  Single(u)
<1> SUFFICES ASSUME NEW i \in Nat, NEW j \in Nat, NEW l \in Nat, KernelAt(u, i, l), KernelAt(u, j, l)
             PROVE  i = j
  BY DEF Single
<1>1. CASE Of(t, l)
  <2>1. \A p \in Nat : ~ KernelAt(s, p, l)
    BY <1>1 DEF Pending
  <2> QED BY <2>1, PushedKernel
<1>2. CASE ~ Of(t, l)
  BY <1>2, PushedKernel DEF Of, Single
<1> QED BY <1>1, <1>2

\* Taking the head leaves at most one kernel of a launch.
LEMMA SinglePop ==
    ASSUME NEW s, NEW u, Popped(s, u), Single(s)
    PROVE  Single(u)
<1> SUFFICES ASSUME NEW i \in Nat, NEW j \in Nat, NEW l \in Nat, KernelAt(u, i, l), KernelAt(u, j, l)
             PROVE  i = j
  BY DEF Single
<1>1. KernelAt(s, i + 1, l) /\ KernelAt(s, j + 1, l) /\ i + 1 \in Nat /\ j + 1 \in Nat
  BY PoppedKernel
<1>2. i + 1 = j + 1
  BY <1>1 DEF Single
<1> QED BY <1>2

\* The kernels that have run can be counted.
LEMMA RanFinite ==
    ASSUME NEW r \in Seq(RanKernel), NEW l
    PROVE  IsFiniteSet(RanOf(r, l)) /\ Cardinality(RanOf(r, l)) \in Nat
<1>1. DOMAIN r = 1 .. Len(r) /\ Len(r) \in Nat
  OBVIOUS
<1>2. IsFiniteSet(1 .. Len(r))
  BY <1>1, FS_Interval
<1>3. RanOf(r, l) \subseteq 1 .. Len(r)
  BY <1>1 DEF RanOf
<1>4. IsFiniteSet(RanOf(r, l))
  BY <1>2, <1>3, FS_Subset
<1> QED BY <1>4, FS_CardinalityType

\* A kernel that is taken has run once more.
LEMMA TookCount ==
    ASSUME NEW h, NEW r, NEW v, Took(h, r, v), NEW l
    PROVE  Cardinality(RanOf(v, l)) =
             IF Of(h, l) THEN Cardinality(RanOf(r, l)) + 1 ELSE Cardinality(RanOf(r, l))
<1>1. r \in Seq(RanKernel)
  BY DEF Took
<1>2. IsFiniteSet(RanOf(r, l))
  BY <1>1, RanFinite
<1>3. Len(r) + 1 \notin RanOf(r, l)
  <2>1. \A i \in RanOf(r, l) : i \in 1 .. Len(r)
    BY TookRan
  <2>2. Len(r) \in Nat
    BY TookRan
  <2> QED BY <2>1, <2>2
<1>4. CASE Of(h, l)
  <2>1. RanOf(v, l) = RanOf(r, l) \cup {Len(r) + 1}
    BY <1>4, TookRan
  <2> QED BY <1>2, <1>3, <1>4, <2>1, FS_AddElement
<1>5. CASE ~ Of(h, l)
  BY <1>5, TookRan
<1> QED BY <1>4, <1>5

-----------------------------------------------------------------------------
(* Launches                                                                *)

\* The results of a launch.
Result == {"open", "ok", "failed"}

\* Of the launches a, one got a result.
Resolved(a, b, l, r) ==
    /\ DOMAIN b = DOMAIN a /\ l \in DOMAIN a
    /\ \A k \in DOMAIN a :
         /\ b[k].kind = a[k].kind /\ b[k].dim = a[k].dim /\ b[k].stream = a[k].stream
         /\ b[k].by = a[k].by /\ b[k].split = a[k].split /\ b[k].after = a[k].after
         /\ b[k].res = IF k = l THEN r ELSE a[k].res

\* Return gives the latest launch its result and changes nothing else.
LEMMA ResolvedLaunches ==
    ASSUME NEW a \in Seq(LaunchRec), NEW l \in DOMAIN a, NEW r \in Result,
           NEW b, b = [a EXCEPT ![l].res = r]
    PROVE  b \in Seq(LaunchRec) /\ Resolved(a, b, l, r)
<1>1. a[l] \in LaunchRec
  BY ElementOfSeq
<1>2. PICK e : e = [a[l] EXCEPT !.res = r]
  OBVIOUS
<1>3. e \in LaunchRec /\ e.kind = a[l].kind /\ e.dim = a[l].dim /\ e.stream = a[l].stream
      /\ e.by = a[l].by /\ e.split = a[l].split /\ e.after = a[l].after /\ e.res = r
  BY <1>1, <1>2 DEF LaunchRec, Result
<1>4. b = [a EXCEPT ![l] = e]
  BY <1>2
<1>5. b \in Seq(LaunchRec)
  BY <1>3, <1>4, ExceptSeq
<1>6. DOMAIN b = DOMAIN a /\ \A k \in DOMAIN a : b[k] = IF k = l THEN e ELSE a[k]
  BY <1>4
<1> QED BY <1>3, <1>5, <1>6 DEF Resolved

\* A step that is no return leaves the launches.
LEMMA Unresolved ==
    ASSUME NEW a, NEW l \in DOMAIN a
    PROVE  Resolved(a, a, l, a[l].res)
  BY DEF Resolved

\* The fields of a launch.
LEMMA LaunchTypes ==
    ASSUME NEW a \in Seq(LaunchRec), NEW l \in DOMAIN a
    PROVE  /\ l \in Nat /\ a[l] \in LaunchRec /\ a[l].stream \in MainStream /\ a[l].by \in Caller
           /\ a[l].res \in Result /\ a[l].dim \in Nat
           /\ a[l].kind \in {"composite", "mixAiv", "mixAiCore"}
<1>1. a[l] \in LaunchRec /\ l \in Nat
  BY ElementOfSeq
<1> QED BY <1>1 DEF LaunchRec, Result

\* The latest launch of a caller that is at work is the open one.
LEMMA LatestIs ==
    ASSUME SplitTypeOK, CallersFit, NEW c \in Caller, stage[c] # "idle"
    PROVE  \E l \in DOMAIN launches :
             /\ l = Latest(c) /\ Open(l) /\ launches[l].by = c /\ l \in Nat
             /\ \A k \in DOMAIN launches : Open(k) /\ launches[k].by = c => k = l
<1>1. PICK l \in DOMAIN launches : Open(l) /\ launches[l].by = c
  BY DEF CallersFit
<1>2. \A k \in DOMAIN launches : launches[k].by = c => k <= l
  BY <1>1 DEF CallersFit
<1>0. \A k \in DOMAIN launches : k \in Nat
  BY DEF SplitTypeOK
<1>3. \E x \in DOMAIN launches : launches[x].by = c
                              /\ \A k \in DOMAIN launches : launches[k].by = c => k <= x
  BY <1>1, <1>2
<1>4. /\ Latest(c) \in DOMAIN launches /\ launches[Latest(c)].by = c
      /\ \A k \in DOMAIN launches : launches[k].by = c => k <= Latest(c)
  BY <1>3, Zenon DEF Latest
<1>5. l <= Latest(c) /\ Latest(c) <= l /\ l \in Nat /\ Latest(c) \in Nat
  BY <1>0, <1>1, <1>2, <1>4
<1>6. l = Latest(c)
  BY <1>5
<1>7. \A k \in DOMAIN launches : Open(k) /\ launches[k].by = c => k = l
  <2> SUFFICES ASSUME NEW k \in DOMAIN launches, Open(k), launches[k].by = c PROVE k = l
    OBVIOUS
  <2>1. l <= k
    BY <1>1 DEF CallersFit
  <2>2. k <= l
    BY <1>2
  <2> QED BY <2>1, <2>2, <1>0
<1> QED BY <1>1, <1>5, <1>6, <1>7

\* Two launches on a stream are not both under its mutex.
LEMMA Exclusive ==
    ASSUME SplitTypeOK, CallersFit, NEW k \in DOMAIN launches, NEW l \in DOMAIN launches,
           Open(k), Open(l), At(k) \in Locked, At(l) \in Locked,
           launches[k].stream = launches[l].stream
    PROVE  k = l
<1>1. launches[k].by = launches[l].by
  BY DEF CallersFit
<1>2. k <= l /\ l <= k
  BY <1>1 DEF CallersFit
<1>3. k \in Nat /\ l \in Nat
  BY DEF SplitTypeOK
<1> QED BY <1>2, <1>3

\* Caller c, at work on l, goes to stage `to' with result r.
Goes(c, l, to, r) ==
    /\ Resolved(launches, launches', l, r)
    /\ launches' \in Seq(LaunchRec)
    /\ stage' = [stage EXCEPT ![c] = to]
    /\ to \in Stage /\ r \in Result /\ (to = "idle" <=> r # "open")

\* What a step of a caller leaves to the others.
LEMMA GoesStage ==
    ASSUME SplitTypeOK, CallersFit, NEW c \in Caller, NEW l \in DOMAIN launches,
           Open(l), launches[l].by = c, NEW to, NEW r, Goes(c, l, to, r),
           \A k \in DOMAIN launches : Open(k) /\ launches[k].by = c => k = l
    PROVE  /\ DOMAIN launches' = DOMAIN launches
           /\ stage' \in [Caller -> Stage] /\ stage'[c] = to
           /\ \A d \in Caller : d # c => stage'[d] = stage[d]
           /\ \A k \in DOMAIN launches : k # l => /\ launches'[k].res = launches[k].res
                                                  /\ Open(k)' <=> Open(k)
                                                  /\ Open(k) => At(k)' = At(k)
           /\ (Open(l)' <=> to # "idle") /\ At(l)' = to /\ launches'[l].res = r
<1>0. stage \in [Caller -> Stage]
  BY DEF SplitTypeOK
<1>1. stage' \in [Caller -> Stage] /\ stage'[c] = to /\ \A d \in Caller : d # c => stage'[d] = stage[d]
  BY <1>0 DEF Goes
<1>2. DOMAIN launches' = DOMAIN launches
  BY DEF Goes, Resolved
<1>3. \A k \in DOMAIN launches : launches'[k].by = launches[k].by /\ launches[k].by \in Caller
  BY LaunchTypes DEF Goes, Resolved, SplitTypeOK
<1>4. \A k \in DOMAIN launches : k # l => /\ launches'[k].res = launches[k].res
                                          /\ Open(k)' <=> Open(k)
                                          /\ Open(k) => At(k)' = At(k)
  <2> SUFFICES ASSUME NEW k \in DOMAIN launches, k # l
               PROVE  /\ launches'[k].res = launches[k].res /\ (Open(k)' <=> Open(k))
                      /\ Open(k) => At(k)' = At(k)
    OBVIOUS
  <2>1. launches'[k].res = launches[k].res
    BY DEF Goes, Resolved
  <2>2. Open(k)' <=> Open(k)
    BY <2>1, <1>2 DEF Open
  <2>3. Open(k) => launches[k].by # c
    OBVIOUS
  <2> QED BY <2>1, <2>2, <2>3, <1>1, <1>3 DEF At
<1>5. launches'[l].res = r
  BY DEF Goes, Resolved
<1>6. Open(l)' <=> to # "idle"
  BY <1>2, <1>5 DEF Open, Goes
<1>7. At(l)' = to
  BY <1>1, <1>3 DEF At
<1> QED BY <1>1, <1>2, <1>4, <1>5, <1>6, <1>7

\* A step of a caller keeps the callers in line.
LEMMA GoesCallers ==
    ASSUME SplitTypeOK, CallersFit, NEW c \in Caller, NEW l \in DOMAIN launches,
           Open(l), launches[l].by = c, NEW to, NEW r, Goes(c, l, to, r),
           \A k \in DOMAIN launches : Open(k) /\ launches[k].by = c => k = l,
           At(l) = "plain" => to = "idle", to # "plain",
           NEW m, m = launches[l].stream,
           streamMap \subseteq streamMap',
           to \in Locked \cup {"lock"} => m \in streamMap',
           to \in Locked => streamMtx'[m] = c,
           \A p \in MainStream : p # m => streamMtx'[p] = streamMtx[p],
           streamMtx'[m] = streamMtx[m] \/ streamMtx[m] \in {NoCaller, c}
    PROVE  CallersFit'
<1>a. /\ DOMAIN launches' = DOMAIN launches /\ stage'[c] = to
      /\ \A d \in Caller : d # c => stage'[d] = stage[d]
      /\ \A k \in DOMAIN launches : k # l => /\ launches'[k].res = launches[k].res
                                             /\ Open(k)' <=> Open(k)
                                             /\ Open(k) => At(k)' = At(k)
      /\ (Open(l)' <=> to # "idle") /\ At(l)' = to /\ launches'[l].res = r
  BY GoesStage
<1>b. \A k \in DOMAIN launches :
         /\ launches'[k].kind = launches[k].kind /\ launches'[k].dim = launches[k].dim
         /\ launches'[k].stream = launches[k].stream
         /\ launches'[k].by = launches[k].by /\ launches'[k].split = launches[k].split
         /\ launches'[k].after = launches[k].after
  BY DEF Goes, Resolved
<1>c. \A k \in DOMAIN launches : launches[k].by \in Caller /\ launches[k].stream \in MainStream
  BY LaunchTypes DEF SplitTypeOK
<1>1. \A k \in DOMAIN launches' :
         Open(k)' => /\ At(k)' # "idle"
                     /\ \A j \in DOMAIN launches' : launches'[j].by = launches'[k].by => j <= k
  <2> SUFFICES ASSUME NEW k \in DOMAIN launches, Open(k)'
               PROVE  At(k)' # "idle" /\ \A j \in DOMAIN launches : launches[j].by = launches[k].by => j <= k
    BY <1>a, <1>b
  <2>1. Open(k)
    BY <1>a
  <2>2. \A j \in DOMAIN launches : launches[j].by = launches[k].by => j <= k
    BY <2>1 DEF CallersFit
  <2>3. At(k)' # "idle"
    BY <1>a, <2>1 DEF CallersFit
  <2> QED BY <2>2, <2>3
<1>2. \A d \in Caller : stage'[d] # "idle" => \E k \in DOMAIN launches' : Open(k)' /\ launches'[k].by = d
  <2> SUFFICES ASSUME NEW d \in Caller, stage'[d] # "idle"
               PROVE  \E k \in DOMAIN launches : Open(k)' /\ launches[k].by = d
    BY <1>a, <1>b
  <2>1. CASE d = c
    BY <2>1, <1>a
  <2>2. CASE d # c
    <3>1. PICK k \in DOMAIN launches : Open(k) /\ launches[k].by = d
      BY <1>a, <2>2 DEF CallersFit
    <3> QED BY <1>a, <2>2, <3>1
  <2> QED BY <2>1, <2>2
<1>3. \A k \in DOMAIN launches' : Open(k)' => (launches'[k].split <=> At(k)' # "plain")
  <2> SUFFICES ASSUME NEW k \in DOMAIN launches, Open(k)'
               PROVE  launches[k].split <=> At(k)' # "plain"
    BY <1>a, <1>b
  <2>1. Open(k) /\ (launches[k].split <=> At(k) # "plain")
    BY <1>a DEF CallersFit
  <2> QED BY <1>a, <2>1
<1>4. \A k \in DOMAIN launches' : launches'[k].split <=> NeedsSplit(launches'[k].kind, launches'[k].dim)
  <2> SUFFICES ASSUME NEW k \in DOMAIN launches
               PROVE  launches'[k].split <=> NeedsSplit(launches'[k].kind, launches'[k].dim)
    BY <1>a
  <2>1. launches[k].split <=> NeedsSplit(launches[k].kind, launches[k].dim)
    BY DEF CallersFit
  <2> QED BY <1>b, <2>1
<1>5. \A k \in DOMAIN launches' : \A j \in launches'[k].after :
         /\ j \in DOMAIN launches' /\ j # k
         /\ launches'[j].stream = launches'[k].stream /\ launches'[j].res = "ok"
  <2> SUFFICES ASSUME NEW k \in DOMAIN launches, NEW j \in launches[k].after
               PROVE  /\ j \in DOMAIN launches /\ j # k
                      /\ launches[j].stream = launches[k].stream /\ launches'[j].res = "ok"
    BY <1>a, <1>b
  <2>1. /\ j \in DOMAIN launches /\ j # k
        /\ launches[j].stream = launches[k].stream /\ launches[j].res = "ok"
    BY DEF CallersFit
  <2>2. j # l
    BY <2>1 DEF Open
  <2> QED BY <1>a, <2>1, <2>2
<1>6. \A k \in DOMAIN launches' : Open(k)' /\ At(k)' \in Locked =>
         streamMtx'[launches'[k].stream] = launches'[k].by
  <2> SUFFICES ASSUME NEW k \in DOMAIN launches, Open(k)', At(k)' \in Locked
               PROVE  streamMtx'[launches[k].stream] = launches[k].by
    BY <1>a, <1>b
  <2>1. CASE k = l
    BY <1>a, <2>1
  <2>2. CASE k # l
    <3>1. Open(k) /\ At(k) \in Locked
      BY <1>a, <2>2
    <3>2. streamMtx[launches[k].stream] = launches[k].by
      BY <3>1 DEF CallersFit
    <3>3. launches[k].by # c /\ launches[k].by # NoCaller
      BY <2>2, <3>1, <1>c, CoreAssumption
    <3> QED BY <3>2, <3>3, <1>c
  <2> QED BY <2>1, <2>2
<1>7. \A k \in DOMAIN launches' : Open(k)' /\ At(k)' \in Locked \cup {"lock"} =>
         launches'[k].stream \in streamMap'
  <2> SUFFICES ASSUME NEW k \in DOMAIN launches, Open(k)', At(k)' \in Locked \cup {"lock"}
               PROVE  launches[k].stream \in streamMap'
    BY <1>a, <1>b
  <2>1. CASE k = l
    BY <1>a, <2>1
  <2>2. CASE k # l
    <3>1. Open(k) /\ At(k) \in Locked \cup {"lock"}
      BY <1>a, <2>2
    <3> QED BY <3>1 DEF CallersFit
  <2> QED BY <2>1, <2>2
<1> QED BY <1>1, <1>2, <1>3, <1>4, <1>5, <1>6, <1>7 DEF CallersFit

-----------------------------------------------------------------------------
(* Issuing a task                                                          *)

\* Task x was appended to a queue of stream m.
IssuedTo(q, v, m, half, x) ==
    /\ q \in [Queues -> Seq(Task)] /\ v \in [Queues -> Seq(Task)]
    /\ m \in MainStream /\ half \in {"main", "sub"}
    /\ Pushed(q[<<m, half>>], x, v[<<m, half>>])
    /\ \A z \in Queues : z # <<m, half>> => v[z] = q[z]

\* Issue appends a task to one queue.
LEMMA IssueShape ==
    ASSUME NEW q \in [Queues -> Seq(Task)], NEW m \in MainStream, NEW half \in {"main", "sub"},
           NEW x \in Task, NEW v, v = [q EXCEPT ![<<m, half>>] = Append(@, x)]
    PROVE  IssuedTo(q, v, m, half, x)
<1>1. PICK z \in Queues : z = <<m, half>>
  BY DEF Queues
<1>2. q[z] \in Seq(Task)
  OBVIOUS
<1>3. PICK e : e = Append(q[z], x)
  OBVIOUS
<1>4. e \in Seq(Task)
  BY <1>2, <1>3, AppendProperties
<1>5. v = [q EXCEPT ![z] = e]
  BY <1>1, <1>3
<1>6. v \in [Queues -> Seq(Task)] /\ v[z] = e /\ \A y \in Queues : y # z => v[y] = q[y]
  BY <1>4, <1>5
<1> QED BY <1>1, <1>2, <1>3, <1>6 DEF IssuedTo, Pushed

\* The queues of a stream before and after.
LEMMA IssuedCases ==
    ASSUME NEW q, NEW v, NEW m, NEW half, NEW x, IssuedTo(q, v, m, half, x), NEW p \in MainStream
    PROVE  \/ p # m /\ v[<<p, "main">>] = q[<<p, "main">>] /\ v[<<p, "sub">>] = q[<<p, "sub">>]
           \/ /\ p = m /\ half = "main" /\ v[<<p, "sub">>] = q[<<p, "sub">>]
              /\ Pushed(q[<<p, "main">>], x, v[<<p, "main">>])
           \/ /\ p = m /\ half = "sub" /\ v[<<p, "main">>] = q[<<p, "main">>]
              /\ Pushed(q[<<p, "sub">>], x, v[<<p, "sub">>])
<1>1. <<p, "main">> \in Queues /\ <<p, "sub">> \in Queues
  BY DEF Queues
<1>2. CASE p # m
  <2>1. <<p, "main">> # <<m, half>> /\ <<p, "sub">> # <<m, half>>
    BY <1>2
  <2> QED BY <1>1, <1>2, <2>1 DEF IssuedTo
<1>3. CASE p = m /\ half = "main"
  <2>1. <<p, "sub">> # <<m, half>>
    BY <1>3
  <2> QED BY <1>1, <1>3, <2>1 DEF IssuedTo
<1>4. CASE p = m /\ half = "sub"
  <2>1. <<p, "main">> # <<m, half>>
    BY <1>4
  <2> QED BY <1>1, <1>4, <2>1 DEF IssuedTo
<1> QED BY <1>2, <1>3, <1>4 DEF IssuedTo

\* The end of a queue keeps k behind it when a task of another launch is appended ...
LEMMA ClosedPushOwn ==
    ASSUME NEW s, NEW t, NEW x, NEW u, Pushed(s, x, u), NEW k \in Nat, ~ Of(x, k), Closed(s, t, k)
    PROVE  Closed(u, t, k)
<1>1. Len(s) \in Nat /\ Len(u) = Len(s) + 1
  BY PushedPlaces
<1>2. Len(s) + 1 \in Nat /\ Len(u) + 1 \in Nat /\ Len(s) + 1 <= Len(u) + 1
  BY <1>1
<1>3. Passed(u, t, k, Len(s) + 1)
  BY <1>2, PassedPushOwn DEF Closed
<1>4. Passed(u, t, k, Len(u) + 1)
  BY <1>2, <1>3, PassedMore
<1> QED BY <1>4 DEF Closed

\* ... or one is appended to the other queue.
LEMMA ClosedPushOther ==
    ASSUME NEW s \in Seq(Task), NEW t, NEW x, NEW u, Pushed(t, x, u), NEW k \in Nat, ~ Of(x, k),
           Closed(s, t, k)
    PROVE  Closed(s, u, k)
<1>1. Len(s) + 1 \in Nat
  OBVIOUS
<1> QED BY <1>1, PassedPushOther DEF Closed

\* What a task that is no kernel of k leaves as it was.
LEMMA IssuedKeeps ==
    ASSUME NEW q, NEW v, NEW m, NEW half, NEW x, IssuedTo(q, v, m, half, x),
           NEW k \in Nat, ~ Of(x, k), NEW p \in MainStream
    PROVE  /\ \A n \in Nat : Marked(q[<<p, "main">>], k, n) => Marked(v[<<p, "main">>], k, n)
           /\ \A n \in Nat : Marked(q[<<p, "sub">>], k, n) => Marked(v[<<p, "sub">>], k, n)
           /\ Closed(q[<<p, "main">>], q[<<p, "sub">>], k) => Closed(v[<<p, "main">>], v[<<p, "sub">>], k)
           /\ Closed(q[<<p, "sub">>], q[<<p, "main">>], k) => Closed(v[<<p, "sub">>], v[<<p, "main">>], k)
<1>1. q[<<p, "main">>] \in Seq(Task) /\ q[<<p, "sub">>] \in Seq(Task)
  BY DEF IssuedTo, Queues
<1>2. CASE p # m /\ v[<<p, "main">>] = q[<<p, "main">>] /\ v[<<p, "sub">>] = q[<<p, "sub">>]
  BY <1>2
<1>3. CASE /\ p = m /\ half = "main" /\ v[<<p, "sub">>] = q[<<p, "sub">>]
           /\ Pushed(q[<<p, "main">>], x, v[<<p, "main">>])
  BY <1>1, <1>3, MarkedPush, ClosedPushOwn, ClosedPushOther
<1>4. CASE /\ p = m /\ half = "sub" /\ v[<<p, "main">>] = q[<<p, "main">>]
           /\ Pushed(q[<<p, "sub">>], x, v[<<p, "sub">>])
  BY <1>1, <1>4, MarkedPush, ClosedPushOwn, ClosedPushOther
<1> QED BY <1>2, <1>3, <1>4, IssuedCases

\* Issuing a task keeps the order of two launches.
LEMMA IssuedOrdered ==
    ASSUME NEW q, NEW v, NEW m, NEW half, NEW x, IssuedTo(q, v, m, half, x),
           NEW k \in Nat, ~ Of(x, k), NEW p \in MainStream, NEW l \in Nat, NEW r,
           Ordered(q[<<p, "main">>], q[<<p, "sub">>], r, k, l),
           Of(x, l) /\ half = "main" => Closed(q[<<p, "main">>], q[<<p, "sub">>], k),
           Of(x, l) /\ half = "sub" => Closed(q[<<p, "sub">>], q[<<p, "main">>], k)
    PROVE  Ordered(v[<<p, "main">>], v[<<p, "sub">>], r, k, l)
<1>2. CASE p # m /\ v[<<p, "main">>] = q[<<p, "main">>] /\ v[<<p, "sub">>] = q[<<p, "sub">>]
  BY <1>2
<1>3. CASE /\ p = m /\ half = "main" /\ v[<<p, "sub">>] = q[<<p, "sub">>]
           /\ Pushed(q[<<p, "main">>], x, v[<<p, "main">>])
  BY <1>3, OrderedPush DEF Closed
<1>4. CASE /\ p = m /\ half = "sub" /\ v[<<p, "main">>] = q[<<p, "main">>]
           /\ Pushed(q[<<p, "sub">>], x, v[<<p, "sub">>])
  <2>1. Ordered(q[<<p, "sub">>], q[<<p, "main">>], r, k, l)
    BY OrderedSwap
  <2>2. Ordered(v[<<p, "sub">>], q[<<p, "main">>], r, k, l)
    BY <1>4, <2>1, OrderedPush DEF Closed
  <2> QED BY <1>4, <2>2, OrderedSwap
<1> QED BY <1>2, <1>3, <1>4, IssuedCases

\* Where the kernels of k are.
LEMMA IssuedKernels ==
    ASSUME NEW q, NEW v, NEW m, NEW half, NEW x, IssuedTo(q, v, m, half, x),
           NEW k \in Nat, NEW p \in MainStream
    PROVE  /\ ~ Of(x, k) =>
                /\ \A i \in Nat : KernelAt(v[<<p, "main">>], i, k) <=> KernelAt(q[<<p, "main">>], i, k)
                /\ \A i \in Nat : KernelAt(v[<<p, "sub">>], i, k) <=> KernelAt(q[<<p, "sub">>], i, k)
                /\ Pending(v[<<p, "main">>], k) = Pending(q[<<p, "main">>], k)
                /\ Pending(v[<<p, "sub">>], k) = Pending(q[<<p, "sub">>], k)
           /\ Of(x, k) /\ p = m =>
                /\ half = "main" => /\ Pending(v[<<p, "main">>], k) = 1
                                    /\ v[<<p, "sub">>] = q[<<p, "sub">>]
                /\ half = "sub" => /\ Pending(v[<<p, "sub">>], k) = 1
                                   /\ v[<<p, "main">>] = q[<<p, "main">>]
<1>2. CASE p # m /\ v[<<p, "main">>] = q[<<p, "main">>] /\ v[<<p, "sub">>] = q[<<p, "sub">>]
  BY <1>2
<1>3. CASE /\ p = m /\ half = "main" /\ v[<<p, "sub">>] = q[<<p, "sub">>]
           /\ Pushed(q[<<p, "main">>], x, v[<<p, "main">>])
  <2>1. Pending(v[<<p, "main">>], k) = IF Of(x, k) THEN 1 ELSE Pending(q[<<p, "main">>], k)
    BY <1>3, PendingPush
  <2>2. ~ Of(x, k) => \A i \in Nat : KernelAt(v[<<p, "main">>], i, k) <=> KernelAt(q[<<p, "main">>], i, k)
    BY <1>3, PushedKernel DEF Of
  <2> QED BY <1>3, <2>1, <2>2
<1>4. CASE /\ p = m /\ half = "sub" /\ v[<<p, "main">>] = q[<<p, "main">>]
           /\ Pushed(q[<<p, "sub">>], x, v[<<p, "sub">>])
  <2>1. Pending(v[<<p, "sub">>], k) = IF Of(x, k) THEN 1 ELSE Pending(q[<<p, "sub">>], k)
    BY <1>4, PendingPush
  <2>2. ~ Of(x, k) => \A i \in Nat : KernelAt(v[<<p, "sub">>], i, k) <=> KernelAt(q[<<p, "sub">>], i, k)
    BY <1>4, PushedKernel DEF Of
  <2> QED BY <1>4, <2>1, <2>2
<1> QED BY <1>2, <1>3, <1>4, IssuedCases

-----------------------------------------------------------------------------
(* Events                                                                  *)

\* The numbers of the events and the queues of a stream.
LEMMA EventTypes ==
    ASSUME SplitTypeOK, NEW m \in MainStream
    PROVE  /\ reached[m]["A"] \in Nat /\ reached[m]["B"] \in Nat
           /\ recorded[m]["A"] \in Nat /\ recorded[m]["B"] \in Nat
           /\ MainQ(m) \in Seq(Task) /\ SubQ(m) \in Seq(Task)
<1>1. "A" \in Event /\ "B" \in Event
  BY DEF Event
<1>2. <<m, "main">> \in Queues /\ <<m, "sub">> \in Queues
  BY DEF Queues
<1> QED BY <1>1, <1>2 DEF SplitTypeOK, MainQ, SubQ

\* A kernel or a wait for the latest record was issued.
LEMMA EventsIssue ==
    ASSUME SplitTypeOK, EventsFit, NEW m, NEW half, NEW x, IssuedTo(queue, queue', m, half, x),
           x.do # "record", recorded' = recorded, reached' = reached,
           x.do = "wait" /\ half = "main" => x.event = "B" /\ x.n = recorded[m]["B"],
           x.do = "wait" /\ half = "sub" => x.event = "A" /\ x.n = recorded[m]["A"]
    PROVE  EventsFit'
<1> SUFFICES ASSUME NEW p \in MainStream
             PROVE  /\ Numbered(MainQ(p)', "A", reached[p]["A"], recorded[p]["A"])
                    /\ Numbered(SubQ(p)', "B", reached[p]["B"], recorded[p]["B"])
                    /\ Awaits(SubQ(p)', "A", recorded[p]["A"])
                    /\ Awaits(MainQ(p)', "B", recorded[p]["B"])
  BY DEF EventsFit
<1>1. /\ reached[p]["A"] \in Nat /\ reached[p]["B"] \in Nat
      /\ recorded[p]["A"] \in Nat /\ recorded[p]["B"] \in Nat
  BY EventTypes
<1>2. /\ Numbered(MainQ(p), "A", reached[p]["A"], recorded[p]["A"])
      /\ Numbered(SubQ(p), "B", reached[p]["B"], recorded[p]["B"])
      /\ Awaits(SubQ(p), "A", recorded[p]["A"])
      /\ Awaits(MainQ(p), "B", recorded[p]["B"])
  BY DEF EventsFit
<1>3. CASE p # m /\ MainQ(p)' = MainQ(p) /\ SubQ(p)' = SubQ(p)
  BY <1>2, <1>3
<1>4. CASE p = m /\ half = "main" /\ SubQ(p)' = SubQ(p) /\ Pushed(MainQ(p), x, MainQ(p)')
  BY <1>1, <1>2, <1>4, PushOther, PushAwaits
<1>5. CASE p = m /\ half = "sub" /\ MainQ(p)' = MainQ(p) /\ Pushed(SubQ(p), x, SubQ(p)')
  BY <1>1, <1>2, <1>5, PushOther, PushAwaits
<1> QED BY <1>3, <1>4, <1>5, IssuedCases DEF MainQ, SubQ

\* One more record of event e was issued; the event each queue has the records of.
RecordedOne(m, e) == recorded' = [recorded EXCEPT ![m][e] = @ + 1]
RecordEvent(half) == IF half = "main" THEN "A" ELSE "B"

\* An event was recorded.
LEMMA EventsRecord ==
    ASSUME SplitTypeOK, EventsFit, NEW m, NEW half, NEW x, IssuedTo(queue, queue', m, half, x),
           NEW e, e = RecordEvent(half),
           x.do = "record", x.event = e, x.n = recorded[m][e] + 1,
           RecordedOne(m, e), reached' = reached
    PROVE  EventsFit' /\ recorded' \in [MainStream -> [Event -> Nat]] /\ recorded'[m][e] = x.n
           /\ \A p \in MainStream : p # m => recorded'[p] = recorded[p]
<1>a. m \in MainStream /\ e \in Event /\ half \in {"main", "sub"}
  BY DEF IssuedTo, Event, RecordEvent
<1>b. recorded \in [MainStream -> [Event -> Nat]]
  BY DEF SplitTypeOK
<1>c. PICK g : g = [recorded[m] EXCEPT ![e] = @ + 1]
  OBVIOUS
<1>d. g \in [Event -> Nat] /\ g[e] = recorded[m][e] + 1 /\ \A d \in Event : d # e => g[d] = recorded[m][d]
  BY <1>a, <1>b, <1>c
<1>e. recorded' = [recorded EXCEPT ![m] = g]
  BY <1>c DEF RecordedOne
<1>f. recorded' \in [MainStream -> [Event -> Nat]] /\ recorded'[m] = g
      /\ \A p \in MainStream : p # m => recorded'[p] = recorded[p]
  BY <1>a, <1>b, <1>d, <1>e
<1>g. EventsFit'
  <2> SUFFICES ASSUME NEW p \in MainStream
               PROVE  /\ Numbered(MainQ(p)', "A", reached[p]["A"], recorded'[p]["A"])
                      /\ Numbered(SubQ(p)', "B", reached[p]["B"], recorded'[p]["B"])
                      /\ Awaits(SubQ(p)', "A", recorded'[p]["A"])
                      /\ Awaits(MainQ(p)', "B", recorded'[p]["B"])
    BY DEF EventsFit
  <2>1. /\ reached[p]["A"] \in Nat /\ reached[p]["B"] \in Nat
        /\ recorded[p]["A"] \in Nat /\ recorded[p]["B"] \in Nat
    BY EventTypes
  <2>2. /\ Numbered(MainQ(p), "A", reached[p]["A"], recorded[p]["A"])
        /\ Numbered(SubQ(p), "B", reached[p]["B"], recorded[p]["B"])
        /\ Awaits(SubQ(p), "A", recorded[p]["A"])
        /\ Awaits(MainQ(p), "B", recorded[p]["B"])
    BY DEF EventsFit
  <2>3. CASE p # m /\ MainQ(p)' = MainQ(p) /\ SubQ(p)' = SubQ(p)
    BY <1>f, <2>2, <2>3
  <2>4. CASE p = m /\ half = "main" /\ SubQ(p)' = SubQ(p) /\ Pushed(MainQ(p), x, MainQ(p)')
    <3>1. recorded'[p]["A"] = recorded[p]["A"] + 1 /\ recorded'[p]["B"] = recorded[p]["B"]
      BY <1>d, <1>f, <2>4 DEF Event, RecordEvent
    <3>2. Numbered(MainQ(p)', "A", reached[p]["A"], recorded[p]["A"] + 1)
      BY <2>1, <2>2, <2>4, PushRecord DEF RecordEvent
    <3>3. Awaits(MainQ(p)', "B", recorded[p]["B"])
      BY <2>1, <2>2, <2>4, PushAwaits
    <3>4. Awaits(SubQ(p), "A", recorded[p]["A"] + 1)
      BY <2>1, <2>2, AwaitsMore
    <3> QED BY <2>2, <2>4, <3>1, <3>2, <3>3, <3>4
  <2>5. CASE p = m /\ half = "sub" /\ MainQ(p)' = MainQ(p) /\ Pushed(SubQ(p), x, SubQ(p)')
    <3>1. recorded'[p]["B"] = recorded[p]["B"] + 1 /\ recorded'[p]["A"] = recorded[p]["A"]
      BY <1>d, <1>f, <2>5 DEF Event, RecordEvent
    <3>2. Numbered(SubQ(p)', "B", reached[p]["B"], recorded[p]["B"] + 1)
      BY <2>1, <2>2, <2>5, PushRecord DEF RecordEvent
    <3>3. Awaits(SubQ(p)', "A", recorded[p]["A"])
      BY <2>1, <2>2, <2>5, PushAwaits
    <3>4. Awaits(MainQ(p), "B", recorded[p]["B"] + 1)
      BY <2>1, <2>2, AwaitsMore
    <3> QED BY <2>2, <2>5, <3>1, <3>2, <3>3, <3>4
  <2> QED BY <2>3, <2>4, <2>5, IssuedCases DEF MainQ, SubQ
<1> QED BY <1>d, <1>f, <1>g

-----------------------------------------------------------------------------
(* Kernels                                                                 *)

\* A launch has the same blocks whatever its result.
LEMMA SameParts ==
    ASSUME NEW a, NEW b, NEW l, NEW r, Resolved(a, b, l, r), NEW k \in DOMAIN a
    PROVE  /\ MainBlocks(b[k]) = MainBlocks(a[k]) /\ SubBlocks(b[k]) = SubBlocks(a[k])
           /\ b[k].stream = a[k].stream /\ (b[k].split <=> a[k].split) /\ b[k].kind = a[k].kind
           /\ b[k].dim = a[k].dim /\ b[k].by = a[k].by /\ b[k].after = a[k].after
<1>1. b[k].split = a[k].split /\ b[k].kind = a[k].kind /\ b[k].dim = a[k].dim /\ b[k].stream = a[k].stream
      /\ b[k].by = a[k].by /\ b[k].after = a[k].after
  BY DEF Resolved
<1>2. MainBlocks(b[k]) = MainBlocks(a[k])
  BY <1>1 DEF MainBlocks
<1>3. SubBlocks(b[k]) = SubBlocks(a[k])
  BY <1>1 DEF SubBlocks
<1> QED BY <1>1, <1>2, <1>3

\* Task x may be appended to a queue of stream m: a kernel of a launch that has
\* none there, with the blocks of that part of it.
Fits(x, m, half) ==
    x.do = "kernel" =>
        /\ x.launch \in DOMAIN launches /\ launches[x.launch].stream = m
        /\ half = "main" => /\ x.blocks = MainBlocks(launches[x.launch])
                            /\ Pending(MainQ(m), x.launch) = 0
        /\ half = "sub" => /\ x.blocks = SubBlocks(launches[x.launch]) /\ launches[x.launch].split
                           /\ Pending(SubQ(m), x.launch) = 0

\* Issuing a task keeps the kernels in their places.
LEMMA KernelsIssue ==
    ASSUME SplitTypeOK, KernelsFit, NEW l, NEW r, Resolved(launches, launches', l, r),
           NEW m, NEW half, NEW x, IssuedTo(queue, queue', m, half, x), ran' = ran, Fits(x, m, half)
    PROVE  KernelsFit'
<1>a. DOMAIN launches' = DOMAIN launches
  BY DEF Resolved
<1>b. \A k \in DOMAIN launches :
         /\ MainBlocks(launches'[k]) = MainBlocks(launches[k])
         /\ SubBlocks(launches'[k]) = SubBlocks(launches[k])
         /\ launches'[k].stream = launches[k].stream /\ (launches'[k].split <=> launches[k].split)
  BY SameParts
<1>c. \A i \in DOMAIN ran' : ran'[i].launch \in DOMAIN launches'
  BY <1>a DEF KernelsFit
<1> SUFFICES ASSUME NEW p \in MainStream
             PROVE  /\ \A i, k \in Nat : KernelAt(MainQ(p)', i, k) =>
                         /\ k \in DOMAIN launches /\ launches[k].stream = p
                         /\ MainQ(p)'[i].blocks = MainBlocks(launches[k])
                    /\ \A i, k \in Nat : KernelAt(SubQ(p)', i, k) =>
                         /\ k \in DOMAIN launches /\ launches[k].stream = p /\ launches[k].split
                         /\ SubQ(p)'[i].blocks = SubBlocks(launches[k])
                    /\ Single(MainQ(p)') /\ Single(SubQ(p)')
  <2>1. ASSUME NEW p \in MainStream
        PROVE  /\ \A i, k \in Nat : KernelAt(MainQ(p)', i, k) =>
                    /\ k \in DOMAIN launches' /\ launches'[k].stream = p
                    /\ MainQ(p)'[i].blocks = MainBlocks(launches'[k])
               /\ \A i, k \in Nat : KernelAt(SubQ(p)', i, k) =>
                    /\ k \in DOMAIN launches' /\ launches'[k].stream = p /\ launches'[k].split
                    /\ SubQ(p)'[i].blocks = SubBlocks(launches'[k])
               /\ Single(MainQ(p)') /\ Single(SubQ(p)')
    BY <1>a, <1>b
  <2> QED BY <1>c, <2>1 DEF KernelsFit
<1>1. /\ \A i, k \in Nat : KernelAt(MainQ(p), i, k) =>
             /\ k \in DOMAIN launches /\ launches[k].stream = p
             /\ MainQ(p)[i].blocks = MainBlocks(launches[k])
      /\ \A i, k \in Nat : KernelAt(SubQ(p), i, k) =>
             /\ k \in DOMAIN launches /\ launches[k].stream = p /\ launches[k].split
             /\ SubQ(p)[i].blocks = SubBlocks(launches[k])
      /\ Single(MainQ(p)) /\ Single(SubQ(p))
  BY DEF KernelsFit
<1>3. CASE p # m /\ MainQ(p)' = MainQ(p) /\ SubQ(p)' = SubQ(p)
  BY <1>1, <1>3
<1>4. CASE p = m /\ half = "main" /\ SubQ(p)' = SubQ(p) /\ Pushed(MainQ(p), x, MainQ(p)')
  <2>1. \A k \in Nat : Of(x, k) => k \in DOMAIN launches /\ launches[k].stream = p
                                /\ x.blocks = MainBlocks(launches[k]) /\ Pending(MainQ(p), k) = 0
    BY <1>4 DEF Of, Fits
  <2>2. Single(MainQ(p)')
    BY <1>1, <1>4, <2>1, SinglePush
  <2>3. /\ MainQ(p)'[Len(MainQ(p)) + 1] = x
        /\ \A i, k \in Nat : KernelAt(MainQ(p), i, k) => MainQ(p)'[i] = MainQ(p)[i]
    BY <1>4, PushedPlaces DEF KernelAt
  <2>4. \A i, k \in Nat : KernelAt(MainQ(p)', i, k) =>
           KernelAt(MainQ(p), i, k) \/ (i = Len(MainQ(p)) + 1 /\ Of(x, k))
    BY <1>4, PushedKernel DEF Of
  <2>5. \A i, k \in Nat : KernelAt(MainQ(p)', i, k) =>
             /\ k \in DOMAIN launches /\ launches[k].stream = p
             /\ MainQ(p)'[i].blocks = MainBlocks(launches[k])
    BY <1>1, <2>1, <2>3, <2>4
  <2> QED BY <1>1, <1>4, <2>2, <2>5
<1>5. CASE p = m /\ half = "sub" /\ MainQ(p)' = MainQ(p) /\ Pushed(SubQ(p), x, SubQ(p)')
  <2>1. \A k \in Nat : Of(x, k) => k \in DOMAIN launches /\ launches[k].stream = p /\ launches[k].split
                                /\ x.blocks = SubBlocks(launches[k]) /\ Pending(SubQ(p), k) = 0
    BY <1>5 DEF Of, Fits
  <2>2. Single(SubQ(p)')
    BY <1>1, <1>5, <2>1, SinglePush
  <2>3. /\ SubQ(p)'[Len(SubQ(p)) + 1] = x
        /\ \A i, k \in Nat : KernelAt(SubQ(p), i, k) => SubQ(p)'[i] = SubQ(p)[i]
    BY <1>5, PushedPlaces DEF KernelAt
  <2>4. \A i, k \in Nat : KernelAt(SubQ(p)', i, k) =>
           KernelAt(SubQ(p), i, k) \/ (i = Len(SubQ(p)) + 1 /\ Of(x, k))
    BY <1>5, PushedKernel DEF Of
  <2>5. \A i, k \in Nat : KernelAt(SubQ(p)', i, k) =>
             /\ k \in DOMAIN launches /\ launches[k].stream = p /\ launches[k].split
             /\ SubQ(p)'[i].blocks = SubBlocks(launches[k])
    BY <1>1, <2>1, <2>3, <2>4
  <2> QED BY <1>1, <1>5, <2>2, <2>5
<1> QED BY <1>3, <1>4, <1>5, IssuedCases DEF MainQ, SubQ

\* So does a step that issues nothing.
LEMMA KernelsQuiet ==
    ASSUME KernelsFit, NEW l, NEW r, Resolved(launches, launches', l, r), queue' = queue, ran' = ran
    PROVE  KernelsFit'
<1>a. DOMAIN launches' = DOMAIN launches
  BY DEF Resolved
<1>b. \A k \in DOMAIN launches :
         /\ MainBlocks(launches'[k]) = MainBlocks(launches[k])
         /\ SubBlocks(launches'[k]) = SubBlocks(launches[k])
         /\ launches'[k].stream = launches[k].stream /\ (launches'[k].split <=> launches[k].split)
  BY SameParts
<1>c. \A i \in DOMAIN ran' : ran'[i].launch \in DOMAIN launches'
  BY <1>a DEF KernelsFit
<1>d. \A m \in MainStream : MainQ(m)' = MainQ(m) /\ SubQ(m)' = SubQ(m)
  BY DEF MainQ, SubQ
<1> QED BY <1>a, <1>b, <1>c, <1>d DEF KernelsFit
-----------------------------------------------------------------------------
(* Counts                                                                  *)

\* The kernels of a launch are counted by natural numbers.
LEMMA OutNat ==
    ASSUME SplitTypeOK, NEW l
    PROVE  /\ Cardinality(RanOf(ran, l)) \in Nat /\ IsFiniteSet(RanOf(ran, l))
           /\ \A s : Pending(s, l) \in {0, 1}
           /\ Out(l) \in Nat
<1>1. ran \in Seq(RanKernel)
  BY DEF SplitTypeOK, RanKernel
<1>2. Cardinality(RanOf(ran, l)) \in Nat /\ IsFiniteSet(RanOf(ran, l))
  BY <1>1, RanFinite
<1>3. \A s : Pending(s, l) \in {0, 1}
  BY DEF Pending
<1>4. Out(l) \in Nat
  <2>1. Pending(MainQ(launches[l].stream), l) \in {0, 1} /\ Pending(SubQ(launches[l].stream), l) \in {0, 1}
    BY <1>3
  <2> QED BY <1>2, <2>1 DEF Out
<1> QED BY <1>2, <1>3, <1>4

\* A launch none of whose kernels was issued is in no queue and has not run.
LEMMA OutNone ==
    ASSUME SplitTypeOK, NEW l \in DOMAIN launches, Out(l) = 0
    PROVE  /\ RanOf(ran, l) = {}
           /\ \A i \in Nat : /\ ~ KernelAt(MainQ(launches[l].stream), i, l)
                             /\ ~ KernelAt(SubQ(launches[l].stream), i, l)
           /\ Pending(MainQ(launches[l].stream), l) = 0 /\ Pending(SubQ(launches[l].stream), l) = 0
<1>0. Pending(MainQ(launches[l].stream), l) \in {0, 1} /\ Pending(SubQ(launches[l].stream), l) \in {0, 1}
      /\ Cardinality(RanOf(ran, l)) \in Nat /\ IsFiniteSet(RanOf(ran, l))
  BY OutNat
<1>1. /\ Cardinality(RanOf(ran, l)) = 0
      /\ Pending(MainQ(launches[l].stream), l) = 0 /\ Pending(SubQ(launches[l].stream), l) = 0
  BY <1>0 DEF Out
<1>2. RanOf(ran, l) = {}
  BY <1>0, <1>1, FS_EmptySet
<1> QED BY <1>1, <1>2 DEF Pending

\* A step of the caller of l leaves the counts of the others, and has l as
\* its next stage says.
LEMMA GoesCounts ==
    ASSUME SplitTypeOK, CallersFit, CountsFit, NEW c \in Caller, NEW l \in DOMAIN launches,
           Open(l), launches[l].by = c, NEW to, NEW r, Goes(c, l, to, r),
           \A k \in DOMAIN launches : Open(k) /\ launches[k].by = c => k = l,
           \A k \in DOMAIN launches : k # l =>
              Out(k)' = Out(k) /\ Pending(SubQ(launches[k].stream), k)' = Pending(SubQ(launches[k].stream), k),
           r = "ok" => Out(l)' = Parts(l),
           to \in {"plain", "get", "lock", "recordA", "waitA", "launchAic"} => Out(l)' = 0,
           to = "launchAiv" => Out(l)' = 1 /\ Pending(SubQ(launches[l].stream), l)' = 0,
           to \in {"recordB", "waitB"} => Out(l)' = 2
    PROVE  CountsFit'
<1>a. /\ DOMAIN launches' = DOMAIN launches /\ stage'[c] = to
      /\ \A k \in DOMAIN launches : k # l => /\ launches'[k].res = launches[k].res
                                             /\ Open(k)' <=> Open(k)
                                             /\ Open(k) => At(k)' = At(k)
      /\ (Open(l)' <=> to # "idle") /\ At(l)' = to /\ launches'[l].res = r
  BY GoesStage
<1>b. \A k \in DOMAIN launches : launches'[k].stream = launches[k].stream /\ Parts(k)' = Parts(k)
  BY SameParts DEF Goes, Parts
<1> SUFFICES ASSUME NEW k \in DOMAIN launches
             PROVE  /\ launches'[k].res = "ok" => Out(k)' = Parts(k)
                    /\ Open(k)' /\ At(k)' \in {"plain", "get", "lock", "recordA", "waitA", "launchAic"} => Out(k)' = 0
                    /\ Open(k)' /\ At(k)' = "launchAiv" => Out(k)' = 1 /\ Pending(SubQ(launches[k].stream), k)' = 0
                    /\ Open(k)' /\ At(k)' \in {"recordB", "waitB"} => Out(k)' = 2
  BY <1>a, <1>b DEF CountsFit
<1>1. CASE k = l
  BY <1>1, <1>a
<1>2. CASE k # l
  <2>1. /\ launches[k].res = "ok" => Out(k) = Parts(k)
        /\ Open(k) /\ At(k) \in {"plain", "get", "lock", "recordA", "waitA", "launchAic"} => Out(k) = 0
        /\ Open(k) /\ At(k) = "launchAiv" => Out(k) = 1 /\ Pending(SubQ(launches[k].stream), k) = 0
        /\ Open(k) /\ At(k) \in {"recordB", "waitB"} => Out(k) = 2
    BY DEF CountsFit
  <2>2. Out(k)' = Out(k) /\ Pending(SubQ(launches[k].stream), k)' = Pending(SubQ(launches[k].stream), k)
    BY <1>2
  <2>3. launches'[k].res = launches[k].res /\ (Open(k)' <=> Open(k)) /\ (Open(k) => At(k)' = At(k))
    BY <1>2, <1>a
  <2> QED BY <2>1, <2>2, <2>3
<1> QED BY <1>1, <1>2

\* What issuing a task does to the count of a launch.
LEMMA OutIssue ==
    ASSUME SplitTypeOK, NEW l, NEW r, Resolved(launches, launches', l, r),
           NEW m, NEW half, NEW x, IssuedTo(queue, queue', m, half, x), ran' = ran,
           NEW k \in DOMAIN launches
    PROVE  /\ ~ Of(x, k) => /\ Out(k)' = Out(k)
                            /\ Pending(SubQ(launches[k].stream), k)' = Pending(SubQ(launches[k].stream), k)
           /\ Of(x, k) /\ launches[k].stream = m /\ half = "main" /\ Pending(MainQ(m), k) = 0 =>
                /\ Out(k)' = Out(k) + 1
                /\ Pending(SubQ(launches[k].stream), k)' = Pending(SubQ(launches[k].stream), k)
           /\ Of(x, k) /\ launches[k].stream = m /\ half = "sub" /\ Pending(SubQ(m), k) = 0 =>
                Out(k)' = Out(k) + 1
<1>1. launches'[k].stream = launches[k].stream
  BY SameParts
<1>2. launches[k].stream \in MainStream /\ k \in Nat
  BY LaunchTypes DEF SplitTypeOK
<1>3. PICK p \in MainStream : p = launches[k].stream
  BY <1>2
<1>4. /\ Out(k) = Cardinality(RanOf(ran, k)) + Pending(queue[<<p, "main">>], k) + Pending(queue[<<p, "sub">>], k)
      /\ Out(k)' = Cardinality(RanOf(ran, k)) + Pending(queue'[<<p, "main">>], k) + Pending(queue'[<<p, "sub">>], k)
  BY <1>1, <1>3 DEF Out, MainQ, SubQ
<1>5. /\ Pending(SubQ(launches[k].stream), k)' = Pending(queue'[<<p, "sub">>], k)
      /\ Pending(SubQ(launches[k].stream), k) = Pending(queue[<<p, "sub">>], k)
      /\ Pending(MainQ(launches[k].stream), k) = Pending(queue[<<p, "main">>], k)
  BY <1>1, <1>3 DEF MainQ, SubQ
<1>6. CASE ~ Of(x, k)
  <2>1. /\ Pending(queue'[<<p, "main">>], k) = Pending(queue[<<p, "main">>], k)
        /\ Pending(queue'[<<p, "sub">>], k) = Pending(queue[<<p, "sub">>], k)
    BY <1>2, <1>6, IssuedKernels
  <2> QED BY <1>4, <1>5, <1>6, <2>1
<1>8. Cardinality(RanOf(ran, k)) \in Nat /\ \A s : Pending(s, k) \in {0, 1}
  BY OutNat
<1>7. CASE Of(x, k)
  <2>0. half \in {"main", "sub"}
    BY DEF IssuedTo
  <2>1. p = m => /\ half = "main" => /\ Pending(queue'[<<p, "main">>], k) = 1
                                     /\ queue'[<<p, "sub">>] = queue[<<p, "sub">>]
                 /\ half = "sub" => /\ Pending(queue'[<<p, "sub">>], k) = 1
                                    /\ queue'[<<p, "main">>] = queue[<<p, "main">>]
    BY <1>2, <1>7, IssuedKernels
  <2>2. CASE p = m /\ half = "main" /\ Pending(MainQ(m), k) = 0
    <3>1. Pending(queue[<<p, "main">>], k) = 0
      BY <2>2 DEF MainQ
    <3>2. Pending(queue'[<<p, "main">>], k) = 1 /\ Pending(queue'[<<p, "sub">>], k) = Pending(queue[<<p, "sub">>], k)
      BY <2>1, <2>2
    <3>3. Out(k)' = Out(k) + 1
      BY <1>4, <1>8, <3>1, <3>2
    <3> QED BY <1>3, <1>5, <1>7, <2>2, <3>2, <3>3
  <2>3. CASE p = m /\ half = "sub" /\ Pending(SubQ(m), k) = 0
    <3>1. Pending(queue[<<p, "sub">>], k) = 0
      BY <2>3 DEF SubQ
    <3>2. Pending(queue'[<<p, "sub">>], k) = 1 /\ Pending(queue'[<<p, "main">>], k) = Pending(queue[<<p, "main">>], k)
      BY <2>1, <2>3
    <3>3. Out(k)' = Out(k) + 1
      BY <1>4, <1>8, <3>1, <3>2
    <3> QED BY <1>3, <1>7, <2>3, <3>3
  <2> QED BY <1>3, <1>7, <2>0, <2>2, <2>3
<1> QED BY <1>6, <1>7

\* A step that issues nothing leaves the counts.
LEMMA OutQuiet ==
    ASSUME NEW l, NEW r, Resolved(launches, launches', l, r), queue' = queue, ran' = ran,
           NEW k \in DOMAIN launches
    PROVE  /\ Out(k)' = Out(k)
           /\ Pending(SubQ(launches[k].stream), k)' = Pending(SubQ(launches[k].stream), k)
<1>1. launches'[k].stream = launches[k].stream
  BY SameParts
<1> QED BY <1>1 DEF Out, MainQ, SubQ

-----------------------------------------------------------------------------
(* Blocks                                                                  *)

\* A step of a caller keeps the blocks, which only the device has run.
LEMMA GoesBlocks ==
    ASSUME SplitTypeOK, CallersFit, BlocksFit, NEW c \in Caller, NEW l \in DOMAIN launches,
           Open(l), launches[l].by = c, NEW to, NEW r, Goes(c, l, to, r),
           \A k \in DOMAIN launches : Open(k) /\ launches[k].by = c => k = l,
           ran' = ran,
           \A k \in DOMAIN launches : k # l => \A p \in Nat :
              /\ KernelAt(MainQ(launches[k].stream)', p, k) => KernelAt(MainQ(launches[k].stream), p, k)
              /\ KernelAt(SubQ(launches[k].stream)', p, k) => KernelAt(SubQ(launches[k].stream), p, k),
           launches[l].kind # "mixAiCore" => \A i \in RanOf(ran, l), p \in Nat :
              /\ KernelAt(MainQ(launches[l].stream)', p, l) => ran[i].blocks # MainBlocks(launches[l])
              /\ KernelAt(SubQ(launches[l].stream)', p, l) => ran[i].blocks # SubBlocks(launches[l]),
           to = "launchAiv" => RanOf(ran, l) = {}
    PROVE  BlocksFit'
<1>a. /\ DOMAIN launches' = DOMAIN launches /\ stage'[c] = to
      /\ \A k \in DOMAIN launches : k # l => /\ launches'[k].res = launches[k].res
                                             /\ Open(k)' <=> Open(k)
                                             /\ Open(k) => At(k)' = At(k)
      /\ (Open(l)' <=> to # "idle") /\ At(l)' = to /\ launches'[l].res = r
  BY GoesStage
<1>b. \A k \in DOMAIN launches :
         /\ MainBlocks(launches'[k]) = MainBlocks(launches[k])
         /\ SubBlocks(launches'[k]) = SubBlocks(launches[k])
         /\ launches'[k].stream = launches[k].stream /\ (launches'[k].split <=> launches[k].split)
         /\ launches'[k].kind = launches[k].kind
  BY SameParts DEF Goes
<1> SUFFICES ASSUME NEW k \in DOMAIN launches, launches[k].kind # "mixAiCore"
             PROVE  /\ \A i \in RanOf(ran, k) :
                         \/ ran[i].blocks = MainBlocks(launches[k])
                         \/ launches[k].split /\ ran[i].blocks = SubBlocks(launches[k])
                    /\ \A i, j \in RanOf(ran, k) : i # j => ran[i].blocks # ran[j].blocks
                    /\ \A i \in RanOf(ran, k), p \in Nat :
                         /\ KernelAt(MainQ(launches[k].stream)', p, k) => ran[i].blocks # MainBlocks(launches[k])
                         /\ KernelAt(SubQ(launches[k].stream)', p, k) => ran[i].blocks # SubBlocks(launches[k])
                    /\ Open(k)' /\ At(k)' = "launchAiv" =>
                         \A i \in RanOf(ran, k) : ran[i].blocks # SubBlocks(launches[k])
  BY <1>a, <1>b DEF BlocksFit
<1>1. /\ \A i \in RanOf(ran, k) :
           \/ ran[i].blocks = MainBlocks(launches[k])
           \/ launches[k].split /\ ran[i].blocks = SubBlocks(launches[k])
      /\ \A i, j \in RanOf(ran, k) : i # j => ran[i].blocks # ran[j].blocks
  BY DEF BlocksFit
<1>2. /\ \A i \in RanOf(ran, k), p \in Nat :
           /\ KernelAt(MainQ(launches[k].stream), p, k) => ran[i].blocks # MainBlocks(launches[k])
           /\ KernelAt(SubQ(launches[k].stream), p, k) => ran[i].blocks # SubBlocks(launches[k])
      /\ Open(k) /\ At(k) = "launchAiv" =>
           \A i \in RanOf(ran, k) : ran[i].blocks # SubBlocks(launches[k])
  BY DEF BlocksFit
<1>3. \A i \in RanOf(ran, k), p \in Nat :
           /\ KernelAt(MainQ(launches[k].stream)', p, k) => ran[i].blocks # MainBlocks(launches[k])
           /\ KernelAt(SubQ(launches[k].stream)', p, k) => ran[i].blocks # SubBlocks(launches[k])
  BY <1>2
<1>4. Open(k)' /\ At(k)' = "launchAiv" =>
           \A i \in RanOf(ran, k) : ran[i].blocks # SubBlocks(launches[k])
  <2>1. CASE k = l
    BY <1>a, <2>1
  <2>2. CASE k # l
    BY <1>a, <1>2, <2>2
  <2> QED BY <2>1, <2>2
<1> QED BY <1>1, <1>3, <1>4
-----------------------------------------------------------------------------
(* Order                                                                   *)

\* Whom a launch must follow stays the same when the caller of l moves, unless
\* it takes the mutex.
LEMMA GoesAhead ==
    ASSUME SplitTypeOK, CallersFit, NEW c \in Caller, NEW l \in DOMAIN launches,
           Open(l), launches[l].by = c, NEW to, NEW r, Goes(c, l, to, r),
           \A k \in DOMAIN launches : Open(k) /\ launches[k].by = c => k = l,
           r = "ok" => At(l) \in Locked \/ ~ launches[l].split
    PROVE  /\ \A k, j \in DOMAIN launches : SplitPair(k, j)' <=> SplitPair(k, j)
           /\ \A k, j \in DOMAIN launches : Ahead(k, j)' =>
                 /\ k # l /\ launches[k].res = "ok" /\ k # j
                 /\ launches[k].stream = launches[j].stream
                 /\ Ahead(k, j) \/ (j = l /\ to \in Locked /\ At(l) \notin Locked)
<1>a. /\ DOMAIN launches' = DOMAIN launches /\ stage'[c] = to
      /\ \A k \in DOMAIN launches : k # l => /\ launches'[k].res = launches[k].res
                                             /\ Open(k)' <=> Open(k)
                                             /\ Open(k) => At(k)' = At(k)
      /\ (Open(l)' <=> to # "idle") /\ At(l)' = to /\ launches'[l].res = r
  BY GoesStage
<1>b. \A k \in DOMAIN launches :
         /\ launches'[k].stream = launches[k].stream /\ (launches'[k].split <=> launches[k].split)
         /\ launches'[k].after = launches[k].after
  BY SameParts DEF Goes
<1>1. \A k, j \in DOMAIN launches : SplitPair(k, j)' <=> SplitPair(k, j)
  BY <1>b DEF SplitPair
<1>2. ASSUME NEW k \in DOMAIN launches, NEW j \in DOMAIN launches, Ahead(k, j)'
      PROVE  /\ k # l /\ launches[k].res = "ok" /\ k # j
             /\ launches[k].stream = launches[j].stream
             /\ Ahead(k, j) \/ (j = l /\ to \in Locked /\ At(l) \notin Locked)
  <2>1. launches'[k].res = "ok"
        /\ (k \in launches[j].after \/ (SplitPair(k, j) /\ Open(j)' /\ At(j)' \in Locked))
    BY <1>2, <1>1, <1>b DEF Ahead
  <2>2. k \in launches[j].after => k # j /\ launches[k].stream = launches[j].stream /\ launches[k].res = "ok"
    BY DEF CallersFit
  <2>3. k # l
    <3> SUFFICES ASSUME k = l PROVE FALSE
      OBVIOUS
    <3>1. k \notin launches[j].after
      BY <2>2 DEF Open
    <3>2. SplitPair(l, j) /\ Open(j)' /\ At(j)' \in Locked /\ r = "ok" /\ j # l /\ launches[l].split
      BY <2>1, <3>1, <1>a DEF SplitPair
    <3>3. Open(j) /\ At(j) \in Locked
      BY <3>2, <1>a
    <3>4. At(l) \in Locked /\ launches[l].stream = launches[j].stream
      BY <3>2 DEF SplitPair
    <3> QED BY <3>2, <3>3, <3>4, Exclusive
  <2>4. launches[k].res = "ok"
    BY <1>a, <2>1, <2>3
  <2>5. k # j /\ launches[k].stream = launches[j].stream
    BY <2>1, <2>2 DEF SplitPair
  <2>6. Ahead(k, j) \/ (j = l /\ to \in Locked /\ At(l) \notin Locked)
    <3>1. CASE k \in launches[j].after
      BY <3>1, <2>4 DEF Ahead
    <3>2. CASE SplitPair(k, j) /\ Open(j)' /\ At(j)' \in Locked
      BY <3>2, <2>4, <1>a DEF Ahead
    <3> QED BY <2>1, <3>1, <3>2
  <2> QED BY <2>3, <2>4, <2>5, <2>6
<1> QED BY <1>1, <1>2

\* The order in which the caller of l issues its tasks.
Continues(l, m, to, r, half, x) ==
    /\ \A k \in Nat : Of(x, k) => k = l
    /\ \A p \in MainStream : p # m => recorded'[p] = recorded[p]
    /\ recorded' \in [MainStream -> [Event -> Nat]]
    /\ to \in Locked => At(l) \in Locked
    /\ At(l) \in Locked \/ (~ launches[l].split /\ recorded' = recorded)
    /\ Of(x, l) /\ half = "sub" => At(l) = "launchAiv"
    /\ to = "waitA" => half = "main" /\ x.do = "record" /\ x.n = recorded'[m]["A"]
    /\ to = "launchAic" => At(l) = "waitA" /\ half = "sub" /\ x.do = "wait" /\ x.n = recorded[m]["A"]
    /\ to = "launchAiv" => At(l) = "launchAic"
    /\ to = "waitB" => half = "sub" /\ x.do = "record" /\ x.n = recorded'[m]["B"]
    /\ r = "ok" => \/ ~ launches[l].split /\ half = "main"
                   \/ At(l) = "waitB" /\ half = "main" /\ x.do = "wait" /\ x.n = recorded[m]["B"]

\* The order is kept when the caller of l issues a task.
LEMMA OrderIssue ==
    ASSUME SplitTypeOK, CallersFit, KernelsFit, OrderFits, NEW c \in Caller, NEW l \in DOMAIN launches,
           Open(l), launches[l].by = c, NEW to, NEW r, Goes(c, l, to, r),
           \A k \in DOMAIN launches : Open(k) /\ launches[k].by = c => k = l,
           NEW m, m = launches[l].stream,
           NEW half, NEW x, IssuedTo(queue, queue', m, half, x), ran' = ran,
           Continues(l, m, to, r, half, x)
    PROVE  OrderFits'
<1>0. /\ \A k \in Nat : Of(x, k) => k = l
      /\ \A p \in MainStream : p # m => recorded'[p] = recorded[p]
      /\ recorded' \in [MainStream -> [Event -> Nat]]
      /\ to \in Locked => At(l) \in Locked
      /\ At(l) \in Locked \/ (~ launches[l].split /\ recorded' = recorded)
      /\ Of(x, l) /\ half = "sub" => At(l) = "launchAiv"
      /\ to = "waitA" => half = "main" /\ x.do = "record" /\ x.n = recorded'[m]["A"]
      /\ to = "launchAic" => At(l) = "waitA" /\ half = "sub" /\ x.do = "wait" /\ x.n = recorded[m]["A"]
      /\ to = "launchAiv" => At(l) = "launchAic"
      /\ to = "waitB" => half = "sub" /\ x.do = "record" /\ x.n = recorded'[m]["B"]
      /\ r = "ok" => \/ ~ launches[l].split /\ half = "main"
                     \/ At(l) = "waitB" /\ half = "main" /\ x.do = "wait" /\ x.n = recorded[m]["B"]
  BY DEF Continues
<1> USE <1>0
<1>a. /\ DOMAIN launches' = DOMAIN launches /\ stage'[c] = to
      /\ \A k \in DOMAIN launches : k # l => /\ launches'[k].res = launches[k].res
                                             /\ Open(k)' <=> Open(k)
                                             /\ Open(k) => At(k)' = At(k)
      /\ (Open(l)' <=> to # "idle") /\ At(l)' = to /\ launches'[l].res = r
  BY GoesStage
<1>b. \A k \in DOMAIN launches :
         /\ launches'[k].stream = launches[k].stream /\ (launches'[k].split <=> launches[k].split)
         /\ launches[k].stream \in MainStream /\ k \in Nat
  BY SameParts, LaunchTypes DEF Goes, SplitTypeOK
<1>c. /\ \A k, j \in DOMAIN launches : SplitPair(k, j)' <=> SplitPair(k, j)
      /\ \A k, j \in DOMAIN launches : Ahead(k, j)' =>
            k # l /\ launches[k].res = "ok" /\ launches[k].stream = launches[j].stream /\ Ahead(k, j)
  BY GoesAhead DEF Locked
<1>d. \A k \in DOMAIN launches : /\ MainQ(launches[k].stream)' = queue'[<<launches[k].stream, "main">>]
                                 /\ SubQ(launches[k].stream)' = queue'[<<launches[k].stream, "sub">>]
                                 /\ MainQ(launches[k].stream) = queue[<<launches[k].stream, "main">>]
                                 /\ SubQ(launches[k].stream) = queue[<<launches[k].stream, "sub">>]
  BY <1>b DEF MainQ, SubQ
<1>e. \A p \in MainStream : /\ recorded[p]["A"] \in Nat /\ recorded[p]["B"] \in Nat
                            /\ recorded'[p]["A"] \in Nat /\ recorded'[p]["B"] \in Nat
  BY DEF SplitTypeOK, Event
<1>f. m \in MainStream
  BY <1>b
\* Another launch whose caller is under a mutex sees the same records.
<1>g. \A k \in DOMAIN launches : k # l /\ Open(k) /\ At(k) \in Locked =>
         recorded'[launches[k].stream] = recorded[launches[k].stream]
  BY Exclusive, <1>b
\* Where k has returned, l follows it as before.
<1>h. ASSUME NEW k \in DOMAIN launches, NEW j \in DOMAIN launches, k # l, launches[k].res = "ok",
             launches[k].stream = launches[j].stream, InOrder(k, j),
             j = l => Ahead(k, l)
      PROVE  InOrder(k, j)'
  <2>1. PICK p \in MainStream : p = launches[j].stream
    BY <1>b
  <2>2. Ordered(queue[<<p, "main">>], queue[<<p, "sub">>], ran, k, j)
    BY <1>h, <2>1, <1>d DEF InOrder
  <2>3. ~ Of(x, k) /\ k \in Nat /\ j \in Nat
    BY <1>h, <1>b
  <2>4. Of(x, j) /\ half = "main" => Closed(queue[<<p, "main">>], queue[<<p, "sub">>], k)
    BY <1>h, <2>1, <1>d DEF OrderFits, ReturnFits
  <2>5. Of(x, j) /\ half = "sub" => Closed(queue[<<p, "sub">>], queue[<<p, "main">>], k)
    <3> SUFFICES ASSUME Of(x, j), half = "sub"
                 PROVE  Closed(queue[<<p, "sub">>], queue[<<p, "main">>], k)
      OBVIOUS
    <3>1. j = l
      BY <2>3
    <3>2. FollowsFits(k, l)
      BY <1>h, <3>1 DEF OrderFits
    <3> QED BY <2>1, <3>1, <3>2, <1>d DEF FollowsFits
  <2>6. Ordered(queue'[<<p, "main">>], queue'[<<p, "sub">>], ran, k, j)
    BY <2>2, <2>3, <2>4, <2>5, IssuedOrdered
  <2> QED BY <2>1, <2>6, <1>d DEF InOrder
<1>1. \A k, j \in DOMAIN launches : Ahead(k, j)' => FollowsFits(k, j)'
  <2> SUFFICES ASSUME NEW k \in DOMAIN launches, NEW j \in DOMAIN launches, Ahead(k, j)'
               PROVE  FollowsFits(k, j)'
    OBVIOUS
  <2>1. k # l /\ launches[k].res = "ok" /\ launches[k].stream = launches[j].stream /\ Ahead(k, j)
    BY <1>c
  <2>2. FollowsFits(k, j)
    BY <2>1 DEF OrderFits
  <2>3. InOrder(k, j)'
    BY <2>1, <2>2, <1>h DEF FollowsFits
  <2>4. PICK p \in MainStream : p = launches[j].stream
    BY <1>b
  <2>5. ~ Of(x, k) /\ k \in Nat
    BY <2>1, <1>b
  <2>6. /\ \A n \in Nat : Marked(queue[<<p, "main">>], k, n) => Marked(queue'[<<p, "main">>], k, n)
        /\ Closed(queue[<<p, "sub">>], queue[<<p, "main">>], k)
              => Closed(queue'[<<p, "sub">>], queue'[<<p, "main">>], k)
    BY <2>5, IssuedKeeps
  <2>7. Open(j)' /\ At(j)' = "waitA" => Marked(queue'[<<p, "main">>], k, recorded'[p]["A"])
    <3> SUFFICES ASSUME Open(j)', At(j)' = "waitA"
                 PROVE  Marked(queue'[<<p, "main">>], k, recorded'[p]["A"])
      OBVIOUS
    <3>1. CASE j = l
      <4>1. p = m /\ half = "main" /\ x.do = "record" /\ x.n = recorded'[m]["A"]
        BY <3>1, <2>4, <1>a
      <4>2. Pushed(queue[<<p, "main">>], x, queue'[<<p, "main">>])
        BY <4>1 DEF IssuedTo
      <4> QED BY <4>1, <4>2, <2>5, <1>e, MarkedNew
    <3>2. CASE j # l
      <4>1. Open(j) /\ At(j) = "waitA" /\ At(j) \in Locked
        BY <3>2, <1>a DEF Locked
      <4>2. Marked(queue[<<p, "main">>], k, recorded[p]["A"])
        BY <4>1, <2>2, <2>4, <1>d DEF FollowsFits
      <4>3. recorded'[p] = recorded[p]
        BY <4>1, <3>2, <2>4, <1>g
      <4> QED BY <4>2, <4>3, <2>6, <1>e
    <3> QED BY <3>1, <3>2
  <2>8. Open(j)' /\ At(j)' \in {"launchAic", "launchAiv"} => Closed(queue'[<<p, "sub">>], queue'[<<p, "main">>], k)
    <3> SUFFICES ASSUME Open(j)', At(j)' \in {"launchAic", "launchAiv"}
                 PROVE  Closed(queue'[<<p, "sub">>], queue'[<<p, "main">>], k)
      OBVIOUS
    <3>1. CASE j = l /\ to = "launchAic"
      <4>1. p = m /\ At(l) = "waitA" /\ half = "sub" /\ x.do = "wait" /\ x.n = recorded[m]["A"]
        BY <3>1, <2>4
      <4>2. Pushed(queue[<<p, "sub">>], x, queue'[<<p, "sub">>]) /\ queue'[<<p, "main">>] = queue[<<p, "main">>]
        BY <4>1, IssuedCases
      <4>3. Marked(queue[<<p, "main">>], k, recorded[p]["A"])
        BY <4>1, <3>1, <2>2, <2>4, <1>d DEF FollowsFits
      <4>4. Passed(queue'[<<p, "sub">>], queue[<<p, "main">>], k, Len(queue'[<<p, "sub">>]) + 1)
        BY <4>1, <4>2, <4>3, <2>5, <1>e, PassedNew
      <4> QED BY <4>2, <4>4 DEF Closed
    <3>2. CASE j # l \/ to # "launchAic"
      <4>1. Open(j) /\ At(j) \in {"launchAic", "launchAiv"}
        BY <3>2, <1>a
      <4>2. Closed(queue[<<p, "sub">>], queue[<<p, "main">>], k)
        BY <4>1, <2>2, <2>4, <1>d DEF FollowsFits
      <4> QED BY <4>2, <2>6
    <3> QED BY <3>1, <3>2
  <2> QED BY <2>3, <2>4, <2>7, <2>8, <1>b, <1>d DEF FollowsFits
<1>2. \A k, j \in DOMAIN launches :
         (SplitPair(k, j) /\ launches[k].res = "ok" /\ launches[j].res = "ok")' =>
             InOrder(k, j)' \/ InOrder(j, k)'
  <2> SUFFICES ASSUME NEW k \in DOMAIN launches, NEW j \in DOMAIN launches,
                      SplitPair(k, j), launches'[k].res = "ok", launches'[j].res = "ok"
               PROVE  InOrder(k, j)' \/ InOrder(j, k)'
    BY <1>c
  <2>0. /\ k # j /\ launches[k].stream = launches[j].stream /\ launches[k].split /\ launches[j].split
        /\ SplitPair(j, k)
    BY DEF SplitPair
  <2>1. CASE k # l /\ j # l
    <3>1. launches[k].res = "ok" /\ launches[j].res = "ok"
      BY <2>1, <1>a
    <3>2. InOrder(k, j) \/ InOrder(j, k)
      BY <3>1 DEF OrderFits
    <3> QED BY <2>0, <2>1, <3>1, <3>2, <1>h
  <2>2. CASE j = l
    <3>1. k # l /\ launches[k].res = "ok" /\ r = "ok"
      BY <2>0, <2>2, <1>a
    <3>2. Ahead(k, l)
      BY <2>0, <2>2, <3>1 DEF Ahead
    <3>3. InOrder(k, l)
      BY <3>2 DEF OrderFits, FollowsFits
    <3> QED BY <2>0, <2>2, <3>1, <3>2, <3>3, <1>h
  <2>3. CASE k = l
    <3>1. j # l /\ launches[j].res = "ok" /\ r = "ok"
      BY <2>0, <2>3, <1>a
    <3>2. Ahead(j, l)
      BY <2>0, <2>3, <3>1 DEF Ahead
    <3>3. InOrder(j, l)
      BY <3>2 DEF OrderFits, FollowsFits
    <3> QED BY <2>0, <2>3, <3>1, <3>2, <3>3, <1>h
  <2> QED BY <2>1, <2>2, <2>3
<1>3. \A k \in DOMAIN launches : ReturnFits(k)'
  <2> SUFFICES ASSUME NEW k \in DOMAIN launches PROVE ReturnFits(k)'
    OBVIOUS
  <2>1. PICK p \in MainStream : p = launches[k].stream
    BY <1>b
  <2>2. ReturnFits(k) /\ k \in Nat
    BY <1>b DEF OrderFits
  <2>3. CASE k # l
    <3>0. ~ Of(x, k)
      BY <2>2, <2>3
    <3>1. /\ \A n \in Nat : Marked(queue[<<p, "sub">>], k, n) => Marked(queue'[<<p, "sub">>], k, n)
          /\ Closed(queue[<<p, "main">>], queue[<<p, "sub">>], k)
                => Closed(queue'[<<p, "main">>], queue'[<<p, "sub">>], k)
      BY <2>2, <3>0, IssuedKeeps
    <3>2. launches'[k].res = "ok" => Closed(queue'[<<p, "main">>], queue'[<<p, "sub">>], k)
      BY <2>1, <2>2, <2>3, <3>1, <1>a, <1>d DEF ReturnFits
    <3>3. Open(k)' /\ At(k)' = "waitB" => Marked(queue'[<<p, "sub">>], k, recorded'[p]["B"])
      <4> SUFFICES ASSUME Open(k)', At(k)' = "waitB"
                   PROVE  Marked(queue'[<<p, "sub">>], k, recorded'[p]["B"])
        OBVIOUS
      <4>1. Open(k) /\ At(k) = "waitB" /\ At(k) \in Locked
        BY <2>3, <1>a DEF Locked
      <4>2. Marked(queue[<<p, "sub">>], k, recorded[p]["B"])
        BY <4>1, <2>1, <2>2, <1>d DEF ReturnFits
      <4>3. recorded'[p] = recorded[p]
        BY <4>1, <2>1, <2>3, <1>g
      <4> QED BY <4>2, <4>3, <3>1, <1>e
    <3> QED BY <3>2, <3>3, <2>1, <1>b, <1>d DEF ReturnFits
  <2>4. CASE k = l
    <3>0. p = m
      BY <2>1, <2>4
    <3>1. Open(l)' /\ At(l)' = "waitB" => Marked(queue'[<<p, "sub">>], l, recorded'[p]["B"])
      <4> SUFFICES ASSUME to = "waitB" PROVE Marked(queue'[<<p, "sub">>], l, recorded'[p]["B"])
        BY <1>a
      <4>1. Pushed(queue[<<p, "sub">>], x, queue'[<<p, "sub">>])
        BY <3>0 DEF IssuedTo
      <4> QED BY <4>1, <3>0, <2>2, <2>4, <1>e, MarkedNew
    <3>2. launches'[l].res = "ok" => Closed(queue'[<<p, "main">>], queue'[<<p, "sub">>], l)
      <4> SUFFICES ASSUME r = "ok" PROVE Closed(queue'[<<p, "main">>], queue'[<<p, "sub">>], l)
        BY <1>a
      <4>1. half = "main" /\ Pushed(queue[<<p, "main">>], x, queue'[<<p, "main">>])
            /\ queue'[<<p, "sub">>] = queue[<<p, "sub">>]
        BY <3>0, IssuedCases
      <4>2. CASE ~ launches[l].split
        <5>1. \A i \in Nat : ~ KernelAt(queue[<<p, "sub">>], i, l)
          BY <4>2, <2>2, <2>4 DEF KernelsFit, SubQ
        <5>2. \A i \in Nat : KernelAt(queue'[<<p, "main">>], i, l) => i < Len(queue'[<<p, "main">>]) + 1
          <6>1. Len(queue'[<<p, "main">>]) \in Nat
            BY <4>1, PushedPlaces
          <6> QED BY <6>1 DEF KernelAt
        <5> QED BY <4>1, <5>1, <5>2 DEF Closed, Passed
      <4>3. CASE At(l) = "waitB" /\ half = "main" /\ x.do = "wait" /\ x.n = recorded[m]["B"]
        <5>1. Marked(queue[<<p, "sub">>], l, recorded[p]["B"])
          BY <4>3, <2>1, <2>2, <2>4, <1>d DEF ReturnFits
        <5>2. Passed(queue'[<<p, "main">>], queue[<<p, "sub">>], l, Len(queue'[<<p, "main">>]) + 1)
          BY <4>1, <4>3, <5>1, <3>0, <2>2, <2>4, <1>e, PassedNew
        <5> QED BY <4>1, <5>2 DEF Closed
      <4> QED BY <4>2, <4>3
    <3> QED BY <3>1, <3>2, <2>1, <2>4, <1>b, <1>d DEF ReturnFits
  <2> QED BY <2>3, <2>4
<1> QED BY <1>a, <1>1, <1>2, <1>3 DEF OrderFits

\* The order is kept when the caller of l issues nothing.
LEMMA OrderQuiet ==
    ASSUME SplitTypeOK, CallersFit, OrderFits, NEW c \in Caller, NEW l \in DOMAIN launches,
           Open(l), launches[l].by = c, NEW to, NEW r, Goes(c, l, to, r),
           \A k \in DOMAIN launches : Open(k) /\ launches[k].by = c => k = l,
           queue' = queue, ran' = ran, recorded' = recorded,
           r # "ok", to \in {"lock", "recordA", "idle"}, to = "recordA" => Out(l) = 0
    PROVE  OrderFits'
<1>a. /\ DOMAIN launches' = DOMAIN launches /\ stage'[c] = to
      /\ \A k \in DOMAIN launches : k # l => /\ launches'[k].res = launches[k].res
                                             /\ Open(k)' <=> Open(k)
                                             /\ Open(k) => At(k)' = At(k)
      /\ (Open(l)' <=> to # "idle") /\ At(l)' = to /\ launches'[l].res = r
  BY GoesStage
<1>b. \A k \in DOMAIN launches : launches'[k].stream = launches[k].stream
  BY SameParts DEF Goes
<1>c. /\ \A k, j \in DOMAIN launches : SplitPair(k, j)' <=> SplitPair(k, j)
      /\ \A k, j \in DOMAIN launches : Ahead(k, j)' =>
            k # l /\ launches[k].res = "ok" /\ (Ahead(k, j) \/ (j = l /\ to \in Locked))
  BY GoesAhead
<1>d. \A k, j \in DOMAIN launches : InOrder(k, j)' <=> InOrder(k, j)
  BY <1>b DEF InOrder, MainQ, SubQ
<1>1. \A k, j \in DOMAIN launches : Ahead(k, j)' => FollowsFits(k, j)'
  <2> SUFFICES ASSUME NEW k \in DOMAIN launches, NEW j \in DOMAIN launches, Ahead(k, j)'
               PROVE  FollowsFits(k, j)'
    OBVIOUS
  <2>1. InOrder(k, j)
    <3>1. CASE Ahead(k, j)
      BY <3>1 DEF OrderFits, FollowsFits
    <3>2. CASE j = l /\ to \in Locked
      <4>1. Out(l) = 0
        BY <3>2 DEF Locked
      <4>2. /\ RanOf(ran, l) = {}
            /\ \A i \in Nat : /\ ~ KernelAt(MainQ(launches[l].stream), i, l)
                              /\ ~ KernelAt(SubQ(launches[l].stream), i, l)
        BY <4>1, OutNone
      <4>3. Ordered(MainQ(launches[l].stream), SubQ(launches[l].stream), ran, k, l)
        BY <4>2, OrderedNone
      <4> QED BY <3>2, <4>3 DEF InOrder
    <3> QED BY <1>c, <3>1, <3>2
  <2>2. CASE j = l
    BY <2>1, <2>2, <1>a, <1>d DEF FollowsFits
  <2>3. CASE j # l
    <3>1. FollowsFits(k, j)
      BY <2>3, <1>c DEF OrderFits
    <3> QED BY <3>1, <2>1, <2>3, <1>a, <1>b, <1>d DEF FollowsFits, MainQ, SubQ
  <2> QED BY <2>2, <2>3
<1>2. \A k, j \in DOMAIN launches :
         (SplitPair(k, j) /\ launches[k].res = "ok" /\ launches[j].res = "ok")' =>
             InOrder(k, j)' \/ InOrder(j, k)'
  <2> SUFFICES ASSUME NEW k \in DOMAIN launches, NEW j \in DOMAIN launches,
                      SplitPair(k, j), launches'[k].res = "ok", launches'[j].res = "ok"
               PROVE  InOrder(k, j)' \/ InOrder(j, k)'
    BY <1>c
  <2>1. launches[k].res = "ok" /\ launches[j].res = "ok"
    BY <1>a
  <2> QED BY <2>1, <1>d DEF OrderFits
<1>3. \A k \in DOMAIN launches : ReturnFits(k)'
  <2> SUFFICES ASSUME NEW k \in DOMAIN launches PROVE ReturnFits(k)'
    OBVIOUS
  <2>1. ReturnFits(k)
    BY DEF OrderFits
  <2>2. launches'[k].res = "ok" => launches[k].res = "ok"
    BY <1>a
  <2>3. Open(k)' /\ At(k)' = "waitB" => Open(k) /\ At(k) = "waitB"
    BY <1>a
  <2> QED BY <2>1, <2>2, <2>3, <1>b DEF ReturnFits, MainQ, SubQ
<1> QED BY <1>a, <1>1, <1>2, <1>3 DEF OrderFits

-----------------------------------------------------------------------------
(* The calls of a launch                                                   *)

\* The calls that issue a task: from which stage to which, with which result,
\* on which stream, and what they issue.
Call(now, to, r, half, do) ==
    \/ now = "plain" /\ to = "idle" /\ r = "ok" /\ half = "main" /\ do = "kernel"
    \/ now = "recordA" /\ to = "waitA" /\ r = "open" /\ half = "main" /\ do = "record"
    \/ now = "waitA" /\ to = "launchAic" /\ r = "open" /\ half = "sub" /\ do = "wait"
    \/ now = "launchAic" /\ to = "launchAiv" /\ r = "open" /\ half = "main" /\ do = "kernel"
    \/ now = "launchAiv" /\ to = "recordB" /\ r = "open" /\ half = "sub" /\ do = "kernel"
    \/ now = "recordB" /\ to = "waitB" /\ r = "open" /\ half = "sub" /\ do = "record"
    \/ now = "waitB" /\ to = "idle" /\ r = "ok" /\ half = "main" /\ do = "wait"

\* What the issued task says.
Says(x, l, m, half) ==
    /\ x \in Task
    /\ x.do = "kernel" =>
         /\ x.launch = l /\ recorded' = recorded
         /\ half = "main" => x.blocks = MainBlocks(launches[l])
         /\ half = "sub" => x.blocks = SubBlocks(launches[l])
    /\ x.do = "wait" =>
         /\ recorded' = recorded
         /\ half = "main" => x.event = "B" /\ x.n = recorded[m]["B"]
         /\ half = "sub" => x.event = "A" /\ x.n = recorded[m]["A"]
    /\ x.do = "record" =>
         /\ x.event = RecordEvent(half) /\ x.n = recorded[m][RecordEvent(half)] + 1
         /\ RecordedOne(m, RecordEvent(half))

\* l is the launch caller c is at work on.
Owns(c, l, m) ==
    /\ l \in DOMAIN launches /\ Open(l) /\ launches[l].by = c /\ l \in Nat
    /\ \A k \in DOMAIN launches : Open(k) /\ launches[k].by = c => k = l
    /\ m = launches[l].stream /\ m \in MainStream

\* A caller that is at work is at work on its latest launch.
LEMMA WorksOn ==
    ASSUME SplitInv, NEW c \in Caller, stage[c] # "idle"
    PROVE  \E l \in DOMAIN launches, m \in MainStream :
             l = Latest(c) /\ m = Main(c) /\ Owns(c, l, m) /\ At(l) = stage[c]
<1>1. PICK l \in DOMAIN launches :
             /\ l = Latest(c) /\ Open(l) /\ launches[l].by = c /\ l \in Nat
             /\ \A k \in DOMAIN launches : Open(k) /\ launches[k].by = c => k = l
  BY LatestIs DEF SplitInv
<1>2. launches[l].stream \in MainStream
  BY LaunchTypes DEF SplitInv, SplitTypeOK
<1>3. PICK m \in MainStream : m = launches[l].stream
  BY <1>2
<1> QED BY <1>1, <1>3 DEF Owns, Main, At

\* A return is a step to where the caller is idle.
LEMMA ReturnGoes ==
    ASSUME SplitInv, NEW c \in Caller, NEW l, NEW m, Owns(c, l, m), l = Latest(c),
           NEW r \in {"ok", "failed"}, Return(c, r)
    PROVE  Goes(c, l, "idle", r)
<1>1. launches \in Seq(LaunchRec)
  BY DEF SplitInv, SplitTypeOK
<1>2. launches' = [launches EXCEPT ![l].res = r] /\ stage' = [stage EXCEPT ![c] = "idle"]
  BY DEF Return
<1>3. launches' \in Seq(LaunchRec) /\ Resolved(launches, launches', l, r)
  BY <1>1, <1>2, ResolvedLaunches DEF Owns, Result
<1> QED BY <1>2, <1>3 DEF Goes, Stage, Result

\* A step that does not return.
LEMMA StaysGoes ==
    ASSUME SplitInv, NEW c \in Caller, NEW l, NEW m, Owns(c, l, m),
           NEW to \in {"lock"} \cup Locked, launches' = launches, stage' = [stage EXCEPT ![c] = to]
    PROVE  Goes(c, l, to, "open")
<1>1. launches \in Seq(LaunchRec)
  BY DEF SplitInv, SplitTypeOK
<1>2. Resolved(launches, launches', l, "open")
  BY Unresolved DEF Owns, Open
<1>3. to \in Stage /\ to # "idle"
  BY DEF Stage, Locked
<1> QED BY <1>1, <1>2, <1>3 DEF Goes, Result

\* Such a call keeps the invariant.
LEMMA CallKeeps ==
    ASSUME SplitInv, NEW c \in Caller, NEW l, NEW m, Owns(c, l, m), NEW to, NEW r, NEW half, NEW x,
           Goes(c, l, to, r), Call(At(l), to, r, half, x.do), Says(x, l, m, half),
           IssuedTo(queue, queue', m, half, x), ran' = ran, reached' = reached,
           streamMap' = streamMap, subLive' = subLive,
           streamMtx' = streamMtx \/ (At(l) = "waitB" /\ streamMtx' = [streamMtx EXCEPT ![m] = NoCaller])
    PROVE  SplitInv'
<1>a. SplitTypeOK /\ CallersFit /\ EventsFit /\ KernelsFit /\ CountsFit /\ BlocksFit /\ OrderFits
  BY DEF SplitInv
<1>b. /\ l \in DOMAIN launches /\ Open(l) /\ launches[l].by = c /\ l \in Nat
      /\ \A k \in DOMAIN launches : Open(k) /\ launches[k].by = c => k = l
      /\ m = launches[l].stream /\ m \in MainStream
  BY DEF Owns
<1>c. Resolved(launches, launches', l, r) /\ launches' \in Seq(LaunchRec)
  BY DEF Goes
<1>d. launches[l].split <=> At(l) # "plain"
  BY <1>a, <1>b DEF CallersFit
<1>e. \A k \in Nat : Of(x, k) => k = l /\ x.do = "kernel"
  BY DEF Of, Says
<1>f. x.do # "kernel" => ~ Of(x, l)
  BY DEF Of
<1>g. x.do = "kernel" => Of(x, l)
  BY DEF Of, Says
<1>h. half \in {"main", "sub"} /\ x.do \in {"kernel", "wait", "record"}
  BY DEF Call
<1>1. EventsFit' /\ recorded' \in [MainStream -> [Event -> Nat]]
      /\ (\A p \in MainStream : p # m => recorded'[p] = recorded[p])
      /\ (x.do = "record" => x.n = recorded'[m][RecordEvent(half)])
  <2>1. CASE x.do # "record"
    <3>1. recorded' = recorded
      BY <2>1, <1>h DEF Says
    <3>2. /\ x.do = "wait" /\ half = "main" => x.event = "B" /\ x.n = recorded[m]["B"]
          /\ x.do = "wait" /\ half = "sub" => x.event = "A" /\ x.n = recorded[m]["A"]
      BY DEF Says
    <3>3. EventsFit'
      BY <2>1, <3>1, <3>2, <1>a, EventsIssue
    <3> QED BY <2>1, <3>1, <3>3, <1>a DEF SplitTypeOK
  <2>2. CASE x.do = "record"
    <3>1. /\ x.event = RecordEvent(half) /\ x.n = recorded[m][RecordEvent(half)] + 1
          /\ RecordedOne(m, RecordEvent(half))
      BY <2>2 DEF Says
    <3>2. EventsFit' /\ recorded' \in [MainStream -> [Event -> Nat]] /\ recorded'[m][RecordEvent(half)] = x.n
          /\ \A p \in MainStream : p # m => recorded'[p] = recorded[p]
      BY <2>2, <3>1, <1>a, EventsRecord
    <3> QED BY <3>1, <3>2
  <2> QED BY <2>1, <2>2
<1>2. SplitTypeOK'
  <2>1. stage' \in [Caller -> Stage]
    BY <1>a, <1>b, GoesStage
  <2>2. queue' \in [Queues -> Seq(Task)]
    BY DEF IssuedTo
  <2>3. streamMtx' \in [MainStream -> Caller \cup {NoCaller}]
    BY <1>a DEF SplitTypeOK
  <2> QED BY <1>a, <1>c, <1>1, <2>1, <2>2, <2>3 DEF SplitTypeOK
<1>3. CallersFit'
  <2>1. (At(l) = "plain" => to = "idle") /\ to # "plain" /\ (to \in Locked \cup {"lock"} => At(l) \in Locked)
    BY DEF Call, Locked
  <2>2. At(l) \in Locked => m \in streamMap /\ streamMtx[m] = c
    BY <1>a, <1>b DEF CallersFit
  <2>3. to \in Locked => streamMtx' = streamMtx
    BY DEF Call, Locked
  <2>4. At(l) = "waitB" => streamMtx[m] = c
    BY <2>2 DEF Locked
  <2>5. /\ \A p \in MainStream : p # m => streamMtx'[p] = streamMtx[p]
        /\ streamMtx'[m] = streamMtx[m] \/ streamMtx[m] \in {NoCaller, c}
    BY <2>4, <1>a, <1>b DEF SplitTypeOK
  <2>6. "lock" \notin Locked
    BY DEF Locked
  <2> QED BY <1>a, <1>b, <2>1, <2>2, <2>3, <2>5, <2>6, GoesCallers
\* What was issued for l so far.
<1>4. /\ At(l) \in {"plain", "recordA", "waitA", "launchAic"} => Out(l) = 0
      /\ At(l) = "launchAiv" => Out(l) = 1 /\ Pending(SubQ(m), l) = 0
      /\ At(l) \in {"recordB", "waitB"} => Out(l) = 2
  BY <1>a, <1>b DEF CountsFit
<1>5. Out(l) = 0 => /\ RanOf(ran, l) = {}
                    /\ Pending(MainQ(m), l) = 0 /\ Pending(SubQ(m), l) = 0
  BY <1>a, <1>b, OutNone
<1>6. KernelsFit'
  <2>1. Fits(x, m, half)
    <3>1. x.do = "kernel" => At(l) \in {"plain", "launchAic", "launchAiv"}
                             /\ (half = "main" => At(l) \in {"plain", "launchAic"})
                             /\ (half = "sub" => At(l) = "launchAiv")
      BY DEF Call
    <3> QED BY <3>1, <1>4, <1>5, <1>b, <1>d DEF Fits, Says
  <2> QED BY <2>1, <1>a, <1>c, KernelsIssue
<1>7. \A k \in DOMAIN launches : k # l => ~ Of(x, k) /\ k \in Nat
  BY <1>e, <1>a, LaunchTypes DEF SplitTypeOK
<1>8. CountsFit'
  <2>1. \A k \in DOMAIN launches : k # l =>
              Out(k)' = Out(k) /\ Pending(SubQ(launches[k].stream), k)' = Pending(SubQ(launches[k].stream), k)
    BY <1>7, <1>a, <1>c, OutIssue
  <2>2. ~ Of(x, l) => Out(l)' = Out(l)
    BY <1>a, <1>b, <1>c, OutIssue
  <2>3. Of(x, l) /\ half = "main" /\ Out(l) = 0 =>
           Out(l)' = 1 /\ Pending(SubQ(launches[l].stream), l)' = 0
    BY <1>5, <1>a, <1>b, <1>c, OutIssue
  <2>4. Of(x, l) /\ half = "sub" /\ Out(l) = 1 /\ Pending(SubQ(m), l) = 0 => Out(l)' = 2
    BY <1>a, <1>b, <1>c, OutIssue
  <2>5. Parts(l) = IF At(l) = "plain" THEN 1 ELSE 2
    BY <1>d DEF Parts
  <2>6. /\ r = "ok" => Out(l)' = Parts(l)
        /\ to \in {"plain", "get", "lock", "recordA", "waitA", "launchAic"} => Out(l)' = 0
        /\ to = "launchAiv" => Out(l)' = 1 /\ Pending(SubQ(launches[l].stream), l)' = 0
        /\ to \in {"recordB", "waitB"} => Out(l)' = 2
    BY <2>2, <2>3, <2>4, <2>5, <1>4, <1>f, <1>g DEF Call
  <2> QED BY <2>1, <2>6, <1>a, <1>b, GoesCounts
<1>9. BlocksFit'
  <2>0. \A k \in DOMAIN launches : launches'[k].stream = launches[k].stream /\ launches[k].stream \in MainStream
    BY <1>a, <1>c, SameParts, LaunchTypes DEF SplitTypeOK
  <2>1. \A k \in DOMAIN launches : k # l => \A p \in Nat :
              /\ KernelAt(MainQ(launches[k].stream)', p, k) => KernelAt(MainQ(launches[k].stream), p, k)
              /\ KernelAt(SubQ(launches[k].stream)', p, k) => KernelAt(SubQ(launches[k].stream), p, k)
    BY <2>0, <1>7, IssuedKernels DEF MainQ, SubQ
  <2>2. to = "launchAiv" => RanOf(ran, l) = {}
    BY <1>4, <1>5 DEF Call
  <2>3. launches[l].kind # "mixAiCore" => \A i \in RanOf(ran, l), p \in Nat :
              /\ KernelAt(MainQ(launches[l].stream)', p, l) => ran[i].blocks # MainBlocks(launches[l])
              /\ KernelAt(SubQ(launches[l].stream)', p, l) => ran[i].blocks # SubBlocks(launches[l])
    <3> SUFFICES ASSUME launches[l].kind # "mixAiCore", NEW i \in RanOf(ran, l), NEW p \in Nat
                 PROVE  /\ KernelAt(queue'[<<m, "main">>], p, l) => ran[i].blocks # MainBlocks(launches[l])
                        /\ KernelAt(queue'[<<m, "sub">>], p, l) => ran[i].blocks # SubBlocks(launches[l])
      BY <1>b, <2>0 DEF MainQ, SubQ
    <3>1. /\ KernelAt(queue[<<m, "main">>], p, l) => ran[i].blocks # MainBlocks(launches[l])
          /\ KernelAt(queue[<<m, "sub">>], p, l) => ran[i].blocks # SubBlocks(launches[l])
      BY <1>a, <1>b DEF BlocksFit, MainQ, SubQ
    <3>2. CASE ~ Of(x, l)
      BY <3>1, <3>2, <1>b, IssuedKernels
    <3>3. CASE Of(x, l)
      <4>1. Out(l) # 0
        BY <1>5
      <4>2. At(l) = "launchAiv" /\ half = "sub"
        BY <3>3, <4>1, <1>4, <1>e, <1>b DEF Call
      <4>3. ran[i].blocks # SubBlocks(launches[l])
        BY <4>2, <1>a, <1>b DEF BlocksFit
      <4>4. queue'[<<m, "main">>] = queue[<<m, "main">>]
        <5>1. <<m, "main">> \in Queues /\ <<m, "main">> # <<m, half>>
          BY <4>2, <1>b DEF Queues
        <5> QED BY <5>1 DEF IssuedTo
      <4> QED BY <3>1, <4>3, <4>4
    <3> QED BY <3>2, <3>3
  <2> QED BY <2>1, <2>2, <2>3, <1>a, <1>b, GoesBlocks
<1>10. OrderFits'
  <2>1. \A k \in Nat : Of(x, k) => k = l
    BY <1>e
  <2>2. to \in Locked => At(l) \in Locked
    BY DEF Call, Locked
  <2>3. At(l) \in Locked \/ (~ launches[l].split /\ recorded' = recorded)
    BY <1>d DEF Call, Locked, Says
  <2>4. Of(x, l) /\ half = "sub" => At(l) = "launchAiv"
    BY <1>e, <1>b DEF Call
  <2>5. to = "waitA" => half = "main" /\ x.do = "record" /\ x.n = recorded'[m]["A"]
    BY <1>1 DEF Call, RecordEvent
  <2>6. to = "launchAic" => At(l) = "waitA" /\ half = "sub" /\ x.do = "wait" /\ x.n = recorded[m]["A"]
    BY DEF Call, Says
  <2>7. to = "launchAiv" => At(l) = "launchAic"
    BY DEF Call
  <2>8. to = "waitB" => half = "sub" /\ x.do = "record" /\ x.n = recorded'[m]["B"]
    BY <1>1 DEF Call, RecordEvent
  <2>9. r = "ok" => \/ ~ launches[l].split /\ half = "main"
                    \/ At(l) = "waitB" /\ half = "main" /\ x.do = "wait" /\ x.n = recorded[m]["B"]
    BY <1>d DEF Call, Says
  <2>10. /\ \A p \in MainStream : p # m => recorded'[p] = recorded[p]
         /\ recorded' \in [MainStream -> [Event -> Nat]]
    BY <1>1
  <2>11. Continues(l, m, to, r, half, x)
    BY <2>1, <2>2, <2>3, <2>4, <2>5, <2>6, <2>7, <2>8, <2>9, <2>10 DEF Continues
  <2> QED BY <1>a, <1>b, <2>11, OrderIssue
<1> QED BY <1>1, <1>2, <1>3, <1>6, <1>8, <1>9, <1>10 DEF SplitInv

\* A set of consecutive numbers.
LEMMA PartsAreNumbers ==
    ASSUME NEW L, L.kind \in {"composite", "mixAiv", "mixAiCore"}
    PROVE  /\ MainBlocks(L) \in SUBSET Int /\ SubBlocks(L) \in SUBSET Int
           /\ Halves(L.kind, L.dim)["main"] \in SUBSET Int
<1>1. \A a, n : Blocks(a, n) \in SUBSET Int
  BY DEF Blocks
<1>2. \A a, d : HalvesAt(a, d).main \in SUBSET Int /\ HalvesAt(a, d).sub \in SUBSET Int
  BY <1>1 DEF HalvesAt
<1>3. CASE L.kind = "composite"
  <2>1. Halves(L.kind, L.dim) = HalvesAt(NeedAic(L.dim), L.dim)
    BY <1>3 DEF Halves
  <2> QED BY <1>1, <1>2, <2>1 DEF MainBlocks, SubBlocks
<1>4. CASE L.kind = "mixAiv"
  <2>1. Halves(L.kind, L.dim) = HalvesAt(MixAivAic(L.dim), L.dim)
    BY <1>4 DEF Halves
  <2> QED BY <1>1, <1>2, <2>1 DEF MainBlocks, SubBlocks
<1>5. CASE L.kind = "mixAiCore"
  <2>1. Halves(L.kind, L.dim) = [main |-> Blocks(0, L.dim), sub |-> Blocks(0, AivNum)]
    BY <1>5 DEF Halves
  <2>2. Halves(L.kind, L.dim).main = Blocks(0, L.dim) /\ Halves(L.kind, L.dim).sub = Blocks(0, AivNum)
    BY <2>1
  <2> QED BY <1>1, <2>2 DEF MainBlocks, SubBlocks
<1> QED BY <1>3, <1>4, <1>5

\* The launch on one stream.
LEMMA LaunchPlainKeeps == ASSUME SplitInv, NEW c \in Caller, LaunchPlain(c) PROVE SplitInv'
<1>0. stage[c] = "plain"
  BY DEF LaunchPlain
<1>1. PICK l \in DOMAIN launches, m \in MainStream :
           l = Latest(c) /\ m = Main(c) /\ Owns(c, l, m) /\ At(l) = stage[c]
  BY <1>0, WorksOn
<1>2. Goes(c, l, "idle", "ok")
  BY <1>1, ReturnGoes DEF LaunchPlain
<1>3. ~ launches[l].split
  BY <1>0, <1>1 DEF SplitInv, CallersFit, Owns
<1>4. PICK bs : bs = Blocks(0, launches[l].dim)
  OBVIOUS
<1>5. bs = MainBlocks(launches[l]) /\ bs \in SUBSET Int
  <2>1. launches[l].kind \in {"composite", "mixAiv", "mixAiCore"}
    BY LaunchTypes DEF SplitInv, SplitTypeOK
  <2>2. bs = MainBlocks(launches[l])
    BY <1>3, <1>4 DEF MainBlocks
  <2> QED BY <2>1, <2>2, PartsAreNumbers
<1>6. PICK x : x = [do |-> "kernel", launch |-> l, blocks |-> bs]
  OBVIOUS
<1>7. x \in Task /\ x.do = "kernel" /\ x.launch = l /\ x.blocks = bs
  BY <1>1, <1>5, <1>6 DEF Task, Owns
<1>8. queue' = [queue EXCEPT ![<<m, "main">>] = Append(@, x)]
  BY <1>1, <1>4, <1>6 DEF LaunchPlain, Kernel
<1>9. IssuedTo(queue, queue', m, "main", x)
  BY <1>7, <1>8, IssueShape DEF SplitInv, SplitTypeOK
<1>10. ran' = ran /\ reached' = reached /\ streamMap' = streamMap /\ subLive' = subLive
       /\ streamMtx' = streamMtx /\ recorded' = recorded
  BY DEF LaunchPlain
<1>11. Says(x, l, m, "main")
  BY <1>5, <1>7, <1>10 DEF Says
<1>12. Call(At(l), "idle", "ok", "main", x.do)
  BY <1>0, <1>1, <1>7 DEF Call
<1> QED BY <1>1, <1>2, <1>9, <1>10, <1>11, <1>12, CallKeeps

\* aclrtRecordEvent.
LEMMA RecordKeeps ==
    ASSUME SplitInv, NEW c \in Caller, NEW e, NEW half, Record(c, e, half),
           (e = "A" /\ half = "main") \/ (e = "B" /\ half = "sub")
    PROVE  SplitInv'
<1>0. stage[c] = IF e = "A" THEN "recordA" ELSE "recordB"
  BY DEF Record
<1>1. PICK l \in DOMAIN launches, m \in MainStream :
           l = Latest(c) /\ m = Main(c) /\ Owns(c, l, m) /\ At(l) = stage[c]
  BY <1>0, WorksOn
<1>2. PICK to : to = IF e = "A" THEN "waitA" ELSE "waitB"
  OBVIOUS
<1>3. Goes(c, l, to, "open")
  <2>1. to \in {"lock"} \cup Locked
    BY <1>2 DEF Locked
  <2>2. launches' = launches /\ stage' = [stage EXCEPT ![c] = to]
    BY <1>2 DEF Record
  <2> QED BY <1>1, <2>1, <2>2, StaysGoes
<1>4. PICK n : n = recorded[m][e] + 1
  OBVIOUS
<1>5. n \in Nat /\ e \in Event /\ e = RecordEvent(half)
  BY <1>4 DEF SplitInv, SplitTypeOK, Event, RecordEvent
<1>6. PICK x : x = [do |-> "record", event |-> e, n |-> n]
  OBVIOUS
<1>7. x \in Task /\ x.do = "record" /\ x.event = e /\ x.n = n
  BY <1>5, <1>6 DEF Task
<1>8. queue' = [queue EXCEPT ![<<m, half>>] = Append(@, x)]
  BY <1>1, <1>4, <1>6 DEF Record, Issue
<1>9. IssuedTo(queue, queue', m, half, x)
  BY <1>7, <1>8, IssueShape DEF SplitInv, SplitTypeOK
<1>10. ran' = ran /\ reached' = reached /\ streamMap' = streamMap /\ subLive' = subLive
       /\ streamMtx' = streamMtx
  BY DEF Record
<1>11. Says(x, l, m, half)
  <2>1. RecordedOne(m, e)
    BY <1>1 DEF Record, RecordedOne
  <2> QED BY <1>4, <1>5, <1>7, <2>1 DEF Says
<1>12. Call(At(l), to, "open", half, x.do)
  BY <1>0, <1>1, <1>2, <1>7 DEF Call
<1> QED BY <1>1, <1>3, <1>9, <1>10, <1>11, <1>12, CallKeeps

\* aclrtStreamWaitEvent on the second stream.
LEMMA WaitAKeeps == ASSUME SplitInv, NEW c \in Caller, WaitA(c) PROVE SplitInv'
<1>0. stage[c] = "waitA"
  BY DEF WaitA
<1>1. PICK l \in DOMAIN launches, m \in MainStream :
           l = Latest(c) /\ m = Main(c) /\ Owns(c, l, m) /\ At(l) = stage[c]
  BY <1>0, WorksOn
<1>3. Goes(c, l, "launchAic", "open")
  <2>1. "launchAic" \in {"lock"} \cup Locked
    BY DEF Locked
  <2>2. launches' = launches /\ stage' = [stage EXCEPT ![c] = "launchAic"]
    BY DEF WaitA
  <2> QED BY <1>1, <2>1, <2>2, StaysGoes
<1>4. PICK n : n = recorded[m]["A"]
  OBVIOUS
<1>5. n \in Nat /\ "A" \in Event
  BY <1>4 DEF SplitInv, SplitTypeOK, Event
<1>6. PICK x : x = [do |-> "wait", event |-> "A", n |-> n]
  OBVIOUS
<1>7. x \in Task /\ x.do = "wait" /\ x.event = "A" /\ x.n = n
  BY <1>5, <1>6 DEF Task
<1>8. queue' = [queue EXCEPT ![<<m, "sub">>] = Append(@, x)]
  BY <1>1, <1>4, <1>6 DEF WaitA, Wait, Issue
<1>9. IssuedTo(queue, queue', m, "sub", x)
  BY <1>7, <1>8, IssueShape DEF SplitInv, SplitTypeOK
<1>10. ran' = ran /\ reached' = reached /\ streamMap' = streamMap /\ subLive' = subLive
       /\ streamMtx' = streamMtx /\ recorded' = recorded
  BY DEF WaitA
<1>11. Says(x, l, m, "sub")
  BY <1>4, <1>7, <1>10 DEF Says
<1>12. Call(At(l), "launchAic", "open", "sub", x.do)
  BY <1>0, <1>1, <1>7 DEF Call
<1> QED BY <1>1, <1>3, <1>9, <1>10, <1>11, <1>12, CallKeeps

\* The launch of a half.
LEMMA LaunchHalfKeeps ==
    ASSUME SplitInv, NEW c \in Caller, NEW half \in {"main", "sub"}, LaunchHalf(c, half)
    PROVE  SplitInv'
<1>0. stage[c] = IF half = "main" THEN "launchAic" ELSE "launchAiv"
  BY DEF LaunchHalf
<1>1. PICK l \in DOMAIN launches, m \in MainStream :
           l = Latest(c) /\ m = Main(c) /\ Owns(c, l, m) /\ At(l) = stage[c]
  BY <1>0, WorksOn
<1>2. PICK to : to = IF half = "main" THEN "launchAiv" ELSE "recordB"
  OBVIOUS
<1>3. Goes(c, l, to, "open")
  <2>1. to \in {"lock"} \cup Locked
    BY <1>2 DEF Locked
  <2>2. launches' = launches /\ stage' = [stage EXCEPT ![c] = to]
    BY <1>2 DEF LaunchHalf
  <2> QED BY <1>1, <2>1, <2>2, StaysGoes
<1>4. PICK bs : bs = Halves(launches[l].kind, launches[l].dim)[half]
  OBVIOUS
<1>a. launches[l].split
  BY <1>0, <1>1 DEF SplitInv, CallersFit, Owns
<1>5. /\ half = "main" => bs = MainBlocks(launches[l])
      /\ half = "sub" => bs = SubBlocks(launches[l])
      /\ bs \in SUBSET Int
  <2>1. launches[l].kind \in {"composite", "mixAiv", "mixAiCore"}
    BY LaunchTypes DEF SplitInv, SplitTypeOK
  <2>2. half = "main" => bs = MainBlocks(launches[l])
    BY <1>4, <1>a DEF MainBlocks
  <2>3. half = "sub" => bs = SubBlocks(launches[l])
    BY <1>4, <1>a DEF SubBlocks
  <2> QED BY <2>1, <2>2, <2>3, PartsAreNumbers
<1>6. PICK x : x = [do |-> "kernel", launch |-> l, blocks |-> bs]
  OBVIOUS
<1>7. x \in Task /\ x.do = "kernel" /\ x.launch = l /\ x.blocks = bs
  BY <1>1, <1>5, <1>6 DEF Task, Owns
<1>8. queue' = [queue EXCEPT ![<<m, half>>] = Append(@, x)]
  BY <1>1, <1>4, <1>6 DEF LaunchHalf, Kernel, Issue
<1>9. IssuedTo(queue, queue', m, half, x)
  BY <1>7, <1>8, IssueShape DEF SplitInv, SplitTypeOK
<1>10. ran' = ran /\ reached' = reached /\ streamMap' = streamMap /\ subLive' = subLive
       /\ streamMtx' = streamMtx /\ recorded' = recorded
  BY DEF LaunchHalf
<1>11. Says(x, l, m, half)
  BY <1>5, <1>7, <1>10 DEF Says
<1>12. Call(At(l), to, "open", half, x.do)
  BY <1>0, <1>1, <1>2, <1>7 DEF Call
<1> QED BY <1>1, <1>3, <1>9, <1>10, <1>11, <1>12, CallKeeps

\* aclrtStreamWaitEvent on the caller's stream, and the return.
LEMMA WaitBKeeps == ASSUME SplitInv, NEW c \in Caller, WaitB(c) PROVE SplitInv'
<1>0. stage[c] = "waitB"
  BY DEF WaitB
<1>1. PICK l \in DOMAIN launches, m \in MainStream :
           l = Latest(c) /\ m = Main(c) /\ Owns(c, l, m) /\ At(l) = stage[c]
  BY <1>0, WorksOn
<1>3. Goes(c, l, "idle", "ok")
  BY <1>1, ReturnGoes DEF WaitB
<1>4. PICK n : n = recorded[m]["B"]
  OBVIOUS
<1>5. n \in Nat /\ "B" \in Event
  BY <1>4 DEF SplitInv, SplitTypeOK, Event
<1>6. PICK x : x = [do |-> "wait", event |-> "B", n |-> n]
  OBVIOUS
<1>7. x \in Task /\ x.do = "wait" /\ x.event = "B" /\ x.n = n
  BY <1>5, <1>6 DEF Task
<1>8. queue' = [queue EXCEPT ![<<m, "main">>] = Append(@, x)]
  BY <1>1, <1>4, <1>6 DEF WaitB, Wait, Issue
<1>9. IssuedTo(queue, queue', m, "main", x)
  BY <1>7, <1>8, IssueShape DEF SplitInv, SplitTypeOK
<1>10. ran' = ran /\ reached' = reached /\ streamMap' = streamMap /\ subLive' = subLive
       /\ recorded' = recorded /\ streamMtx' = [streamMtx EXCEPT ![m] = NoCaller]
  BY <1>1 DEF WaitB, Unlock
<1>11. Says(x, l, m, "main")
  BY <1>4, <1>7, <1>10 DEF Says
<1>12. Call(At(l), "idle", "ok", "main", x.do)
  BY <1>0, <1>1, <1>7 DEF Call
<1> QED BY <1>0, <1>1, <1>3, <1>9, <1>10, <1>11, <1>12, CallKeeps
-----------------------------------------------------------------------------
\* The mutex of stream m is given to w.
MutexIs(m, w) == streamMtx' = [streamMtx EXCEPT ![m] = w]

\* Calls that issue nothing.
LEMMA QuietKeeps ==
    ASSUME SplitInv, NEW c \in Caller, NEW l, NEW m, Owns(c, l, m), NEW to, NEW r,
           Goes(c, l, to, r), queue' = queue, ran' = ran, recorded' = recorded, reached' = reached,
           r # "ok", to \in {"lock", "recordA", "idle"},
           to # "idle" => At(l) \in {"get", "lock"},
           streamMap \subseteq streamMap', streamMap' \subseteq MainStream, subLive' = streamMap',
           to # "idle" => m \in streamMap',
           NEW w \in Caller \cup {NoCaller}, MutexIs(m, w),
           to = "recordA" => w = c /\ streamMtx[m] = NoCaller,
           w = streamMtx[m] \/ streamMtx[m] \in {NoCaller, c}
    PROVE  SplitInv'
<1>a. SplitTypeOK /\ CallersFit /\ EventsFit /\ KernelsFit /\ CountsFit /\ BlocksFit /\ OrderFits
  BY DEF SplitInv
<1>b. /\ l \in DOMAIN launches /\ Open(l) /\ launches[l].by = c /\ l \in Nat
      /\ \A k \in DOMAIN launches : Open(k) /\ launches[k].by = c => k = l
      /\ m = launches[l].stream /\ m \in MainStream
  BY DEF Owns
<1>c. Resolved(launches, launches', l, r) /\ launches' \in Seq(LaunchRec)
  BY DEF Goes
<1>1. /\ streamMtx' \in [MainStream -> Caller \cup {NoCaller}] /\ streamMtx'[m] = w
      /\ \A p \in MainStream : p # m => streamMtx'[p] = streamMtx[p]
  BY <1>a, <1>b DEF SplitTypeOK, MutexIs
<1>2. SplitTypeOK'
  <2>1. stage' \in [Caller -> Stage]
    BY <1>a, <1>b, GoesStage
  <2> QED BY <1>a, <1>c, <1>1, <2>1 DEF SplitTypeOK
<1>3. CallersFit'
  <2>1. (At(l) = "plain" => to = "idle") /\ to # "plain"
    OBVIOUS
  <2>2. (to \in Locked \cup {"lock"} => m \in streamMap') /\ (to \in Locked => streamMtx'[m] = c)
    BY <1>1 DEF Locked
  <2>3. streamMtx'[m] = streamMtx[m] \/ streamMtx[m] \in {NoCaller, c}
    BY <1>1
  <2> QED BY <1>a, <1>b, <1>1, <2>1, <2>2, <2>3, GoesCallers
<1>4. EventsFit'
  BY <1>a DEF EventsFit, MainQ, SubQ
<1>5. KernelsFit'
  BY <1>a, <1>c, KernelsQuiet
<1>6. to # "idle" => Out(l) = 0
  BY <1>a, <1>b DEF CountsFit
<1>7. CountsFit'
  <2>1. \A k \in DOMAIN launches :
          Out(k)' = Out(k) /\ Pending(SubQ(launches[k].stream), k)' = Pending(SubQ(launches[k].stream), k)
    BY <1>c, OutQuiet
  <2> QED BY <1>a, <1>b, <1>6, <2>1, GoesCounts
<1>8. BlocksFit'
  <2>0. \A k \in DOMAIN launches : launches'[k].stream = launches[k].stream
    BY <1>c, SameParts
  <2>1. \A k \in DOMAIN launches : /\ MainQ(launches[k].stream)' = MainQ(launches[k].stream)
                                   /\ SubQ(launches[k].stream)' = SubQ(launches[k].stream)
    BY <2>0 DEF MainQ, SubQ
  <2>2. launches[l].kind # "mixAiCore" => \A i \in RanOf(ran, l), p \in Nat :
              /\ KernelAt(MainQ(launches[l].stream), p, l) => ran[i].blocks # MainBlocks(launches[l])
              /\ KernelAt(SubQ(launches[l].stream), p, l) => ran[i].blocks # SubBlocks(launches[l])
    BY <1>a, <1>b DEF BlocksFit
  <2> QED BY <1>a, <1>b, <2>1, <2>2, GoesBlocks
<1>9. OrderFits'
  BY <1>a, <1>b, <1>6, OrderQuiet
<1> QED BY <1>2, <1>3, <1>4, <1>5, <1>7, <1>8, <1>9 DEF SplitInv

\* The mutex is left alone.
LEMMA SameMutex ==
    ASSUME SplitTypeOK, NEW m \in MainStream, streamMtx' = streamMtx
    PROVE  \E w \in Caller \cup {NoCaller} : w = streamMtx[m] /\ MutexIs(m, w)
  BY DEF SplitTypeOK, MutexIs

\* NnopbaseExecutorGetStreamAndEvent.
LEMMA GetStreamAndEventKeeps == ASSUME SplitInv, NEW c \in Caller, GetStreamAndEvent(c) PROVE SplitInv'
<1>0. stage[c] = "get"
  BY DEF GetStreamAndEvent
<1>1. PICK l \in DOMAIN launches, m \in MainStream :
           l = Latest(c) /\ m = Main(c) /\ Owns(c, l, m) /\ At(l) = stage[c]
  BY <1>0, WorksOn
<1>2. /\ queue' = queue /\ ran' = ran /\ recorded' = recorded /\ reached' = reached
      /\ streamMtx' = streamMtx /\ streamMap' = streamMap \cup {m}
      /\ subLive' = IF m \in streamMap THEN subLive ELSE subLive \cup {m}
  BY <1>1 DEF GetStreamAndEvent
<1>3. /\ streamMap \subseteq streamMap' /\ streamMap' \subseteq MainStream /\ subLive' = streamMap'
      /\ m \in streamMap'
  BY <1>2 DEF SplitInv, SplitTypeOK
<1>4. PICK w \in Caller \cup {NoCaller} : w = streamMtx[m] /\ MutexIs(m, w)
  BY <1>2, SameMutex DEF SplitInv
<1>5. CASE stage' = [stage EXCEPT ![c] = "lock"] /\ launches' = launches
  <2>1. Goes(c, l, "lock", "open")
    BY <1>1, <1>5, StaysGoes
  <2> QED BY <1>0, <1>1, <1>2, <1>3, <1>4, <2>1, QuietKeeps
<1>6. CASE Return(c, "failed")
  <2>1. Goes(c, l, "idle", "failed")
    BY <1>1, <1>6, ReturnGoes
  <2> QED BY <1>0, <1>1, <1>2, <1>3, <1>4, <2>1, QuietKeeps
<1> QED BY <1>5, <1>6 DEF GetStreamAndEvent

\* The stream's mutex is taken: every split launch there has returned, so what is
\* issued from now on runs after it.
LEMMA LockKeeps == ASSUME SplitInv, NEW c \in Caller, Lock(c) PROVE SplitInv'
<1>0. stage[c] = "lock"
  BY DEF Lock
<1>1. PICK l \in DOMAIN launches, m \in MainStream :
           l = Latest(c) /\ m = Main(c) /\ Owns(c, l, m) /\ At(l) = stage[c]
  BY <1>0, WorksOn
<1>2. /\ queue' = queue /\ ran' = ran /\ recorded' = recorded /\ reached' = reached
      /\ streamMtx[m] = NoCaller /\ MutexIs(m, c)
      /\ streamMap' = streamMap /\ subLive' = subLive
      /\ launches' = launches /\ stage' = [stage EXCEPT ![c] = "recordA"]
  BY <1>1 DEF Lock, Free, MutexIs
<1>3. m \in streamMap /\ subLive = streamMap /\ streamMap \subseteq MainStream
  BY <1>0, <1>1 DEF SplitInv, SplitTypeOK, CallersFit, Owns
<1>4. Goes(c, l, "recordA", "open")
  BY <1>1, <1>2, StaysGoes DEF Locked
<1> QED BY <1>0, <1>1, <1>2, <1>3, <1>4, QuietKeeps

\* A call of the runtime fails.
LEMMA FailKeeps == ASSUME SplitInv, NEW c \in Caller, Fail(c) PROVE SplitInv'
<1>0. stage[c] # "idle"
  BY DEF Fail, Holding, Locked
<1>1. PICK l \in DOMAIN launches, m \in MainStream :
           l = Latest(c) /\ m = Main(c) /\ Owns(c, l, m) /\ At(l) = stage[c]
  BY <1>0, WorksOn
<1>2. /\ queue' = queue /\ ran' = ran /\ recorded' = recorded /\ reached' = reached
      /\ streamMap' = streamMap /\ subLive' = subLive
  BY DEF Fail
<1>3. subLive = streamMap /\ streamMap \subseteq MainStream
  BY DEF SplitInv, SplitTypeOK
<1>4. Goes(c, l, "idle", "failed")
  BY <1>1, ReturnGoes DEF Fail
<1>5. CASE stage[c] \in Locked
  <2>1. MutexIs(m, NoCaller)
    BY <1>1, <1>5 DEF Fail, Holding, Unlock, MutexIs
  <2>2. streamMtx[m] = c
    BY <1>1, <1>5 DEF SplitInv, CallersFit, Owns
  <2> QED BY <1>1, <1>2, <1>3, <1>4, <2>1, <2>2, QuietKeeps
<1>6. CASE stage[c] \notin Locked
  <2>1. streamMtx' = streamMtx
    BY <1>6 DEF Fail, Holding
  <2>2. PICK w \in Caller \cup {NoCaller} : w = streamMtx[m] /\ MutexIs(m, w)
    BY <2>1, SameMutex DEF SplitInv
  <2> QED BY <1>1, <1>2, <1>3, <1>4, <2>2, QuietKeeps
<1> QED BY <1>5, <1>6

-----------------------------------------------------------------------------
(* A launch begins                                                         *)

\* A launch begins.
LEMMA BeginKeeps ==
    ASSUME SplitInv, NEW c \in Caller, NEW m \in MainStream,
           NEW k \in [kind : {"composite", "mixAiv", "mixAiCore"}, dim : Nat], Begin(c, k, m)
    PROVE  SplitInv'
<1>a. SplitTypeOK /\ CallersFit /\ EventsFit /\ KernelsFit /\ CountsFit /\ BlocksFit /\ OrderFits
  BY DEF SplitInv
<1>b. /\ stage[c] = "idle" /\ streamMap' = streamMap /\ subLive' = subLive /\ streamMtx' = streamMtx
      /\ queue' = queue /\ recorded' = recorded /\ reached' = reached /\ ran' = ran
  BY DEF Begin
<1>c. launches \in Seq(LaunchRec) /\ Len(launches) \in Nat /\ DOMAIN launches = 1 .. Len(launches)
  BY <1>a DEF SplitTypeOK
<1>d. PICK z \in Nat : z = Len(launches) + 1
  BY <1>c
<1>e. PICK yes \in BOOLEAN : yes = NeedsSplit(k.kind, k.dim)
  BY DEF NeedsSplit
<1>f. PICK aft \in SUBSET Nat :
          aft = {l \in DOMAIN launches : launches[l].res = "ok" /\ launches[l].stream = m}
  <2>1. \A l \in DOMAIN launches : l \in Nat
    BY <1>c
  <2> QED BY <2>1
<1>g. PICK L : L = [kind |-> k.kind, dim |-> k.dim, stream |-> m, by |-> c, res |-> "open",
                    split |-> yes, after |-> aft]
  OBVIOUS
<1>h. /\ L \in LaunchRec /\ L.kind = k.kind /\ L.dim = k.dim /\ L.stream = m /\ L.by = c
      /\ L.res = "open" /\ L.split = yes /\ L.after = aft
  BY <1>g DEF LaunchRec
<1>i. launches' = Append(launches, L)
  BY <1>e, <1>f, <1>g DEF Begin
<1>j. /\ launches' \in Seq(LaunchRec) /\ DOMAIN launches' = DOMAIN launches \cup {z}
      /\ z \notin DOMAIN launches /\ launches'[z] = L
      /\ \A l \in DOMAIN launches : launches'[l] = launches[l] /\ l < z /\ l \in Nat
  BY <1>c, <1>d, <1>h, <1>i, AppendProperties
<1>k. PICK to : to = IF NeedsSplit(k.kind, k.dim) THEN "get" ELSE "plain"
  OBVIOUS
<1>l. /\ stage' \in [Caller -> Stage] /\ stage'[c] = to /\ \A d \in Caller : d # c => stage'[d] = stage[d]
  <2>1. stage' = [stage EXCEPT ![c] = to] /\ to \in Stage
    BY <1>k DEF Begin, Stage
  <2> QED BY <2>1, <1>a DEF SplitTypeOK
<1>m. to \in {"get", "plain"} /\ (yes <=> to # "plain") /\ to \notin Locked /\ to # "lock" /\ to # "idle"
  BY <1>e, <1>k DEF Locked
\* The launches of before.
<1>n. \A l \in DOMAIN launches :
         /\ Open(l)' <=> Open(l)
         /\ Open(l) => launches[l].by # c /\ At(l)' = At(l)
  <2> SUFFICES ASSUME NEW l \in DOMAIN launches
               PROVE  (Open(l)' <=> Open(l)) /\ (Open(l) => launches[l].by # c /\ At(l)' = At(l))
    OBVIOUS
  <2>1. Open(l)' <=> Open(l)
    BY <1>j DEF Open
  <2>2. Open(l) => launches[l].by # c
    BY <1>a, <1>b DEF CallersFit, At
  <2>3. launches[l].by \in Caller
    BY <1>a, LaunchTypes DEF SplitTypeOK
  <2> QED BY <2>1, <2>2, <2>3, <1>j, <1>l DEF At
<1>o. Open(z)' /\ At(z)' = to
  BY <1>h, <1>j, <1>l DEF Open, At
<1>1. SplitTypeOK'
  BY <1>a, <1>b, <1>j, <1>l DEF SplitTypeOK
<1>2. CallersFit'
  <2>1. \A l \in DOMAIN launches' :
         Open(l)' => /\ At(l)' # "idle"
                     /\ \A j \in DOMAIN launches' : launches'[j].by = launches'[l].by => j <= l
    <3> SUFFICES ASSUME NEW l \in DOMAIN launches', Open(l)'
                 PROVE  At(l)' # "idle" /\ \A j \in DOMAIN launches' : launches'[j].by = launches'[l].by => j <= l
      OBVIOUS
    <3>1. CASE l = z
      BY <3>1, <1>j, <1>m, <1>o
    <3>2. CASE l \in DOMAIN launches
      <4>1. Open(l) /\ launches[l].by # c /\ At(l)' = At(l)
        BY <3>2, <1>n
      <4>2. At(l) # "idle" /\ \A j \in DOMAIN launches : launches[j].by = launches[l].by => j <= l
        BY <3>2, <4>1, <1>a DEF CallersFit
      <4>3. launches'[z].by # launches'[l].by
        BY <3>2, <4>1, <1>h, <1>j
      <4> QED BY <3>2, <4>1, <4>2, <4>3, <1>j
    <3> QED BY <3>1, <3>2, <1>j
  <2>2. \A d \in Caller : stage'[d] # "idle" => \E l \in DOMAIN launches' : Open(l)' /\ launches'[l].by = d
    <3> SUFFICES ASSUME NEW d \in Caller, stage'[d] # "idle"
                 PROVE  \E l \in DOMAIN launches' : Open(l)' /\ launches'[l].by = d
      OBVIOUS
    <3>1. CASE d = c
      BY <3>1, <1>h, <1>j, <1>o
    <3>2. CASE d # c
      <4>1. PICK l \in DOMAIN launches : Open(l) /\ launches[l].by = d
        BY <3>2, <1>a, <1>l DEF CallersFit
      <4> QED BY <4>1, <1>j, <1>n
    <3> QED BY <3>1, <3>2
  <2>3. \A l \in DOMAIN launches' : Open(l)' => (launches'[l].split <=> At(l)' # "plain")
    <3>1. launches'[z].split <=> At(z)' # "plain"
      BY <1>h, <1>j, <1>m, <1>o
    <3>2. \A l \in DOMAIN launches : Open(l) => (launches[l].split <=> At(l) # "plain")
      BY <1>a DEF CallersFit
    <3> QED BY <3>1, <3>2, <1>j, <1>n
  <2>4. \A l \in DOMAIN launches' : launches'[l].split <=> NeedsSplit(launches'[l].kind, launches'[l].dim)
    <3>1. launches'[z].split <=> NeedsSplit(launches'[z].kind, launches'[z].dim)
      BY <1>e, <1>h, <1>j
    <3>2. \A l \in DOMAIN launches : launches[l].split <=> NeedsSplit(launches[l].kind, launches[l].dim)
      BY <1>a DEF CallersFit
    <3> QED BY <3>1, <3>2, <1>j
  <2>5. \A l \in DOMAIN launches' : \A j \in launches'[l].after :
         /\ j \in DOMAIN launches' /\ j # l
         /\ launches'[j].stream = launches'[l].stream /\ launches'[j].res = "ok"
    <3>1. \A l \in DOMAIN launches : \A j \in launches[l].after :
         /\ j \in DOMAIN launches /\ j # l
         /\ launches[j].stream = launches[l].stream /\ launches[j].res = "ok"
      BY <1>a DEF CallersFit
    <3>2. \A j \in launches'[z].after : j \in DOMAIN launches /\ launches[j].stream = m /\ launches[j].res = "ok"
      BY <1>f, <1>h, <1>j
    <3>3. launches'[z].stream = m
      BY <1>h, <1>j
    <3> QED BY <3>1, <3>2, <3>3, <1>j
  <2>6. \A l \in DOMAIN launches' : Open(l)' /\ At(l)' \in Locked =>
         streamMtx'[launches'[l].stream] = launches'[l].by
    <3>1. \A l \in DOMAIN launches : Open(l) /\ At(l) \in Locked => streamMtx[launches[l].stream] = launches[l].by
      BY <1>a DEF CallersFit
    <3> QED BY <3>1, <1>b, <1>j, <1>m, <1>n, <1>o
  <2>7. \A l \in DOMAIN launches' : Open(l)' /\ At(l)' \in Locked \cup {"lock"} =>
         launches'[l].stream \in streamMap'
    <3>1. \A l \in DOMAIN launches : Open(l) /\ At(l) \in Locked \cup {"lock"} => launches[l].stream \in streamMap
      BY <1>a DEF CallersFit
    <3> QED BY <3>1, <1>b, <1>j, <1>m, <1>n, <1>o
  <2> QED BY <2>1, <2>2, <2>3, <2>4, <2>5, <2>6, <2>7 DEF CallersFit
<1>3. EventsFit'
  BY <1>a, <1>b DEF EventsFit, MainQ, SubQ
<1>p. \A p \in MainStream : MainQ(p)' = MainQ(p) /\ SubQ(p)' = SubQ(p)
  BY <1>b DEF MainQ, SubQ
<1>4. KernelsFit'
  <2>1. \A i \in DOMAIN ran' : ran'[i].launch \in DOMAIN launches'
    BY <1>a, <1>b, <1>j DEF KernelsFit
  <2> QED BY <1>a, <1>j, <1>p, <2>1 DEF KernelsFit
<1>q. RanOf(ran, z) = {} /\ \A i \in Nat : ~ KernelAt(MainQ(m), i, z) /\ ~ KernelAt(SubQ(m), i, z)
  <2>1. RanOf(ran, z) = {}
    BY <1>a, <1>j DEF KernelsFit, RanOf
  <2> QED BY <2>1, <1>a, <1>j DEF KernelsFit
<1>r. Out(z)' = 0
  <2>1. launches'[z].stream = m
    BY <1>h, <1>j
  <2>2. Out(z)' = Cardinality(RanOf(ran, z)) + Pending(MainQ(m), z) + Pending(SubQ(m), z)
    BY <2>1, <1>b DEF Out, MainQ, SubQ
  <2>3. Cardinality(RanOf(ran, z)) = 0
    BY <1>q, FS_EmptySet
  <2> QED BY <2>2, <2>3, <1>q DEF Pending
<1>s. \A l \in DOMAIN launches : /\ Out(l)' = Out(l) /\ Parts(l)' = Parts(l)
                                 /\ Pending(SubQ(launches[l].stream), l)' = Pending(SubQ(launches[l].stream), l)
  BY <1>b, <1>j DEF Out, MainQ, SubQ, Parts
<1>5. CountsFit'
  <2> SUFFICES ASSUME NEW l \in DOMAIN launches'
               PROVE  /\ launches'[l].res = "ok" => Out(l)' = Parts(l)'
                      /\ Open(l)' /\ At(l)' \in {"plain", "get", "lock", "recordA", "waitA", "launchAic"} => Out(l)' = 0
                      /\ Open(l)' /\ At(l)' = "launchAiv" => Out(l)' = 1 /\ Pending(SubQ(launches[l].stream), l)' = 0
                      /\ Open(l)' /\ At(l)' \in {"recordB", "waitB"} => Out(l)' = 2
    BY DEF CountsFit
  <2>1. CASE l = z
    BY <2>1, <1>h, <1>j, <1>m, <1>o, <1>r
  <2>2. CASE l \in DOMAIN launches
    <3>1. /\ launches[l].res = "ok" => Out(l) = Parts(l)
          /\ Open(l) /\ At(l) \in {"plain", "get", "lock", "recordA", "waitA", "launchAic"} => Out(l) = 0
          /\ Open(l) /\ At(l) = "launchAiv" => Out(l) = 1 /\ Pending(SubQ(launches[l].stream), l) = 0
          /\ Open(l) /\ At(l) \in {"recordB", "waitB"} => Out(l) = 2
      BY <2>2, <1>a DEF CountsFit
    <3> QED BY <2>2, <3>1, <1>j, <1>n, <1>s
  <2> QED BY <2>1, <2>2, <1>j
<1>6. BlocksFit'
  <2> SUFFICES ASSUME NEW l \in DOMAIN launches', launches'[l].kind # "mixAiCore"
               PROVE  /\ \A i \in RanOf(ran, l) :
                           \/ ran[i].blocks = MainBlocks(launches'[l])
                           \/ launches'[l].split /\ ran[i].blocks = SubBlocks(launches'[l])
                      /\ \A i, j \in RanOf(ran, l) : i # j => ran[i].blocks # ran[j].blocks
                      /\ \A i \in RanOf(ran, l), p \in Nat :
                           /\ KernelAt(queue[<<launches'[l].stream, "main">>], p, l) => ran[i].blocks # MainBlocks(launches'[l])
                           /\ KernelAt(queue[<<launches'[l].stream, "sub">>], p, l) => ran[i].blocks # SubBlocks(launches'[l])
                      /\ Open(l)' /\ At(l)' = "launchAiv" =>
                           \A i \in RanOf(ran, l) : ran[i].blocks # SubBlocks(launches'[l])
    BY <1>b DEF BlocksFit, MainQ, SubQ
  <2>1. CASE l = z
    BY <2>1, <1>q
  <2>2. CASE l \in DOMAIN launches
    <3>0. launches'[l] = launches[l]
      BY <2>2, <1>j
    <3>1. /\ \A i \in RanOf(ran, l) :
               \/ ran[i].blocks = MainBlocks(launches[l])
               \/ launches[l].split /\ ran[i].blocks = SubBlocks(launches[l])
          /\ \A i, j \in RanOf(ran, l) : i # j => ran[i].blocks # ran[j].blocks
          /\ \A i \in RanOf(ran, l), p \in Nat :
               /\ KernelAt(queue[<<launches[l].stream, "main">>], p, l) => ran[i].blocks # MainBlocks(launches[l])
               /\ KernelAt(queue[<<launches[l].stream, "sub">>], p, l) => ran[i].blocks # SubBlocks(launches[l])
          /\ Open(l) /\ At(l) = "launchAiv" =>
               \A i \in RanOf(ran, l) : ran[i].blocks # SubBlocks(launches[l])
      BY <2>2, <3>0, <1>a DEF BlocksFit, MainQ, SubQ
    <3> QED BY <2>2, <3>0, <3>1, <1>n
  <2> QED BY <2>1, <2>2, <1>j
<1>t. \A j, l \in DOMAIN launches :
         /\ SplitPair(j, l)' <=> SplitPair(j, l)
         /\ Ahead(j, l)' => Ahead(j, l)
         /\ InOrder(j, l)' <=> InOrder(j, l)
  BY <1>b, <1>j, <1>n DEF SplitPair, Ahead, InOrder, MainQ, SubQ
<1>u. launches'[z].res = "open" /\ launches'[z].stream = m
  BY <1>h, <1>j
<1>7. OrderFits'
  <2>1. \A j, l \in DOMAIN launches' : Ahead(j, l)' => FollowsFits(j, l)'
    <3> SUFFICES ASSUME NEW j \in DOMAIN launches', NEW l \in DOMAIN launches', Ahead(j, l)'
                 PROVE  FollowsFits(j, l)'
      OBVIOUS
    <3>1. j # z
      BY <1>u DEF Ahead
    <3>2. CASE l = z
      <4>1. Ordered(MainQ(m), SubQ(m), ran, j, z)
        BY <1>q, OrderedNone
      <4>2. InOrder(j, z)'
        BY <4>1, <1>b, <1>u DEF InOrder, MainQ, SubQ
      <4> QED BY <3>2, <4>2, <1>m, <1>o DEF FollowsFits
    <3>3. CASE l # z
      <4>1. j \in DOMAIN launches /\ l \in DOMAIN launches
        BY <3>1, <3>3, <1>j
      <4>2. FollowsFits(j, l)
        BY <4>1, <1>a, <1>t DEF OrderFits
      <4> QED BY <4>1, <4>2, <1>b, <1>j, <1>n, <1>t DEF FollowsFits, MainQ, SubQ
    <3> QED BY <3>2, <3>3
  <2>2. \A j, l \in DOMAIN launches' :
         (SplitPair(j, l) /\ launches[j].res = "ok" /\ launches[l].res = "ok")' =>
             InOrder(j, l)' \/ InOrder(l, j)'
    <3> SUFFICES ASSUME NEW j \in DOMAIN launches', NEW l \in DOMAIN launches',
                        SplitPair(j, l)', launches'[j].res = "ok", launches'[l].res = "ok"
                 PROVE  InOrder(j, l)' \/ InOrder(l, j)'
      OBVIOUS
    <3>1. j \in DOMAIN launches /\ l \in DOMAIN launches
      BY <1>j, <1>u
    <3>2. InOrder(j, l) \/ InOrder(l, j)
      BY <3>1, <1>a, <1>j, <1>t DEF OrderFits
    <3> QED BY <3>1, <3>2, <1>t
  <2>3. \A j \in DOMAIN launches' : ReturnFits(j)'
    <3> SUFFICES ASSUME NEW j \in DOMAIN launches' PROVE ReturnFits(j)'
      OBVIOUS
    <3>1. CASE j = z
      BY <3>1, <1>m, <1>o, <1>u DEF ReturnFits
    <3>2. CASE j \in DOMAIN launches
      <4>1. ReturnFits(j)
        BY <3>2, <1>a DEF OrderFits
      <4> QED BY <3>2, <4>1, <1>b, <1>j, <1>n DEF ReturnFits, MainQ, SubQ
    <3> QED BY <3>1, <3>2, <1>j
  <2> QED BY <2>1, <2>2, <2>3 DEF OrderFits
<1> QED BY <1>1, <1>2, <1>3, <1>4, <1>5, <1>6, <1>7 DEF SplitInv
-----------------------------------------------------------------------------
\* A stream is destroyed, which no caller at work uses.
LEMMA DestroyStreamKeeps == ASSUME SplitInv, NEW m \in MainStream, DestroyStream(m) PROVE SplitInv'
<1>a. SplitTypeOK /\ CallersFit /\ EventsFit /\ KernelsFit /\ CountsFit /\ BlocksFit /\ OrderFits
  BY DEF SplitInv
<1>b. /\ launches' = launches /\ stage' = stage /\ streamMtx' = streamMtx /\ queue' = queue
      /\ recorded' = recorded /\ reached' = reached /\ ran' = ran
      /\ streamMap' = streamMap \ {m} /\ subLive' = subLive \ {m}
  BY DEF DestroyStream
<1>1. SplitTypeOK'
  BY <1>a, <1>b DEF SplitTypeOK
<1>2. \A l \in DOMAIN launches : Open(l) => launches[l].stream # m
  <2> SUFFICES ASSUME NEW l \in DOMAIN launches, Open(l) PROVE launches[l].stream # m
    OBVIOUS
  <2>1. PICK c \in Caller : c = launches[l].by
    BY <1>a, LaunchTypes DEF SplitTypeOK
  <2>2. stage[c] # "idle"
    BY <2>1, <1>a DEF CallersFit, At
  <2>3. PICK k \in DOMAIN launches, p \in MainStream :
           k = Latest(c) /\ p = Main(c) /\ Owns(c, k, p) /\ At(k) = stage[c]
    BY <2>2, WorksOn
  <2>4. k = l
    BY <2>1, <2>3 DEF Owns
  <2>5. Main(c) # m
    BY <2>2 DEF DestroyStream
  <2> QED BY <2>3, <2>4, <2>5 DEF Owns
<1>3. CallersFit'
  <2>1. \A l \in DOMAIN launches : Open(l) /\ At(l) \in Locked \cup {"lock"} => launches[l].stream \in streamMap'
    BY <1>2, <1>a, <1>b DEF CallersFit
  <2>2. \A l \in DOMAIN launches : (Open(l)' <=> Open(l)) /\ At(l)' = At(l)
    BY <1>b DEF Open, At
  <2> QED BY <2>1, <2>2, <1>a, <1>b DEF CallersFit
<1>4. EventsFit' /\ KernelsFit'
  BY <1>a, <1>b DEF EventsFit, KernelsFit, MainQ, SubQ
<1>5. CountsFit'
  BY <1>a, <1>b DEF CountsFit, Out, Parts, MainQ, SubQ, Open, At
<1>6. BlocksFit'
  BY <1>a, <1>b DEF BlocksFit, MainQ, SubQ, Open, At
<1>7. OrderFits'
  BY <1>a, <1>b DEF OrderFits, FollowsFits, ReturnFits, Ahead, SplitPair, InOrder, MainQ, SubQ, Open, At
<1> QED BY <1>1, <1>3, <1>4, <1>5, <1>6, <1>7 DEF SplitInv

\* Steps of the others.
LEMMA SplitStutters == SplitInv /\ UNCHANGED splitVars => SplitInv'
<1> SUFFICES ASSUME SplitInv, UNCHANGED splitVars PROVE SplitInv'
  OBVIOUS
<1>1. SplitTypeOK' /\ CallersFit' /\ EventsFit'
  BY DEF SplitInv, splitVars, SplitTypeOK, CallersFit, EventsFit, MainQ, SubQ, Open, At
<1>2. KernelsFit' /\ CountsFit'
  BY DEF SplitInv, splitVars, KernelsFit, CountsFit, MainQ, SubQ, Open, At, Out, Parts
<1>3. BlocksFit'
  BY DEF SplitInv, splitVars, BlocksFit, MainQ, SubQ, Open, At, Out, Parts
<1>4. OrderFits'
  BY DEF SplitInv, splitVars, OrderFits, FollowsFits, ReturnFits, Ahead, SplitPair, InOrder,
         MainQ, SubQ, Open, At
<1> QED BY <1>1, <1>2, <1>3, <1>4 DEF SplitInv

\* At first there is nothing.
LEMMA SplitInitInv == SplitInit => SplitInv
<1> SUFFICES ASSUME SplitInit PROVE SplitInv
  OBVIOUS
<1>a. /\ launches = << >> /\ ran = << >> /\ stage = [c \in Caller |-> "idle"]
      /\ streamMap = {} /\ subLive = {} /\ streamMtx = [m \in MainStream |-> NoCaller]
      /\ queue = [q \in Queues |-> << >>]
      /\ recorded = [m \in MainStream |-> [e \in Event |-> 0]] /\ reached = recorded
  BY DEF SplitInit
<1>b. DOMAIN launches = {} /\ DOMAIN ran = {}
  BY <1>a
<1>1. SplitTypeOK
  <2>1. launches \in Seq(LaunchRec) /\ ran \in Seq([launch : Nat, blocks : SUBSET Int])
    BY <1>a
  <2>2. stage \in [Caller -> Stage]
    BY <1>a DEF Stage
  <2>3. queue \in [Queues -> Seq(Task)]
    BY <1>a
  <2>4. recorded \in [MainStream -> [Event -> Nat]]
    BY <1>a
  <2>5. streamMtx \in [MainStream -> Caller \cup {NoCaller}]
    BY <1>a
  <2> QED BY <1>a, <2>1, <2>2, <2>3, <2>4, <2>5 DEF SplitTypeOK
<1>2. CallersFit
  BY <1>a, <1>b DEF CallersFit
<1>3. \A m \in MainStream : MainQ(m) = << >> /\ SubQ(m) = << >>
  BY <1>a DEF MainQ, SubQ, Queues
<1>4. \A i, n : ~ RecordAt(<< >>, i, n) /\ ~ WaitAt(<< >>, i, n) /\ ~ KernelAt(<< >>, i, n)
  BY DEF RecordAt, WaitAt, KernelAt
<1>5. \A m \in MainStream, e \in Event : recorded[m][e] = 0 /\ reached[m][e] = 0
  BY <1>a
<1>6. EventsFit
  <2>1. \A e : Numbered(<< >>, e, 0, 0) /\ Awaits(<< >>, e, 0)
    BY <1>4 DEF Numbered, Awaits
  <2> QED BY <1>3, <1>5, <2>1 DEF EventsFit, Event
<1>7. KernelsFit
  BY <1>b, <1>3, <1>4 DEF KernelsFit, Single
<1>8. CountsFit /\ BlocksFit /\ OrderFits
  BY <1>b DEF CountsFit, BlocksFit, OrderFits
<1> QED BY <1>1, <1>2, <1>6, <1>7, <1>8 DEF SplitInv

-----------------------------------------------------------------------------
(* How a launch is cut                                                     *)

\* What a division that rounds up returns.
LEMMA CeilDivBounds ==
    ASSUME NEW a \in Nat, NEW b \in Nat \ {0}
    PROVE  /\ CeilDiv(a, b) \in Nat
           /\ CeilDiv(a, b) * b >= a /\ CeilDiv(a, b) * b <= a + b - 1
<1>1. PICK q : q = CeilDiv(a, b)
  OBVIOUS
<1>2. PICK s : s = a + b - 1
  OBVIOUS
<1>3. s \in Nat /\ q = s \div b
  BY <1>1, <1>2 DEF CeilDiv
<1>4. q \in Nat /\ q * b <= s /\ s < (q + 1) * b
  BY <1>3
<1>5. (q + 1) * b = q * b + b
  BY <1>4
<1>6. q * b \in Nat
  BY <1>4
<1> QED BY <1>1, <1>2, <1>3, <1>4, <1>5, <1>6

\* A kernel is cut behind its first block and before its last.
LEMMA CutInside ==
    ASSUME NEW kind \in {"composite", "mixAiv"}, NEW d \in Nat, NeedsSplit(kind, d)
    PROVE  \E aic \in Nat : 0 < aic /\ aic < d /\ Halves(kind, d) = HalvesAt(aic, d)
<1>a. AicNum \in Nat /\ AicNum > 0 /\ AivNum \in Nat /\ AivNum > 0
  BY CoreAssumption
<1>b. PICK s \in Nat \ {0} : s = AicNum + AivNum
  BY <1>a
<1>1. CASE kind = "composite"
  <2>1. PICK q \in Nat : q = CeilDiv(d, s) /\ q * s >= d
    BY CeilDivBounds
  <2>2. NeedAic(d) = q * AicNum /\ d > NeedAic(d)
    BY <1>1, <1>b, <2>1 DEF NeedAic, NeedsSplit
  <2>3. q # 0
    <3> SUFFICES ASSUME q = 0 PROVE FALSE
      OBVIOUS
    <3>1. d <= 0 /\ NeedAic(d) = 0
      BY <1>a, <2>1, <2>2
    <3> QED BY <2>2, <3>1
  <2>4. q * AicNum \in Nat /\ q * AicNum > 0
    BY <1>a, <2>3
  <2>5. Halves(kind, d) = HalvesAt(NeedAic(d), d)
    BY <1>1 DEF Halves
  <2> QED BY <2>2, <2>4, <2>5
<1>2. CASE kind = "mixAiv"
  <2>0. d > AicNum
    BY <1>2 DEF NeedsSplit
  <2>1. Halves(kind, d) = HalvesAt(MixAivAic(d), d)
    BY <1>2 DEF Halves
  <2>2. CASE d > s
    <3>1. PICK p \in Nat : p = d * AicNum
      BY <1>a
    <3>2. PICK q \in Nat : q = CeilDiv(p, s) /\ q * s >= p /\ q * s <= p + s - 1
      BY CeilDivBounds
    <3>3. MixAivAic(d) = q
      BY <1>b, <2>2, <3>1, <3>2 DEF MixAivAic
    <3>4. p > 0
      BY <1>a, <2>0, <3>1
    <3>5. q > 0
      BY <3>2, <3>4
    <3>6. q < d
      <4> SUFFICES ASSUME q >= d PROVE FALSE
        BY <3>2
      <4>1. d * s <= q * s
        BY <3>2
      <4>2. d * s = p + d * AivNum
        BY <1>a, <1>b, <3>1
      <4>3. PICK v \in Nat : v = d * AivNum
        BY <1>a
      <4>4. v >= d
        BY <1>a, <4>3
      <4>5. PICK ds \in Nat : ds = d * s
        OBVIOUS
      <4>6. PICK qs \in Nat : qs = q * s
        BY <3>2
      <4> QED BY <2>2, <3>2, <4>1, <4>2, <4>3, <4>4, <4>5, <4>6
    <3> QED BY <2>1, <3>3, <3>5, <3>6
  <2>3. CASE ~ (d > s)
    <3>1. MixAivAic(d) = AicNum
      BY <1>b, <2>3 DEF MixAivAic
    <3> QED BY <1>a, <2>0, <2>1, <3>1
  <2> QED BY <2>2, <2>3
<1> QED BY <1>1, <1>2

\* The blocks of the parts of a launch.
LEMMA PartsBlocks ==
    ASSUME SplitTypeOK, CallersFit, NEW l \in DOMAIN launches, launches[l].kind # "mixAiCore"
    PROVE  /\ ~ launches[l].split => MainBlocks(launches[l]) = 0 .. launches[l].dim - 1
           /\ launches[l].split =>
                \E a \in Nat : /\ 0 < a /\ a < launches[l].dim
                               /\ MainBlocks(launches[l]) = 0 .. a - 1
                               /\ SubBlocks(launches[l]) = a .. launches[l].dim - 1
           /\ launches[l].split => MainBlocks(launches[l]) # SubBlocks(launches[l])
<1>1. launches[l].kind \in {"composite", "mixAiv"} /\ launches[l].dim \in Nat
  BY LaunchTypes DEF SplitTypeOK
<1>2. CASE ~ launches[l].split
  BY <1>1, <1>2 DEF MainBlocks, Blocks
<1>3. CASE launches[l].split
  <2>1. NeedsSplit(launches[l].kind, launches[l].dim)
    BY <1>3 DEF CallersFit
  <2>2. PICK a \in Nat : 0 < a /\ a < launches[l].dim
                         /\ Halves(launches[l].kind, launches[l].dim) = HalvesAt(a, launches[l].dim)
    BY <1>1, <2>1, CutInside
  <2>3. MainBlocks(launches[l]) = Blocks(0, a) /\ SubBlocks(launches[l]) = Blocks(a, launches[l].dim - a)
    BY <1>3, <2>2 DEF MainBlocks, SubBlocks, HalvesAt
  <2>4. Blocks(0, a) = 0 .. a - 1 /\ Blocks(a, launches[l].dim - a) = a .. launches[l].dim - 1
    <3>1. 0 + a - 1 = a - 1 /\ a + (launches[l].dim - a) - 1 = launches[l].dim - 1
      BY <1>1, <2>2
    <3> QED BY <3>1 DEF Blocks
  <2>5. 0 \in 0 .. a - 1 /\ 0 \notin a .. launches[l].dim - 1
    BY <2>2
  <2> QED BY <1>3, <2>2, <2>3, <2>4, <2>5
<1> QED BY <1>2, <1>3
-----------------------------------------------------------------------------
(* The device takes a task                                                 *)

\* The head of one queue of stream m was taken.
PoppedFrom(q, v, m, half) ==
    /\ q \in [Queues -> Seq(Task)] /\ v \in [Queues -> Seq(Task)]
    /\ m \in MainStream /\ half \in {"main", "sub"}
    /\ Popped(q[<<m, half>>], v[<<m, half>>])
    /\ \A z \in Queues : z # <<m, half>> => v[z] = q[z]

\* The queues of a stream before and after.
LEMMA PoppedCases ==
    ASSUME NEW q, NEW v, NEW m, NEW half, PoppedFrom(q, v, m, half), NEW p \in MainStream
    PROVE  \/ p # m /\ v[<<p, "main">>] = q[<<p, "main">>] /\ v[<<p, "sub">>] = q[<<p, "sub">>]
           \/ /\ p = m /\ half = "main" /\ v[<<p, "sub">>] = q[<<p, "sub">>]
              /\ Popped(q[<<p, "main">>], v[<<p, "main">>])
           \/ /\ p = m /\ half = "sub" /\ v[<<p, "main">>] = q[<<p, "main">>]
              /\ Popped(q[<<p, "sub">>], v[<<p, "sub">>])
<1>1. <<p, "main">> \in Queues /\ <<p, "sub">> \in Queues
  BY DEF Queues
<1>2. CASE p # m
  <2>1. <<p, "main">> # <<m, half>> /\ <<p, "sub">> # <<m, half>>
    BY <1>2
  <2> QED BY <1>1, <1>2, <2>1 DEF PoppedFrom
<1>3. CASE p = m /\ half = "main"
  <2>1. <<p, "sub">> # <<m, half>>
    BY <1>3
  <2> QED BY <1>1, <1>3, <2>1 DEF PoppedFrom
<1>4. CASE p = m /\ half = "sub"
  <2>1. <<p, "main">> # <<m, half>>
    BY <1>4
  <2> QED BY <1>1, <1>4, <2>1 DEF PoppedFrom
<1> QED BY <1>2, <1>3, <1>4 DEF PoppedFrom

\* The end of a queue keeps k behind it when its head is taken ...
LEMMA ClosedPopOwn ==
    ASSUME NEW s, NEW t, NEW u, Popped(s, u), Over(s, t), NEW k \in Nat, Closed(s, t, k)
    PROVE  Closed(u, t, k)
<1>1. Len(s) \in Nat \ {0} /\ Len(u) = Len(s) - 1
  BY PoppedPlaces
<1>2. Len(s) + 1 \in Nat /\ Len(s) + 1 # 0 /\ (Len(s) + 1) - 1 = Len(u) + 1
  BY <1>1
<1>3. Passed(u, t, k, (Len(s) + 1) - 1)
  BY <1>2, PassedPopOwn DEF Closed
<1> QED BY <1>2, <1>3 DEF Closed

\* ... and when the head of the other queue is.
LEMMA ClosedPopOther ==
    ASSUME NEW s \in Seq(Task), NEW t, NEW u, Popped(t, u), NEW k \in Nat, Closed(s, t, k)
    PROVE  Closed(s, u, k)
<1>1. Len(s) + 1 \in Nat
  OBVIOUS
<1> QED BY <1>1, PassedPopOther DEF Closed

\* The head of the queue that was taken is not a wait for a record still to come.
Done(q, m, half) == IF half = "main" THEN Over(q[<<m, "main">>], q[<<m, "sub">>])
                                     ELSE Over(q[<<m, "sub">>], q[<<m, "main">>])

\* What taking a task leaves as it was.
LEMMA PoppedKeeps ==
    ASSUME NEW q, NEW v, NEW m, NEW half, PoppedFrom(q, v, m, half), Done(q, m, half),
           NEW k \in Nat, NEW p \in MainStream
    PROVE  /\ \A n \in Nat : Marked(q[<<p, "main">>], k, n) => Marked(v[<<p, "main">>], k, n)
           /\ \A n \in Nat : Marked(q[<<p, "sub">>], k, n) => Marked(v[<<p, "sub">>], k, n)
           /\ Closed(q[<<p, "main">>], q[<<p, "sub">>], k) => Closed(v[<<p, "main">>], v[<<p, "sub">>], k)
           /\ Closed(q[<<p, "sub">>], q[<<p, "main">>], k) => Closed(v[<<p, "sub">>], v[<<p, "main">>], k)
<1>1. q[<<p, "main">>] \in Seq(Task) /\ q[<<p, "sub">>] \in Seq(Task)
  BY DEF PoppedFrom, Queues
<1>2. CASE p # m /\ v[<<p, "main">>] = q[<<p, "main">>] /\ v[<<p, "sub">>] = q[<<p, "sub">>]
  BY <1>2
<1>3. CASE /\ p = m /\ half = "main" /\ v[<<p, "sub">>] = q[<<p, "sub">>]
           /\ Popped(q[<<p, "main">>], v[<<p, "main">>])
  BY <1>1, <1>3, MarkedPop, ClosedPopOwn, ClosedPopOther DEF Done
<1>4. CASE /\ p = m /\ half = "sub" /\ v[<<p, "main">>] = q[<<p, "main">>]
           /\ Popped(q[<<p, "sub">>], v[<<p, "sub">>])
  BY <1>1, <1>4, MarkedPop, ClosedPopOwn, ClosedPopOther DEF Done
<1> QED BY <1>2, <1>3, <1>4, PoppedCases

\* The device took task h from the queues q, and r became w.
Worked(q, v, r, w, m, half, h) ==
    PoppedFrom(q, v, m, half) /\ Done(q, m, half) /\ h = q[<<m, half>>][1] /\ Took(h, r, w)

\* A kernel of k or l is one of stream m.
Local(h, p, m, k, l) == p # m => ~ Of(h, k) /\ ~ Of(h, l)

\* Taking a task keeps the order of two launches.
LEMMA PoppedOrdered ==
    ASSUME NEW q, NEW v, NEW m, NEW half, NEW h, NEW r, NEW w, Worked(q, v, r, w, m, half, h),
           NEW k \in Nat, NEW l \in Nat, k # l, NEW p \in MainStream, Local(h, p, m, k, l),
           Ordered(q[<<p, "main">>], q[<<p, "sub">>], r, k, l)
    PROVE  Ordered(v[<<p, "main">>], v[<<p, "sub">>], w, k, l)
<1>0. PoppedFrom(q, v, m, half) /\ Done(q, m, half)
  BY DEF Worked
<1>1. h = q[<<m, half>>][1] /\ Took(h, r, w) /\ (p # m => ~ Of(h, k) /\ ~ Of(h, l))
  BY DEF Worked, Local
<1>2. CASE p # m /\ v[<<p, "main">>] = q[<<p, "main">>] /\ v[<<p, "sub">>] = q[<<p, "sub">>]
  BY <1>1, <1>2, OrderedElse
<1>3. CASE /\ p = m /\ half = "main" /\ v[<<p, "sub">>] = q[<<p, "sub">>]
           /\ Popped(q[<<p, "main">>], v[<<p, "main">>])
  BY <1>0, <1>1, <1>3, OrderedPop DEF Done
<1>4. CASE /\ p = m /\ half = "sub" /\ v[<<p, "main">>] = q[<<p, "main">>]
           /\ Popped(q[<<p, "sub">>], v[<<p, "sub">>])
  <2>1. Ordered(q[<<p, "sub">>], q[<<p, "main">>], r, k, l)
    BY OrderedSwap
  <2>2. Ordered(v[<<p, "sub">>], q[<<p, "main">>], w, k, l)
    BY <1>0, <1>1, <1>4, <2>1, OrderedPop DEF Done
  <2> QED BY <1>4, <2>2, OrderedSwap
<1> QED BY <1>0, <1>2, <1>3, <1>4, PoppedCases

\* The device has reached record h of stream m.
ReachedAt(m, h) == reached' = [reached EXCEPT ![m][h.event] = h.n]

\* The device took the head h of a queue of stream m.
Takes(m, half, h) ==
    /\ PoppedFrom(queue, queue', m, half) /\ h = queue[<<m, half>>][1] /\ h \in Task
    /\ Took(h, ran, ran')
    /\ h.do = "wait" => reached[m][h.event] >= h.n
    /\ IF h.do = "record" THEN ReachedAt(m, h) ELSE reached' = reached
    /\ launches' = launches /\ stage' = stage /\ recorded' = recorded
    /\ streamMap' = streamMap /\ subLive' = subLive /\ streamMtx' = streamMtx

\* Execute takes the head of a queue.
LEMMA ExecuteTakes ==
    ASSUME SplitTypeOK, NEW z \in Queues, Execute(z)
    PROVE  \E m \in MainStream, half \in {"main", "sub"}, h \in Task : Takes(m, half, h)
<1>1. PICK m \in MainStream, half \in {"main", "sub"} : z = <<m, half>> /\ z[1] = m
  BY DEF Queues
<1>2. queue \in [Queues -> Seq(Task)] /\ ran \in Seq(RanKernel)
  BY DEF SplitTypeOK, RanKernel
<1>3. PICK u : u = Tail(queue[z])
  OBVIOUS
<1>4. queue[z] # << >> /\ queue' = [queue EXCEPT ![z] = u]
  BY <1>3 DEF Execute
<1>5. Popped(queue[z], u)
  BY <1>2, <1>3, <1>4 DEF Popped
<1>6. PICK h \in Task : h = Head(queue[z]) /\ h = queue[z][1] /\ u \in Seq(Task)
  BY <1>5, PoppedPlaces
<1>7. PoppedFrom(queue, queue', m, half)
  <2>1. queue' \in [Queues -> Seq(Task)] /\ queue'[z] = u /\ \A y \in Queues : y # z => queue'[y] = queue[y]
    BY <1>2, <1>4, <1>6
  <2> QED BY <1>1, <1>2, <1>5, <2>1 DEF PoppedFrom
<1>8. Took(h, ran, ran')
  <2>1. CASE h.do = "kernel" /\ ran' = Append(ran, [launch |-> h.launch, blocks |-> h.blocks])
    <3>1. h.launch \in Nat /\ h.blocks \in SUBSET Int
      BY <2>1 DEF Task
    <3>2. PICK e : e = [launch |-> h.launch, blocks |-> h.blocks]
      OBVIOUS
    <3>3. e \in RanKernel
      BY <3>1, <3>2 DEF RanKernel
    <3>4. Append(ran, e) \in Seq(RanKernel)
      BY <1>2, <3>3, AppendProperties
    <3> QED BY <1>2, <2>1, <3>2, <3>4 DEF Took
  <2>2. CASE h.do # "kernel" /\ ran' = ran
    BY <1>2, <2>2 DEF Took
  <2>3. \/ h.do = "kernel" /\ ran' = Append(ran, [launch |-> h.launch, blocks |-> h.blocks])
        \/ h.do # "kernel" /\ ran' = ran
    BY <1>6 DEF Execute
  <2> QED BY <2>1, <2>2, <2>3
<1>9. /\ h.do = "wait" => reached[m][h.event] >= h.n
      /\ IF h.do = "record" THEN ReachedAt(m, h) ELSE reached' = reached
  BY <1>1, <1>6 DEF Execute, ReachedAt
<1>10. /\ launches' = launches /\ stage' = stage /\ recorded' = recorded
       /\ streamMap' = streamMap /\ subLive' = subLive /\ streamMtx' = streamMtx
  BY DEF Execute
<1> QED BY <1>1, <1>6, <1>7, <1>8, <1>9, <1>10 DEF Takes

\* A wait is taken only after its record.
LEMMA TakesDone ==
    ASSUME SplitTypeOK, EventsFit, NEW m, NEW half, NEW h, Takes(m, half, h)
    PROVE  Done(queue, m, half)
<1>0. m \in MainStream /\ half \in {"main", "sub"} /\ h \in Task /\ h = queue[<<m, half>>][1]
      /\ (h.do = "wait" => reached[m][h.event] >= h.n) /\ Popped(queue[<<m, half>>], queue'[<<m, half>>])
  BY DEF Takes, PoppedFrom
<1>1. Len(queue[<<m, half>>]) \in Nat \ {0}
  BY <1>0, PoppedPlaces
<1>2. CASE h.do # "wait"
  BY <1>0, <1>2 DEF Done, Over
<1>3. CASE h.do = "wait"
  <2>1. PICK n \in Nat : n = h.n
    BY <1>0, <1>3 DEF Task
  <2>2. WaitAt(queue[<<m, half>>], 1, n)
    BY <1>0, <1>1, <1>3, <2>1 DEF WaitAt
  <2>3. CASE half = "main"
    <3>1. h.event = "B"
      BY <1>0, <2>2, <2>3 DEF EventsFit, MainQ, Awaits
    <3>2. PICK lo \in Nat : lo = reached[m]["B"]
      BY <1>0, EventTypes
    <3>3. \A j \in Nat : RecordAt(SubQ(m), j, n) => lo < n
      BY <1>0, <3>2 DEF EventsFit, Numbered
    <3>4. lo >= n
      BY <1>0, <1>3, <2>1, <3>1, <3>2
    <3>5. \A j \in Nat : ~ RecordAt(SubQ(m), j, n)
      BY <3>3, <3>4
    <3> QED BY <1>0, <2>1, <2>3, <3>5 DEF Done, Over, SubQ
  <2>4. CASE half = "sub"
    <3>1. h.event = "A"
      BY <1>0, <2>2, <2>4 DEF EventsFit, SubQ, Awaits
    <3>2. PICK lo \in Nat : lo = reached[m]["A"]
      BY <1>0, EventTypes
    <3>3. \A j \in Nat : RecordAt(MainQ(m), j, n) => lo < n
      BY <1>0, <3>2 DEF EventsFit, Numbered
    <3>4. lo >= n
      BY <1>0, <1>3, <2>1, <3>1, <3>2
    <3>5. \A j \in Nat : ~ RecordAt(MainQ(m), j, n)
      BY <3>3, <3>4
    <3> QED BY <1>0, <2>1, <2>4, <3>5 DEF Done, Over, MainQ
  <2> QED BY <1>0, <2>3, <2>4
<1> QED BY <1>2, <1>3

\* The numbers reached after a task was taken.
LEMMA TakesReached ==
    ASSUME SplitTypeOK, NEW m, NEW half, NEW h, Takes(m, half, h)
    PROVE  /\ reached' \in [MainStream -> [Event -> Nat]]
           /\ \A p \in MainStream : p # m => reached'[p] = reached[p]
           /\ h.do # "record" => reached' = reached
           /\ h.do = "record" => /\ h.event \in Event /\ h.n \in Nat /\ reached'[m][h.event] = h.n
                                 /\ \A d \in Event : d # h.event => reached'[m][d] = reached[m][d]
<1>0. m \in MainStream /\ h \in Task /\ reached \in [MainStream -> [Event -> Nat]]
  BY DEF Takes, PoppedFrom, SplitTypeOK
<1>1. CASE h.do # "record"
  BY <1>0, <1>1 DEF Takes
<1>2. CASE h.do = "record"
  <2>1. PICK e \in Event, n \in Nat : e = h.event /\ n = h.n
    BY <1>0, <1>2 DEF Task
  <2>2. PICK g : g = [reached[m] EXCEPT ![e] = n]
    OBVIOUS
  <2>3. g \in [Event -> Nat] /\ g[e] = n /\ \A d \in Event : d # e => g[d] = reached[m][d]
    BY <1>0, <2>1, <2>2
  <2>4. reached' = [reached EXCEPT ![m] = g]
    BY <1>2, <2>1, <2>2 DEF Takes, ReachedAt
  <2>5. reached' \in [MainStream -> [Event -> Nat]] /\ reached'[m] = g
        /\ \A p \in MainStream : p # m => reached'[p] = reached[p]
    BY <1>0, <2>3, <2>4
  <2> QED BY <1>2, <2>1, <2>3, <2>5
<1> QED BY <1>1, <1>2

\* Taking a task keeps the numbers of the events.
LEMMA TakesEvents ==
    ASSUME SplitTypeOK, EventsFit, NEW m, NEW half, NEW h, Takes(m, half, h)
    PROVE  EventsFit'
<1>0. PoppedFrom(queue, queue', m, half) /\ h = queue[<<m, half>>][1] /\ recorded' = recorded
      /\ m \in MainStream
  BY DEF Takes, PoppedFrom
<1> SUFFICES ASSUME NEW p \in MainStream
             PROVE  /\ Numbered(MainQ(p)', "A", reached'[p]["A"], recorded[p]["A"])
                    /\ Numbered(SubQ(p)', "B", reached'[p]["B"], recorded[p]["B"])
                    /\ Awaits(SubQ(p)', "A", recorded[p]["A"])
                    /\ Awaits(MainQ(p)', "B", recorded[p]["B"])
  BY <1>0 DEF EventsFit
<1>1. /\ reached[p]["A"] \in Nat /\ reached[p]["B"] \in Nat
      /\ recorded[p]["A"] \in Nat /\ recorded[p]["B"] \in Nat
  BY EventTypes
<1>2. /\ Numbered(MainQ(p), "A", reached[p]["A"], recorded[p]["A"])
      /\ Numbered(SubQ(p), "B", reached[p]["B"], recorded[p]["B"])
      /\ Awaits(SubQ(p), "A", recorded[p]["A"])
      /\ Awaits(MainQ(p), "B", recorded[p]["B"])
  BY DEF EventsFit
<1>3. CASE p # m /\ MainQ(p)' = MainQ(p) /\ SubQ(p)' = SubQ(p)
  BY <1>2, <1>3, TakesReached
<1>4. CASE p = m /\ half = "main" /\ SubQ(p)' = SubQ(p) /\ Popped(MainQ(p), MainQ(p)')
  <2>0. h = MainQ(p)[1]
    BY <1>0, <1>4 DEF MainQ
  <2>1. Awaits(MainQ(p)', "B", recorded[p]["B"])
    BY <1>1, <1>2, <1>4, PopAwaits
  <2>2. CASE h.do # "record"
    <3>1. Numbered(MainQ(p)', "A", reached[p]["A"], recorded[p]["A"])
      BY <1>1, <1>2, <1>4, <2>0, <2>2, PopOther
    <3>2. reached' = reached
      BY <2>2, TakesReached
    <3> QED BY <1>2, <1>4, <2>1, <3>1, <3>2
  <2>3. CASE h.do = "record"
    <3>1. h.n \in Nat /\ h.event = "A" /\ Numbered(MainQ(p)', "A", h.n, recorded[p]["A"])
      BY <1>1, <1>2, <1>4, <2>0, <2>3, PopRecord
    <3>2. "A" \in Event /\ "B" \in Event /\ "B" # "A"
      BY DEF Event
    <3>3. reached'[p]["A"] = h.n /\ reached'[p]["B"] = reached[p]["B"]
      BY <1>4, <2>3, <3>1, <3>2, TakesReached
    <3> QED BY <1>2, <1>4, <2>1, <3>1, <3>3
  <2> QED BY <2>2, <2>3
<1>5. CASE p = m /\ half = "sub" /\ MainQ(p)' = MainQ(p) /\ Popped(SubQ(p), SubQ(p)')
  <2>0. h = SubQ(p)[1]
    BY <1>0, <1>5 DEF SubQ
  <2>1. Awaits(SubQ(p)', "A", recorded[p]["A"])
    BY <1>1, <1>2, <1>5, PopAwaits
  <2>2. CASE h.do # "record"
    <3>1. Numbered(SubQ(p)', "B", reached[p]["B"], recorded[p]["B"])
      BY <1>1, <1>2, <1>5, <2>0, <2>2, PopOther
    <3>2. reached' = reached
      BY <2>2, TakesReached
    <3> QED BY <1>2, <1>5, <2>1, <3>1, <3>2
  <2>3. CASE h.do = "record"
    <3>1. h.n \in Nat /\ h.event = "B" /\ Numbered(SubQ(p)', "B", h.n, recorded[p]["B"])
      BY <1>1, <1>2, <1>5, <2>0, <2>3, PopRecord
    <3>2. "A" \in Event /\ "B" \in Event /\ "B" # "A"
      BY DEF Event
    <3>3. reached'[p]["B"] = h.n /\ reached'[p]["A"] = reached[p]["A"]
      BY <1>5, <2>3, <3>1, <3>2, TakesReached
    <3> QED BY <1>2, <1>5, <2>1, <3>1, <3>3
  <2> QED BY <2>2, <2>3
<1> QED BY <1>0, <1>3, <1>4, <1>5, PoppedCases DEF MainQ, SubQ

\* A kernel that is left was behind the head.
LEMMA PoppedTask ==
    ASSUME NEW s, NEW u, Popped(s, u), NEW i \in Nat, NEW k \in Nat, KernelAt(u, i, k)
    PROVE  \E j \in Nat : KernelAt(s, j, k) /\ u[i] = s[j] /\ j # 1
<1>1. i # 0 /\ KernelAt(s, i + 1, k) /\ i + 1 \in Nat /\ i + 1 # 1
  BY PoppedKernel
<1>2. i \in 1 .. Len(u)
  BY DEF KernelAt
<1>3. u[i] = s[i + 1]
  BY <1>2, PoppedPlaces
<1> QED BY <1>1, <1>3

\* Where the kernels are after the head of a queue was taken.
LEMMA PoppedKernels ==
    ASSUME NEW q, NEW v, NEW m, NEW half, PoppedFrom(q, v, m, half),
           NEW p \in MainStream, NEW side \in {"main", "sub"}, NEW i \in Nat, NEW k \in Nat,
           KernelAt(v[<<p, side>>], i, k)
    PROVE  \E j \in Nat : /\ KernelAt(q[<<p, side>>], j, k) /\ v[<<p, side>>][i] = q[<<p, side>>][j]
                          /\ p = m /\ half = side => j # 1
<1>1. CASE v[<<p, side>>] = q[<<p, side>>] /\ ~ (p = m /\ half = side)
  BY <1>1
<1>2. CASE p = m /\ half = side /\ Popped(q[<<p, side>>], v[<<p, side>>])
  BY <1>2, PoppedTask
<1>3. \/ v[<<p, side>>] = q[<<p, side>>] /\ ~ (p = m /\ half = side)
      \/ p = m /\ half = side /\ Popped(q[<<p, side>>], v[<<p, side>>])
  <2>0. \/ p # m /\ v[<<p, "main">>] = q[<<p, "main">>] /\ v[<<p, "sub">>] = q[<<p, "sub">>]
        \/ /\ p = m /\ half = "main" /\ v[<<p, "sub">>] = q[<<p, "sub">>]
           /\ Popped(q[<<p, "main">>], v[<<p, "main">>])
        \/ /\ p = m /\ half = "sub" /\ v[<<p, "main">>] = q[<<p, "main">>]
           /\ Popped(q[<<p, "sub">>], v[<<p, "sub">>])
    BY PoppedCases
  <2>1. CASE side = "main"
    BY <2>0, <2>1
  <2>2. CASE side = "sub"
    BY <2>0, <2>2
  <2> QED BY <2>1, <2>2
<1> QED BY <1>1, <1>2, <1>3

\* The kernel that was taken.
LEMMA TakesKernel ==
    ASSUME SplitTypeOK, KernelsFit, NEW m, NEW half, NEW h, Takes(m, half, h), NEW k, Of(h, k)
    PROVE  /\ k \in DOMAIN launches /\ k \in Nat /\ launches[k].stream = m /\ m \in MainStream
           /\ KernelAt(queue[<<m, half>>], 1, k)
           /\ half = "main" => h.blocks = MainBlocks(launches[k])
           /\ half = "sub" => launches[k].split /\ h.blocks = SubBlocks(launches[k])
           /\ half \in {"main", "sub"}
<1>0. m \in MainStream /\ half \in {"main", "sub"} /\ h \in Task /\ h = queue[<<m, half>>][1]
      /\ Popped(queue[<<m, half>>], queue'[<<m, half>>])
  BY DEF Takes, PoppedFrom
<1>1. k \in Nat
  BY <1>0 DEF Of, Task
<1>2. Len(queue[<<m, half>>]) \in Nat \ {0}
  BY <1>0, PoppedPlaces
<1>3. KernelAt(queue[<<m, half>>], 1, k)
  BY <1>0, <1>2 DEF KernelAt, Of
<1>4. CASE half = "main"
  BY <1>0, <1>1, <1>3, <1>4 DEF KernelsFit, MainQ
<1>5. CASE half = "sub"
  BY <1>0, <1>1, <1>3, <1>5 DEF KernelsFit, SubQ
<1> QED BY <1>0, <1>1, <1>3, <1>4, <1>5

\* Taking a task keeps the kernels in their places.
LEMMA TakesKernels ==
    ASSUME SplitTypeOK, KernelsFit, NEW m, NEW half, NEW h, Takes(m, half, h)
    PROVE  KernelsFit'
<1>0. PoppedFrom(queue, queue', m, half) /\ Took(h, ran, ran') /\ launches' = launches
  BY DEF Takes
<1>1. \A i \in DOMAIN ran' : ran'[i].launch \in DOMAIN launches
  <2> SUFFICES ASSUME NEW i \in DOMAIN ran' PROVE ran'[i].launch \in DOMAIN launches
    OBVIOUS
  <2>1. PICK k : k = ran'[i].launch
    OBVIOUS
  <2>2. i \in RanOf(ran', k)
    BY <2>1 DEF RanOf
  <2>3. CASE Of(h, k)
    BY <2>1, <2>3, TakesKernel
  <2>4. CASE ~ Of(h, k)
    <3>1. i \in RanOf(ran, k)
      BY <1>0, <2>2, <2>4, TookRan
    <3> QED BY <2>1, <3>1 DEF RanOf, KernelsFit
  <2> QED BY <2>3, <2>4
<1> SUFFICES ASSUME NEW p \in MainStream
             PROVE  /\ \A i, k \in Nat : KernelAt(MainQ(p)', i, k) =>
                         /\ k \in DOMAIN launches /\ launches[k].stream = p
                         /\ MainQ(p)'[i].blocks = MainBlocks(launches[k])
                    /\ \A i, k \in Nat : KernelAt(SubQ(p)', i, k) =>
                         /\ k \in DOMAIN launches /\ launches[k].stream = p /\ launches[k].split
                         /\ SubQ(p)'[i].blocks = SubBlocks(launches[k])
                    /\ Single(MainQ(p)') /\ Single(SubQ(p)')
  BY <1>0, <1>1 DEF KernelsFit
<1>2. /\ \A i, k \in Nat : KernelAt(MainQ(p), i, k) =>
             /\ k \in DOMAIN launches /\ launches[k].stream = p
             /\ MainQ(p)[i].blocks = MainBlocks(launches[k])
      /\ \A i, k \in Nat : KernelAt(SubQ(p), i, k) =>
             /\ k \in DOMAIN launches /\ launches[k].stream = p /\ launches[k].split
             /\ SubQ(p)[i].blocks = SubBlocks(launches[k])
      /\ Single(MainQ(p)) /\ Single(SubQ(p))
  BY DEF KernelsFit
<1>3. /\ MainQ(p)' = MainQ(p) \/ Popped(MainQ(p), MainQ(p)')
      /\ SubQ(p)' = SubQ(p) \/ Popped(SubQ(p), SubQ(p)')
  BY <1>0, PoppedCases DEF MainQ, SubQ
<1>4. /\ \A i, k \in Nat : KernelAt(MainQ(p)', i, k) =>
            \E j \in Nat : KernelAt(MainQ(p), j, k) /\ MainQ(p)'[i] = MainQ(p)[j]
      /\ \A i, k \in Nat : KernelAt(SubQ(p)', i, k) =>
            \E j \in Nat : KernelAt(SubQ(p), j, k) /\ SubQ(p)'[i] = SubQ(p)[j]
  BY <1>3, PoppedTask
<1>5. Single(MainQ(p)') /\ Single(SubQ(p)')
  BY <1>2, <1>3, SinglePop
<1> QED BY <1>2, <1>3, <1>4, <1>5

\* A kernel that is taken has run: the count of its launch stays the same.
LEMMA TakesOut ==
    ASSUME SplitTypeOK, KernelsFit, NEW m, NEW half, NEW h, Takes(m, half, h),
           NEW k \in DOMAIN launches
    PROVE  /\ Out(k)' = Out(k)
           /\ Pending(SubQ(launches[k].stream), k) = 0 => Pending(SubQ(launches[k].stream), k)' = 0
<1>0. PoppedFrom(queue, queue', m, half) /\ Took(h, ran, ran') /\ launches' = launches
      /\ h = queue[<<m, half>>][1]
  BY DEF Takes
<1>2. launches[k].stream \in MainStream /\ k \in Nat
  BY LaunchTypes DEF SplitTypeOK
<1>3. PICK p \in MainStream : p = launches[k].stream
  BY <1>2
<1>4. /\ Out(k) = Cardinality(RanOf(ran, k)) + Pending(queue[<<p, "main">>], k) + Pending(queue[<<p, "sub">>], k)
      /\ Out(k)' = Cardinality(RanOf(ran', k)) + Pending(queue'[<<p, "main">>], k) + Pending(queue'[<<p, "sub">>], k)
  BY <1>0, <1>3 DEF Out, MainQ, SubQ
<1>5. /\ Pending(SubQ(launches[k].stream), k)' = Pending(queue'[<<p, "sub">>], k)
      /\ Pending(SubQ(launches[k].stream), k) = Pending(queue[<<p, "sub">>], k)
  BY <1>0, <1>3 DEF SubQ
<1>6. Cardinality(RanOf(ran, k)) \in Nat /\ \A s : Pending(s, k) \in {0, 1}
  BY OutNat
<1>7. Cardinality(RanOf(ran', k)) =
             IF Of(h, k) THEN Cardinality(RanOf(ran, k)) + 1 ELSE Cardinality(RanOf(ran, k))
  BY <1>0, TookCount
<1>8. Single(queue[<<p, "main">>]) /\ Single(queue[<<p, "sub">>])
  BY DEF KernelsFit, MainQ, SubQ
<1>9. Of(h, k) => p = m
  BY <1>3, TakesKernel
<1>10. CASE p # m /\ queue'[<<p, "main">>] = queue[<<p, "main">>] /\ queue'[<<p, "sub">>] = queue[<<p, "sub">>]
  BY <1>4, <1>5, <1>7, <1>9, <1>10
<1>11. CASE /\ p = m /\ half = "main" /\ queue'[<<p, "sub">>] = queue[<<p, "sub">>]
            /\ Popped(queue[<<p, "main">>], queue'[<<p, "main">>])
  <2>1. /\ ~ Of(h, k) => Pending(queue'[<<p, "main">>], k) = Pending(queue[<<p, "main">>], k)
        /\ Of(h, k) => Pending(queue[<<p, "main">>], k) = 1 /\ Pending(queue'[<<p, "main">>], k) = 0
    BY <1>0, <1>2, <1>8, <1>11, PendingPop
  <2>2. Pending(queue'[<<p, "sub">>], k) = Pending(queue[<<p, "sub">>], k)
    BY <1>11
  <2> QED BY <1>4, <1>5, <1>6, <1>7, <2>1, <2>2
<1>12. CASE /\ p = m /\ half = "sub" /\ queue'[<<p, "main">>] = queue[<<p, "main">>]
            /\ Popped(queue[<<p, "sub">>], queue'[<<p, "sub">>])
  <2>1. /\ ~ Of(h, k) => Pending(queue'[<<p, "sub">>], k) = Pending(queue[<<p, "sub">>], k)
        /\ Of(h, k) => Pending(queue[<<p, "sub">>], k) = 1 /\ Pending(queue'[<<p, "sub">>], k) = 0
    BY <1>0, <1>2, <1>8, <1>12, PendingPop
  <2>2. Pending(queue'[<<p, "main">>], k) = Pending(queue[<<p, "main">>], k)
    BY <1>12
  <2> QED BY <1>4, <1>5, <1>6, <1>7, <2>1, <2>2
<1> QED BY <1>0, <1>10, <1>11, <1>12, PoppedCases

\* Taking a task keeps the counts.
LEMMA TakesCounts ==
    ASSUME SplitTypeOK, KernelsFit, CountsFit, NEW m, NEW half, NEW h, Takes(m, half, h)
    PROVE  CountsFit'
<1>0. launches' = launches /\ stage' = stage
  BY DEF Takes
<1>1. \A l \in DOMAIN launches : (Open(l)' <=> Open(l)) /\ At(l)' = At(l) /\ Parts(l)' = Parts(l)
  BY <1>0 DEF Open, At, Parts
<1>2. \A l \in DOMAIN launches :
         /\ Out(l)' = Out(l)
         /\ Pending(SubQ(launches[l].stream), l) = 0 => Pending(SubQ(launches[l].stream), l)' = 0
  BY TakesOut
<1> QED BY <1>0, <1>1, <1>2 DEF CountsFit

\* Taking a task keeps the blocks: the part that was taken had not run before.
LEMMA TakesBlocks ==
    ASSUME SplitTypeOK, CallersFit, KernelsFit, CountsFit, BlocksFit,
           NEW m, NEW half, NEW h, Takes(m, half, h)
    PROVE  BlocksFit'
<1>0. PoppedFrom(queue, queue', m, half) /\ Took(h, ran, ran') /\ launches' = launches
      /\ stage' = stage /\ h = queue[<<m, half>>][1]
  BY DEF Takes
<1> SUFFICES ASSUME NEW l \in DOMAIN launches, launches[l].kind # "mixAiCore"
             PROVE  /\ \A i \in RanOf(ran', l) :
                         \/ ran'[i].blocks = MainBlocks(launches[l])
                         \/ launches[l].split /\ ran'[i].blocks = SubBlocks(launches[l])
                    /\ \A i, j \in RanOf(ran', l) : i # j => ran'[i].blocks # ran'[j].blocks
                    /\ \A i \in RanOf(ran', l), p \in Nat :
                         /\ KernelAt(queue'[<<launches[l].stream, "main">>], p, l) => ran'[i].blocks # MainBlocks(launches[l])
                         /\ KernelAt(queue'[<<launches[l].stream, "sub">>], p, l) => ran'[i].blocks # SubBlocks(launches[l])
                    /\ Open(l) /\ At(l) = "launchAiv" =>
                         \A i \in RanOf(ran', l) : ran'[i].blocks # SubBlocks(launches[l])
  BY <1>0 DEF BlocksFit, MainQ, SubQ, Open, At
<1>1. PICK p \in MainStream : p = launches[l].stream /\ l \in Nat
  BY LaunchTypes DEF SplitTypeOK
<1>2. PICK a, b : a = MainBlocks(launches[l]) /\ b = SubBlocks(launches[l])
  OBVIOUS
<1>3. /\ \A i \in RanOf(ran, l) : ran[i].blocks = a \/ (launches[l].split /\ ran[i].blocks = b)
      /\ \A i, j \in RanOf(ran, l) : i # j => ran[i].blocks # ran[j].blocks
      /\ \A i \in RanOf(ran, l), j \in Nat :
           /\ KernelAt(queue[<<p, "main">>], j, l) => ran[i].blocks # a
           /\ KernelAt(queue[<<p, "sub">>], j, l) => ran[i].blocks # b
      /\ Open(l) /\ At(l) = "launchAiv" => \A i \in RanOf(ran, l) : ran[i].blocks # b
  BY <1>1, <1>2 DEF BlocksFit, MainQ, SubQ
<1>4. launches[l].split => a # b
  BY <1>2, PartsBlocks
<1>5. \A i \in RanOf(ran, l) : ran'[i] = ran[i]
  BY <1>0, TookRan
<1>6. /\ \A j \in Nat : KernelAt(queue'[<<p, "main">>], j, l) =>
            \E o \in Nat : KernelAt(queue[<<p, "main">>], o, l) /\ (p = m /\ half = "main" => o # 1)
      /\ \A j \in Nat : KernelAt(queue'[<<p, "sub">>], j, l) =>
            \E o \in Nat : KernelAt(queue[<<p, "sub">>], o, l) /\ (p = m /\ half = "sub" => o # 1)
  BY <1>0, <1>1, PoppedKernels
<1>7. CASE ~ Of(h, l)
  <2>1. RanOf(ran', l) = RanOf(ran, l)
    BY <1>0, <1>7, TookRan
  <2> QED BY <1>1, <1>2, <1>3, <1>5, <1>6, <2>1
<1>8. CASE Of(h, l)
  <2>0. p = m /\ KernelAt(queue[<<p, half>>], 1, l) /\ half \in {"main", "sub"}
        /\ (half = "main" => h.blocks = a) /\ (half = "sub" => launches[l].split /\ h.blocks = b)
    <3>1. /\ launches[l].stream = m /\ KernelAt(queue[<<m, half>>], 1, l)
          /\ half = "main" => h.blocks = MainBlocks(launches[l])
          /\ half = "sub" => launches[l].split /\ h.blocks = SubBlocks(launches[l])
          /\ half \in {"main", "sub"}
      BY <1>8, TakesKernel
    <3> QED BY <1>1, <1>2, <3>1
  <2>1. PICK e : e = Len(ran) + 1
    OBVIOUS
  <2>2. RanOf(ran', l) = RanOf(ran, l) \cup {e} /\ ran'[e].blocks = h.blocks
    BY <1>0, <1>8, <2>1, TookRan
  <2>3. \A i \in RanOf(ran, l) : ran[i].blocks # h.blocks
    BY <1>3, <2>0
  <2>4. \A i \in RanOf(ran', l) : ran'[i].blocks = a \/ (launches[l].split /\ ran'[i].blocks = b)
    BY <1>3, <1>5, <2>0, <2>2
  <2>5. \A i, j \in RanOf(ran', l) : i # j => ran'[i].blocks # ran'[j].blocks
    BY <1>3, <1>5, <2>2, <2>3
  <2>6. Single(queue[<<p, "main">>]) /\ Single(queue[<<p, "sub">>])
    BY DEF KernelsFit, MainQ, SubQ
  <2>7. ~ \E j \in Nat : KernelAt(queue'[<<p, half>>], j, l)
    BY <1>1, <1>6, <2>0, <2>6 DEF Single
  <2>8. \A o \in Nat : KernelAt(queue[<<p, "sub">>], o, l) => launches[l].split
    BY <1>1 DEF KernelsFit, SubQ
  <2>9. \A i \in RanOf(ran', l), j \in Nat :
           /\ KernelAt(queue'[<<p, "main">>], j, l) => ran'[i].blocks # a
           /\ KernelAt(queue'[<<p, "sub">>], j, l) => ran'[i].blocks # b
    <3>1. CASE half = "main"
      <4>1. \A j \in Nat : KernelAt(queue'[<<p, "sub">>], j, l) => a # b
        BY <1>4, <1>6, <2>8
      <4>2. \A i \in RanOf(ran, l), j \in Nat : KernelAt(queue'[<<p, "sub">>], j, l) => ran'[i].blocks # b
        BY <1>3, <1>5, <1>6
      <4> QED BY <2>0, <2>2, <2>7, <3>1, <4>1, <4>2
    <3>2. CASE half = "sub"
      <4>1. a # b /\ h.blocks = b
        BY <1>4, <2>0, <3>2
      <4>2. \A i \in RanOf(ran, l), j \in Nat : KernelAt(queue'[<<p, "main">>], j, l) => ran'[i].blocks # a
        BY <1>3, <1>5, <1>6
      <4> QED BY <2>2, <2>7, <3>2, <4>1, <4>2
    <3> QED BY <2>0, <3>1, <3>2
  <2>10. Open(l) /\ At(l) = "launchAiv" => \A i \in RanOf(ran', l) : ran'[i].blocks # b
    <3> SUFFICES ASSUME Open(l), At(l) = "launchAiv"
                 PROVE  \A i \in RanOf(ran', l) : ran'[i].blocks # b
      OBVIOUS
    <3>1. Pending(queue[<<p, "sub">>], l) = 0
      BY <1>1 DEF CountsFit, SubQ
    <3>2. half = "main"
      BY <2>0, <3>1 DEF Pending
    <3>3. launches[l].split
      BY DEF CallersFit
    <3>4. h.blocks # b
      BY <1>4, <2>0, <3>2, <3>3
    <3> QED BY <1>3, <1>5, <2>2, <3>4
  <2> QED BY <1>1, <1>2, <2>4, <2>5, <2>9, <2>10
<1> QED BY <1>7, <1>8

\* Taking a task keeps the order.
LEMMA TakesOrder ==
    ASSUME SplitTypeOK, CallersFit, EventsFit, KernelsFit, OrderFits,
           NEW m, NEW half, NEW h, Takes(m, half, h)
    PROVE  OrderFits'
<1>0. PoppedFrom(queue, queue', m, half) /\ Took(h, ran, ran') /\ h = queue[<<m, half>>][1]
      /\ launches' = launches /\ stage' = stage /\ recorded' = recorded
  BY DEF Takes
<1>1. Done(queue, m, half)
  BY TakesDone
<1>2. \A l \in DOMAIN launches : l \in Nat /\ launches[l].stream \in MainStream
  BY LaunchTypes DEF SplitTypeOK
<1>a. \A k \in DOMAIN launches : Of(h, k) => launches[k].stream = m
  BY TakesKernel
<1>3. \A k, l \in DOMAIN launches :
         k # l /\ launches[k].stream = launches[l].stream /\ InOrder(k, l) => InOrder(k, l)'
  <2> SUFFICES ASSUME NEW k \in DOMAIN launches, NEW l \in DOMAIN launches,
                      k # l, launches[k].stream = launches[l].stream, InOrder(k, l)
               PROVE  InOrder(k, l)'
    OBVIOUS
  <2>1. PICK p \in MainStream : p = launches[l].stream /\ k \in Nat /\ l \in Nat
    BY <1>2
  <2>2. Ordered(queue[<<p, "main">>], queue[<<p, "sub">>], ran, k, l)
    BY <2>1 DEF InOrder, MainQ, SubQ
  <2>3. Local(h, p, m, k, l)
    BY <1>a, <2>1 DEF Local
  <2>4. Worked(queue, queue', ran, ran', m, half, h)
    BY <1>0, <1>1 DEF Worked
  <2>5. Ordered(queue'[<<p, "main">>], queue'[<<p, "sub">>], ran', k, l)
    BY <2>1, <2>2, <2>3, <2>4, PoppedOrdered
  <2> QED BY <1>0, <2>1, <2>5 DEF InOrder, MainQ, SubQ
<1>4. \A k, l \in DOMAIN launches :
         /\ SplitPair(k, l)' <=> SplitPair(k, l)
         /\ Ahead(k, l)' <=> Ahead(k, l)
         /\ Open(l)' <=> Open(l)
         /\ At(l)' = At(l)
  BY <1>0 DEF SplitPair, Ahead, Open, At
<1>5. \A k, l \in DOMAIN launches : Ahead(k, l) => k # l /\ launches[k].stream = launches[l].stream
  BY DEF Ahead, SplitPair, CallersFit
<1>6. \A k \in Nat, p \in MainStream :
         /\ \A n \in Nat : Marked(MainQ(p), k, n) => Marked(MainQ(p), k, n)'
         /\ \A n \in Nat : Marked(SubQ(p), k, n) => Marked(SubQ(p), k, n)'
         /\ Closed(MainQ(p), SubQ(p), k) => Closed(MainQ(p), SubQ(p), k)'
         /\ Closed(SubQ(p), MainQ(p), k) => Closed(SubQ(p), MainQ(p), k)'
  BY <1>0, <1>1, PoppedKeeps DEF MainQ, SubQ
<1>7. \A p \in MainStream : recorded[p]["A"] \in Nat /\ recorded[p]["B"] \in Nat
  BY EventTypes
<1>8. \A k, l \in DOMAIN launches : Ahead(k, l)' => FollowsFits(k, l)'
  <2> SUFFICES ASSUME NEW k \in DOMAIN launches, NEW l \in DOMAIN launches, Ahead(k, l)
               PROVE  FollowsFits(k, l)'
    BY <1>4
  <2>1. FollowsFits(k, l)
    BY DEF OrderFits
  <2>2. InOrder(k, l)'
    BY <1>3, <1>5, <2>1 DEF FollowsFits
  <2>3. PICK p \in MainStream : p = launches[l].stream /\ k \in Nat
    BY <1>2
  <2>4. Open(l) /\ At(l) = "waitA" => Marked(MainQ(p), k, recorded[p]["A"])'
    <3>1. Open(l) /\ At(l) = "waitA" => Marked(MainQ(p), k, recorded[p]["A"])
      BY <2>1, <2>3 DEF FollowsFits
    <3> QED BY <1>0, <1>6, <1>7, <2>3, <3>1
  <2>5. Open(l) /\ At(l) \in {"launchAic", "launchAiv"} => Closed(SubQ(p), MainQ(p), k)'
    <3>1. Open(l) /\ At(l) \in {"launchAic", "launchAiv"} => Closed(SubQ(p), MainQ(p), k)
      BY <2>1, <2>3 DEF FollowsFits
    <3> QED BY <1>6, <2>3, <3>1
  <2> QED BY <1>0, <1>4, <2>2, <2>3, <2>4, <2>5 DEF FollowsFits
<1>9. \A k, l \in DOMAIN launches :
        SplitPair(k, l)' /\ launches[k].res = "ok" /\ launches[l].res = "ok" =>
            InOrder(k, l)' \/ InOrder(l, k)'
  <2> SUFFICES ASSUME NEW k \in DOMAIN launches, NEW l \in DOMAIN launches, SplitPair(k, l),
                      launches[k].res = "ok", launches[l].res = "ok"
               PROVE  InOrder(k, l)' \/ InOrder(l, k)'
    BY <1>4
  <2>1. InOrder(k, l) \/ InOrder(l, k)
    BY DEF OrderFits
  <2> QED BY <1>3, <2>1 DEF SplitPair
<1>10. \A k \in DOMAIN launches : ReturnFits(k)'
  <2> SUFFICES ASSUME NEW k \in DOMAIN launches PROVE ReturnFits(k)'
    OBVIOUS
  <2>1. ReturnFits(k)
    BY DEF OrderFits
  <2>3. PICK p \in MainStream : p = launches[k].stream /\ k \in Nat
    BY <1>2
  <2>4. Open(k) /\ At(k) = "waitB" => Marked(SubQ(p), k, recorded[p]["B"])'
    <3>1. Open(k) /\ At(k) = "waitB" => Marked(SubQ(p), k, recorded[p]["B"])
      BY <2>1, <2>3 DEF ReturnFits
    <3> QED BY <1>0, <1>6, <1>7, <2>3, <3>1
  <2>5. launches[k].res = "ok" => Closed(MainQ(p), SubQ(p), k)'
    <3>1. launches[k].res = "ok" => Closed(MainQ(p), SubQ(p), k)
      BY <2>1, <2>3 DEF ReturnFits
    <3> QED BY <1>6, <2>3, <3>1
  <2> QED BY <1>0, <1>4, <2>3, <2>4, <2>5 DEF ReturnFits
<1> QED BY <1>0, <1>8, <1>9, <1>10 DEF OrderFits

\* The device works on a task.
LEMMA ExecuteKeeps == ASSUME SplitInv, NEW z \in Queues, Execute(z) PROVE SplitInv'
<1>a. SplitTypeOK /\ CallersFit /\ EventsFit /\ KernelsFit /\ CountsFit /\ BlocksFit /\ OrderFits
  BY DEF SplitInv
<1>b. PICK m \in MainStream, half \in {"main", "sub"}, h \in Task : Takes(m, half, h)
  BY <1>a, ExecuteTakes
<1>c. /\ launches' = launches /\ stage' = stage /\ recorded' = recorded
      /\ streamMap' = streamMap /\ subLive' = subLive /\ streamMtx' = streamMtx
      /\ queue' \in [Queues -> Seq(Task)] /\ ran' \in Seq(RanKernel)
  BY <1>b DEF Takes, PoppedFrom, Took
<1>1. SplitTypeOK'
  <2>1. reached' \in [MainStream -> [Event -> Nat]]
    BY <1>a, <1>b, TakesReached
  <2> QED BY <1>a, <1>c, <2>1 DEF SplitTypeOK, RanKernel
<1>2. CallersFit'
  BY <1>a, <1>c DEF CallersFit, Open, At
<1>3. EventsFit' /\ KernelsFit' /\ CountsFit' /\ BlocksFit' /\ OrderFits'
  BY <1>a, <1>b, TakesEvents, TakesKernels, TakesCounts, TakesBlocks, TakesOrder
<1> QED BY <1>1, <1>2, <1>3 DEF SplitInv

\* Every step keeps the invariant.
LEMMA SplitNextInv == SplitInv /\ [SplitNext]_splitVars => SplitInv'
<1> SUFFICES ASSUME SplitInv, [SplitNext]_splitVars PROVE SplitInv'
  OBVIOUS
<1>1. CASE UNCHANGED splitVars
  BY <1>1, SplitStutters
<1>2. ASSUME NEW m \in MainStream, DestroyStream(m) PROVE SplitInv'
  BY <1>2, DestroyStreamKeeps
<1>3. ASSUME NEW z \in Queues, Execute(z) PROVE SplitInv'
  BY <1>3, ExecuteKeeps
<1>4. ASSUME NEW c \in Caller, Len(launches) < Len(Asked),
             NEW k \in Asked[Len(launches) + 1], NEW m \in MainStream, Begin(c, k, m)
      PROVE  SplitInv'
  <2>1. PICK K : K = [kind : {"composite", "mixAiv", "mixAiCore"}, dim : Nat]
    OBVIOUS
  <2>2. Asked \in Seq(SUBSET K)
    BY <2>1, CoreAssumption
  <2>3. Len(launches) \in Nat
    BY DEF SplitInv, SplitTypeOK
  <2>4. Len(launches) + 1 \in 1 .. Len(Asked)
    BY <1>4, <2>2, <2>3
  <2>5. Asked[Len(launches) + 1] \in SUBSET K
    BY <2>2, <2>4
  <2>6. k \in [kind : {"composite", "mixAiv", "mixAiCore"}, dim : Nat]
    BY <1>4, <2>1, <2>5
  <2> QED BY <1>4, <2>6, BeginKeeps
<1>5. ASSUME NEW c \in Caller, Record(c, "A", "main") \/ Record(c, "B", "sub") PROVE SplitInv'
  BY <1>5, RecordKeeps
<1>6. ASSUME NEW c \in Caller, LaunchHalf(c, "main") \/ LaunchHalf(c, "sub") PROVE SplitInv'
  BY <1>6, LaunchHalfKeeps
<1>7. ASSUME NEW c \in Caller,
             LaunchPlain(c) \/ GetStreamAndEvent(c) \/ Lock(c) \/ WaitA(c) \/ WaitB(c) \/ Fail(c)
      PROVE  SplitInv'
  BY <1>7, LaunchPlainKeeps, GetStreamAndEventKeeps, LockKeeps, WaitAKeeps, WaitBKeeps, FailKeeps
<1> QED BY <1>1, <1>2, <1>3, <1>4, <1>5, <1>6, <1>7 DEF SplitNext
-----------------------------------------------------------------------------
(* Two launches act as one                                                 *)

\* What has run of a launch.
LEMMA RanIs == ASSUME NEW l PROVE Ran(l) = RanOf(ran, l)
  BY DEF Ran, RanOf

\* A launch that has to run after k begins to when the whole of k has run.
LEMMA InOrderCounts ==
    ASSUME SplitInv, NEW k \in DOMAIN launches, NEW l \in DOMAIN launches,
           launches[k].stream = launches[l].stream, launches[k].res = "ok", InOrder(k, l),
           NEW i \in Ran(l)
    PROVE  Cardinality({j \in Ran(k) : j < i}) = Parts(k)
<1>0. SplitTypeOK /\ CountsFit
  BY DEF SplitInv
<1>1. /\ \A p \in Nat : /\ ~ KernelAt(MainQ(launches[k].stream), p, k)
                        /\ ~ KernelAt(SubQ(launches[k].stream), p, k)
      /\ \A j \in RanOf(ran, k) : j < i
  BY RanIs DEF InOrder, Ordered
<1>2. Pending(MainQ(launches[k].stream), k) = 0 /\ Pending(SubQ(launches[k].stream), k) = 0
  BY <1>1 DEF Pending
<1>3. Out(k) = Parts(k)
  BY <1>0 DEF CountsFit
<1>4. Cardinality(RanOf(ran, k)) \in Nat
  BY <1>0, OutNat
<1>5. Cardinality(RanOf(ran, k)) = Parts(k)
  BY <1>2, <1>3, <1>4 DEF Out
<1>6. {j \in Ran(k) : j < i} = RanOf(ran, k)
  BY <1>1, RanIs
<1> QED BY <1>5, <1>6

\* A launch begins to run when those before it have run.
LEMMA RunsInCallOrder == SplitInv => InCallOrder
<1> SUFFICES ASSUME SplitInv, NEW l \in DOMAIN launches, NEW k \in launches[l].after, NEW i \in Ran(l)
             PROVE  Cardinality({j \in Ran(k) : j < i}) = Parts(k)
  BY DEF InCallOrder
<1>1. k \in DOMAIN launches /\ launches[k].stream = launches[l].stream /\ launches[k].res = "ok"
  BY DEF SplitInv, CallersFit
<1>2. Ahead(k, l)
  BY <1>1 DEF Ahead
<1>3. InOrder(k, l)
  BY <1>1, <1>2 DEF SplitInv, OrderFits, FollowsFits
<1> QED BY <1>1, <1>3, InOrderCounts

\* A split launch that has not failed has returned, holds the mutex, or has run nothing.
LEMMA OpenSplit ==
    ASSUME SplitInv, NEW l \in DOMAIN launches, launches[l].split, launches[l].res # "failed"
    PROVE  \/ launches[l].res = "ok"
           \/ Open(l) /\ At(l) \in Locked
           \/ RanOf(ran, l) = {}
<1>0. SplitTypeOK /\ CallersFit /\ CountsFit
  BY DEF SplitInv
<1>1. launches[l].res \in Result /\ launches[l].by \in Caller
  BY <1>0, LaunchTypes DEF SplitTypeOK
<1>2. CASE launches[l].res = "open" /\ At(l) \notin Locked
  <2>1. Open(l)
    BY <1>2 DEF Open
  <2>2. At(l) \in Stage /\ At(l) # "idle" /\ At(l) # "plain"
    BY <1>0, <1>1, <2>1 DEF SplitTypeOK, CallersFit, At
  <2>3. At(l) \in {"get", "lock"}
    BY <1>2, <2>2 DEF Stage
  <2>4. Out(l) = 0
    BY <1>0, <2>1, <2>3 DEF CountsFit
  <2> QED BY <1>0, <2>4, OutNone
<1> QED BY <1>1, <1>2 DEF Result, Open

\* Of two split launches on a stream, one runs after the other, or one has run nothing.
LEMMA SplitsInOrder ==
    ASSUME SplitInv, NEW k \in DOMAIN launches, NEW l \in DOMAIN launches, SplitPair(k, l),
           launches[k].res # "failed", launches[l].res # "failed"
    PROVE  InOrder(k, l) \/ InOrder(l, k) \/ RanOf(ran, k) = {} \/ RanOf(ran, l) = {}
<1>0. SplitTypeOK /\ CallersFit /\ OrderFits
  BY DEF SplitInv
<1>1. SplitPair(l, k) /\ k # l /\ launches[k].split /\ launches[l].split
      /\ launches[k].stream = launches[l].stream
  BY DEF SplitPair
<1>2. /\ launches[k].res = "ok" \/ (Open(k) /\ At(k) \in Locked) \/ RanOf(ran, k) = {}
      /\ launches[l].res = "ok" \/ (Open(l) /\ At(l) \in Locked) \/ RanOf(ran, l) = {}
  BY <1>1, OpenSplit
<1>3. CASE launches[k].res = "ok" /\ launches[l].res = "ok"
  BY <1>0, <1>3 DEF OrderFits
<1>4. CASE launches[k].res = "ok" /\ Open(l) /\ At(l) \in Locked
  BY <1>0, <1>4 DEF OrderFits, Ahead, FollowsFits
<1>5. CASE launches[l].res = "ok" /\ Open(k) /\ At(k) \in Locked
  BY <1>0, <1>1, <1>5 DEF OrderFits, Ahead, FollowsFits
<1>6. CASE Open(k) /\ At(k) \in Locked /\ Open(l) /\ At(l) \in Locked
  BY <1>0, <1>1, <1>6, Exclusive
<1> QED BY <1>2, <1>3, <1>4, <1>5, <1>6

\* Nothing of a split launch runs between the halves of another.
LEMMA HalvesRunTogether == SplitInv => HalvesTogether
<1> SUFFICES ASSUME SplitInv, NEW k \in DOMAIN launches, NEW l \in DOMAIN launches,
                    launches[k].split, launches[k].res # "failed",
                    launches[l].split, launches[l].res # "failed",
                    k # l, launches[k].stream = launches[l].stream,
                    NEW i \in Ran(k), NEW j \in Ran(k), NEW n \in Ran(l), i < n, n < j
             PROVE  FALSE
  BY DEF HalvesTogether
<1>1. i \in RanOf(ran, k) /\ j \in RanOf(ran, k) /\ n \in RanOf(ran, l)
  BY RanIs
<1>2. i \in Nat /\ j \in Nat /\ n \in Nat
  BY <1>1 DEF RanOf, SplitInv, SplitTypeOK
<1>3. SplitPair(k, l)
  BY DEF SplitPair
<1>4. InOrder(k, l) \/ InOrder(l, k)
  BY <1>1, <1>3, SplitsInOrder
<1>5. InOrder(k, l) => j < n
  BY <1>1 DEF InOrder, Ordered
<1>6. InOrder(l, k) => n < i
  BY <1>1 DEF InOrder, Ordered
<1> QED BY <1>2, <1>4, <1>5, <1>6

\* A set of two.
LEMMA TwoElements ==
    ASSUME NEW S, IsFiniteSet(S), Cardinality(S) = 2
    PROVE  \E x, y \in S : x # y /\ S = {x, y}
<1>1. S # {}
  BY FS_EmptySet
<1>2. PICK x \in S : TRUE
  BY <1>1
<1>3. IsFiniteSet(S \ {x}) /\ Cardinality(S \ {x}) = 1
  BY FS_RemoveElement
<1>4. PICK y : S \ {x} = {y}
  BY <1>3, FS_Singleton
<1> QED BY <1>2, <1>4

\* The parts of a launch are cut so that every block is in one of them.
LEMMA BlocksRunOnce == SplitInv => BlocksOnce
<1> SUFFICES ASSUME SplitInv, NEW l \in DOMAIN launches,
                    Cardinality(Ran(l)) = Parts(l), launches[l].kind # "mixAiCore",
                    NEW b \in 0 .. launches[l].dim + AivNum
             PROVE  Cardinality({i \in Ran(l) : b \in ran[i].blocks})
                        = IF b < launches[l].dim THEN 1 ELSE 0
  BY DEF BlocksOnce
<1>0. SplitTypeOK /\ CallersFit /\ BlocksFit
  BY DEF SplitInv
<1>1. PICK d \in Nat : d = launches[l].dim
  BY <1>0, LaunchTypes DEF SplitTypeOK
<1>2. PICK S : S = Ran(l)
  OBVIOUS
<1>3. S = RanOf(ran, l) /\ IsFiniteSet(S) /\ Cardinality(S) = Parts(l)
  BY <1>0, <1>2, RanIs, OutNat
<1>4. PICK C : C = {i \in S : b \in ran[i].blocks}
  OBVIOUS
<1>5. \A x : Cardinality({x}) = 1
  BY FS_Singleton
<1>6. Cardinality({}) = 0
  BY FS_EmptySet
<1>b. b \in Int /\ b >= 0
  BY <1>1, CoreAssumption
<1>7. SUFFICES Cardinality(C) = IF b < d THEN 1 ELSE 0
  BY <1>1, <1>2, <1>4
<1>8. CASE ~ launches[l].split
  <2>1. Cardinality(S) = 1
    BY <1>3, <1>8 DEF Parts
  <2>2. PICK x : S = {x}
    BY <1>3, <2>1, FS_Singleton
  <2>3. ran[x].blocks = MainBlocks(launches[l])
    BY <1>0, <1>3, <1>8, <2>2 DEF BlocksFit
  <2>4. ran[x].blocks = 0 .. d - 1
    BY <1>0, <1>1, <1>8, <2>3, PartsBlocks
  <2>5. CASE b < d
    <3>1. b \in ran[x].blocks
      BY <1>b, <2>4, <2>5
    <3>2. C = {x}
      BY <1>4, <2>2, <3>1
    <3> QED BY <1>5, <2>5, <3>2
  <2>6. CASE ~ (b < d)
    <3>1. b \notin ran[x].blocks
      BY <1>b, <2>4, <2>6
    <3>2. C = {}
      BY <1>4, <2>2, <3>1
    <3> QED BY <1>6, <2>6, <3>2
  <2> QED BY <2>5, <2>6
<1>9. CASE launches[l].split
  <2>1. Cardinality(S) = 2
    BY <1>3, <1>9 DEF Parts
  <2>2. PICK x \in S, y \in S : x # y /\ S = {x, y}
    BY <1>3, <2>1, TwoElements
  <2>3. PICK p, q : p = MainBlocks(launches[l]) /\ q = SubBlocks(launches[l])
    OBVIOUS
  <2>4. /\ ran[x].blocks \in {p, q} /\ ran[y].blocks \in {p, q}
        /\ ran[x].blocks # ran[y].blocks
    BY <1>0, <1>3, <2>2, <2>3 DEF BlocksFit
  <2>5. PICK u \in S, v \in S : u # v /\ S = {u, v} /\ ran[u].blocks = p /\ ran[v].blocks = q
    <3>1. CASE ran[x].blocks = p
      BY <2>2, <2>4, <3>1
    <3>2. CASE ran[x].blocks = q
      <4>1. y # x /\ S = {y, x} /\ ran[y].blocks = p
        BY <2>2, <2>4, <3>2
      <4> QED BY <2>2, <3>2, <4>1
    <3> QED BY <2>4, <3>1, <3>2
  <2>6. PICK a \in Nat : 0 < a /\ a < d /\ p = 0 .. a - 1 /\ q = a .. d - 1
    BY <1>0, <1>1, <1>9, <2>3, PartsBlocks
  <2>7. CASE b < a
    <3>1. b \in ran[u].blocks /\ b \notin ran[v].blocks /\ b < d
      BY <1>b, <2>5, <2>6, <2>7
    <3>2. C = {u}
      BY <1>4, <2>5, <3>1
    <3> QED BY <1>5, <3>1, <3>2
  <2>8. CASE a <= b /\ b < d
    <3>1. b \notin ran[u].blocks /\ b \in ran[v].blocks
      BY <1>b, <2>5, <2>6, <2>8
    <3>2. C = {v}
      BY <1>4, <2>5, <3>1
    <3> QED BY <1>5, <2>8, <3>2
  <2>9. CASE ~ (b < d)
    <3>1. b \notin ran[u].blocks /\ b \notin ran[v].blocks
      BY <1>b, <2>5, <2>6, <2>9
    <3>2. C = {}
      BY <1>4, <2>5, <3>1
    <3> QED BY <1>6, <2>9, <3>2
  <2> QED BY <1>b, <2>6, <2>7, <2>8, <2>9
<1> QED BY <1>8, <1>9

\* A wait for a record.
LEMMA WaitOfRecord ==
    ASSUME NEW x \in Task, NEW y \in Task, x.do = "record", y.do = "wait", x.event = y.event, x.n = y.n
    PROVE  [x EXCEPT !.do = "wait"] = y
<1>1. PICK R : R = [do : {"record", "wait"}, event : Event, n : Nat]
  OBVIOUS
<1>2. x \in R /\ y \in R
  BY <1>1 DEF Task
<1>3. x = [do |-> "record", event |-> x.event, n |-> x.n] /\ y = [do |-> "wait", event |-> y.event, n |-> y.n]
  BY <1>1, <1>2
<1> QED BY <1>3

\* The record that the wait at place i of s is for was reached, or is in t.
Comes(s, t, i, lo) == lo >= s[i].n \/ \E j \in DOMAIN t : [t[j] EXCEPT !.do = "wait"] = s[i]

\* Every wait is for a record that comes.
LEMMA RecordComes ==
    ASSUME NEW s \in Seq(Task), NEW t \in Seq(Task), NEW e, NEW lo \in Nat, NEW hi \in Nat,
           Awaits(s, e, hi), Numbered(t, e, lo, hi), NEW i \in DOMAIN s, s[i].do = "wait"
    PROVE  s[i].event = e /\ Comes(s, t, i, lo)
<1>1. i \in Nat /\ i \in 1 .. Len(s) /\ s[i] \in Task
  BY ElementOfSeq
<1>2. PICK n \in Nat : n = s[i].n
  BY <1>1 DEF Task
<1>3. WaitAt(s, i, n)
  BY <1>1, <1>2 DEF WaitAt
<1>4. s[i].event = e /\ n <= hi
  BY <1>1, <1>3 DEF Awaits
<1>5. CASE lo < n
  <2>1. PICK j \in Nat : RecordAt(t, j, n)
    BY <1>4, <1>5 DEF Numbered
  <2>2. t[j].event = e /\ t[j].do = "record" /\ t[j].n = n /\ j \in DOMAIN t
    BY <2>1 DEF Numbered, RecordAt
  <2>3. t[j] \in Task
    BY <2>2, ElementOfSeq
  <2>4. [t[j] EXCEPT !.do = "wait"] = s[i]
    BY <1>1, <1>2, <1>4, <2>2, <2>3, WaitOfRecord
  <2> QED BY <1>4, <2>2, <2>4 DEF Comes
<1>6. CASE lo >= n
  BY <1>2, <1>4, <1>6 DEF Comes
<1> QED BY <1>5, <1>6

\* Second streams are there while they are used, and no wait is in vain.
LEMMA StreamsStayUsable == SplitInv => StreamsUsable
<1> SUFFICES ASSUME SplitInv PROVE StreamsUsable
  OBVIOUS
<1>0. SplitTypeOK /\ CallersFit /\ EventsFit
  BY DEF SplitInv
<1>1. \A c \in Caller : Holding(c) => Main(c) \in subLive
  <2> SUFFICES ASSUME NEW c \in Caller, Holding(c) PROVE Main(c) \in subLive
    OBVIOUS
  <2>1. stage[c] \in Locked /\ stage[c] # "idle"
    BY DEF Holding, Locked
  <2>2. PICK k \in DOMAIN launches, p \in MainStream :
           k = Latest(c) /\ p = Main(c) /\ Owns(c, k, p) /\ At(k) = stage[c]
    BY <2>1, WorksOn
  <2>3. Open(k) /\ launches[k].stream = p
    BY <2>2 DEF Owns
  <2>4. p \in streamMap
    BY <1>0, <2>1, <2>2, <2>3 DEF CallersFit
  <2> QED BY <1>0, <2>2, <2>4 DEF SplitTypeOK
<1>2. ASSUME NEW q \in Queues, NEW i \in DOMAIN queue[q], queue[q][i].do = "wait"
      PROVE  \/ reached[q[1]][queue[q][i].event] >= queue[q][i].n
             \/ \E r \in Queues : \E j \in DOMAIN queue[r] :
                   /\ r # q
                   /\ [queue[r][j] EXCEPT !.do = "wait"] = queue[q][i]
  <2>1. PICK m \in MainStream, half \in {"main", "sub"} : q = <<m, half>> /\ q[1] = m
    BY DEF Queues
  <2>2. /\ reached[m]["A"] \in Nat /\ reached[m]["B"] \in Nat
        /\ recorded[m]["A"] \in Nat /\ recorded[m]["B"] \in Nat
        /\ MainQ(m) \in Seq(Task) /\ SubQ(m) \in Seq(Task)
    BY <1>0, EventTypes
  <2>3. /\ Numbered(MainQ(m), "A", reached[m]["A"], recorded[m]["A"])
        /\ Numbered(SubQ(m), "B", reached[m]["B"], recorded[m]["B"])
        /\ Awaits(SubQ(m), "A", recorded[m]["A"])
        /\ Awaits(MainQ(m), "B", recorded[m]["B"])
    BY <1>0 DEF EventsFit
  <2>4. CASE half = "main"
    <3>1. PICK r \in Queues : r = <<m, "sub">> /\ r # q /\ queue[r] = SubQ(m)
      BY <2>1, <2>4 DEF Queues, SubQ
    <3>2. queue[q] = MainQ(m)
      BY <2>1, <2>4 DEF MainQ
    <3>3. i \in DOMAIN MainQ(m) /\ MainQ(m)[i].do = "wait"
      BY <1>2, <3>2
    <3>4. MainQ(m)[i].event = "B" /\ Comes(MainQ(m), SubQ(m), i, reached[m]["B"])
      BY <2>2, <2>3, <3>3, RecordComes
    <3> QED BY <2>1, <3>1, <3>2, <3>4 DEF Comes
  <2>5. CASE half = "sub"
    <3>1. PICK r \in Queues : r = <<m, "main">> /\ r # q /\ queue[r] = MainQ(m)
      BY <2>1, <2>5 DEF Queues, MainQ
    <3>2. queue[q] = SubQ(m)
      BY <2>1, <2>5 DEF SubQ
    <3>3. i \in DOMAIN SubQ(m) /\ SubQ(m)[i].do = "wait"
      BY <1>2, <3>2
    <3>4. SubQ(m)[i].event = "A" /\ Comes(SubQ(m), MainQ(m), i, reached[m]["A"])
      BY <2>2, <2>3, <3>3, RecordComes
    <3> QED BY <2>1, <3>1, <3>2, <3>4 DEF Comes
  <2> QED BY <2>4, <2>5
<1> QED BY <1>1, <1>2 DEF StreamsUsable

\* The invariant implies the property.
LEMMA SplitInvOrdered == SplitInv => SplitOrdered
  BY RunsInCallOrder, HalvesRunTogether, BlocksRunOnce, StreamsStayUsable DEF SplitOrdered

-----------------------------------------------------------------------------
(* Together                                                                *)

\* A step of one part is no step of the others.
LEMMA StepOfParts ==
    [Next]_vars => [StaticNext]_staticVars /\ [LaunchNext]_launchVars /\ [SplitNext]_splitVars
  BY DEF Next, vars, Select, LaunchOne, Split

\* What selection relies on holds at any time: the flags, the registered
\* binaries and the threads' steps fit (StaticInv).
THEOREM SelectionInvariance == Spec => []StaticInv
<1>1. Init => StaticInv
  BY StaticInitInv DEF Init
<1>2. StaticInv /\ [Next]_vars => StaticInv'
  BY StepOfParts, StaticNextInv
<1> QED BY <1>1, <1>2, PTL DEF Spec

\* SelectBin never gives a thread a binary that was freed, nor one older than
\* what the thread was promised when its call began.
THEOREM SelectionUsable == Spec => []SelectedUsable
<1>1. StaticInv => SelectedUsable
  BY DEF StaticInv
<1> QED BY <1>1, SelectionInvariance, PTL

\* What launching relies on holds at any time: contexts, registers and the
\* binaries on the devices fit the threads' jobs (LaunchInv).
THEOREM LaunchInvariance == Spec => []LaunchInv
<1>1. Init => LaunchInv
  BY LaunchInitInv DEF Init
<1>2. LaunchInv /\ [Next]_vars => LaunchInv'
  BY StepOfParts, LaunchNextInv
<1> QED BY <1>1, <1>2, PTL DEF Spec

\* Every kernel is launched with the function, the binary and the registers
\* computed for it, whatever the thread tiled in between.
THEOREM LaunchesUseOwn == Spec => []LaunchesOwn
<1>1. LaunchInv => LaunchesOwn
  BY DEF LaunchInv
<1> QED BY <1>1, LaunchInvariance, PTL

\* What launches on two streams rely on holds at any time: the mutex and the
\* table fit the callers, the events the queues, and what was issued for a
\* launch where its caller is (SplitInv).
THEOREM SplitInvariance == Spec => []SplitInv
<1>1. Init => SplitInv
  BY SplitInitInv DEF Init
<1>2. SplitInv /\ [Next]_vars => SplitInv'
  BY StepOfParts, SplitNextInv
<1> QED BY <1>1, <1>2, PTL DEF Spec

\* The two halves of a split launch behave like one launch on the caller's
\* stream: in the order of the calls, never mixed with another split launch,
\* every block once, on streams and for records that exist, whichever threads
\* launch there and whichever calls of the runtime fail.
THEOREM SplitLaunchesAsOne == Spec => []SplitOrdered
<1>1. SplitInv => SplitOrdered
  BY SplitInvOrdered
<1> QED BY <1>1, SplitInvariance, PTL

=============================================================================
