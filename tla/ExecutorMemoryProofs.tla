------------------------ MODULE ExecutorMemoryProofs ------------------------
(***************************************************************************)
(* For every number of threads, handles, pool indices and blocks: every    *)
(* index has one user, the objects of two users never overlap, no block    *)
(* disappears but with its link, the objects of an executor stay until it  *)
(* is deleted, and an index that can be taken has an empty pool.           *)
(*                                                                         *)
(* The lifecycle of the indices and the pools have an inductive invariant  *)
(* each, which the steps of the other one do not touch; only the last one, *)
(* about the objects of a handle and the pools nobody uses, needs both.    *)
(***************************************************************************)
EXTENDS ExecutorMemory, BasicFacts, FiniteSetTheorems, TLAPS

USE PoolAssumption, HandleAssumption, IndexAssumption
-----------------------------------------------------------------------------
(* The composition is a lifecycle.                                         *)

\* A step of the composition is a step of the lifecycle or leaves it alone.
LEMMA StepOfLifecycle == [Next]_vars => [LifecycleNext]_lifecycleVars
<1>1. ASSUME UNCHANGED vars PROVE UNCHANGED lifecycleVars
  BY <1>1 DEF vars
<1>2. ASSUME NEW t \in Thread, \E size \in Size : Allocate(t, size)
      PROVE  UNCHANGED lifecycleVars
  BY <1>2 DEF Allocate
<1>3. ASSUME NEW t \in Thread, FreeBlocks(t) PROVE UNCHANGED lifecycleVars
  BY <1>3 DEF FreeBlocks
<1>4. ASSUME NEW t \in Thread,
             \/ InitHugeMemThreadLocal(t) \/ StartPlain(t) \/ SetRepeatable(t)
             \/ UnInitHugeMemThreadLocal(t) \/ Release(t) \/ Return(t)
      PROVE  LifecycleNext
  BY <1>4 DEF Release, Return, LifecycleNext, Cleanup
<1>5. ASSUME NEW t \in Thread, NEW h \in Handle, UseHandle(t, h) PROVE LifecycleNext
  BY <1>5 DEF UseHandle, LifecycleNext
<1>6. ASSUME NEW t \in Thread, NEW h \in Handle, NEW m \in {"once", "default"},
             EndPhaseOne(t, h, m)
      PROVE  LifecycleNext
  BY <1>6 DEF EndPhaseOne, LifecycleNext
<1> QED BY <1>1, <1>2, <1>3, <1>4, <1>5, <1>6 DEF Next

\* What threads do with the memory of an executor follows the lifecycle of its
\* index: InitHugeMemThreadLocal, phase one, phase two or destruction,
\* ReleaseHugeMem, with nothing in between that moves the index.
THEOREM ImplementsLifecycle == Spec => LifecycleSpec
<1>1. Init => LifecycleInit
  BY DEF Init
<1> QED BY <1>1, StepOfLifecycle, PTL DEF Spec, LifecycleSpec
-----------------------------------------------------------------------------
(* One user for every index.                                               *)

\* An index that is at a place is nowhere else, and not dropped.
LEMMA Alone ==
    ASSUME OnePlace, NEW x \in Index, NEW l, NEW v, At(x, l, v)
    PROVE  x \notin dropped /\ \A k, u : At(x, k, u) <=> k = l /\ u = v
BY DEF OnePlace

\* Index x moves to place l of v, and no other index moves or is dropped.
Moves(x, l, v) ==
    /\ \A i \in Index : i # x => \A k, u : At(i, k, u)' <=> At(i, k, u)
    /\ \A k, u : At(x, k, u)' <=> k = l /\ u = v

LEMMA IndexMoved ==
    ASSUME OnePlace, IsInjective(indices'), dropped' = dropped,
           NEW x, x \notin dropped, NEW l, NEW v, Moves(x, l, v)
    PROVE  OnePlace'
<1>1. ASSUME NEW i \in Index, NEW k, NEW m, NEW u, NEW w, At(i, k, u)', At(i, m, w)'
      PROVE  k = m /\ u = w
  <2>1. CASE i = x
    BY <1>1, <2>1 DEF Moves
  <2>2. CASE i # x
    BY <1>1, <2>2 DEF OnePlace, Moves
  <2> QED BY <2>1, <2>2
<1>2. ASSUME NEW i \in Index PROVE i \in dropped' <=> ~ \E k, u : At(i, k, u)'
  <2>1. CASE i = x
    BY <2>1 DEF Moves
  <2>2. CASE i # x
    BY <2>2 DEF OnePlace, Moves
  <2> QED BY <2>1, <2>2
<1> QED BY <1>1, <1>2 DEF OnePlace

\* No index moves.
LEMMA NoneMoved ==
    ASSUME OnePlace, indices' = indices, dropped' = dropped,
           \A i \in Index : \A k, u : At(i, k, u)' <=> At(i, k, u)
    PROVE  OnePlace'
BY DEF OnePlace

\* GetAvaiablePoolIndex: the index goes from the stack to the thread.
LEMMA TakeStep ==
    ASSUME LifecycleInv, NEW t \in Thread, InitHugeMemThreadLocal(t)
    PROVE  LifecycleInv'
<1>1. LifecycleTypeOK /\ OnePlace /\ Copies
  BY DEF LifecycleInv
<1>2. /\ call[t] = "idle" /\ call' = [call EXCEPT ![t] = "one"]
      /\ UNCHANGED <<alive, mode, index, held, made, freeing, dropped>>
      /\ call' \in [Thread -> {"idle", "one", "made", "two", "free"}]
      /\ \A u \in Thread : u # t => call'[u] = call[u]
      /\ call'[t] = "one"
  BY <1>1 DEF InitHugeMemThreadLocal, LifecycleTypeOK
<1>3. tls[t] = Invalid
  BY <1>1, <1>2 DEF Copies
<1>4. CASE indices = <<>>
  <2>1. tls' = [tls EXCEPT ![t] = Invalid] /\ indices' = indices
    BY <1>4 DEF InitHugeMemThreadLocal
  <2>2. tls' = tls
    BY <1>1, <1>3, <2>1 DEF LifecycleTypeOK
  <2>3. \A i \in Index : \A k, u : At(i, k, u)' <=> At(i, k, u)
    BY <1>2, <1>3, <2>1, <2>2 DEF At
  <2>4. OnePlace'
    BY <1>1, <1>2, <2>1, <2>3, NoneMoved
  <2>5. LifecycleTypeOK'
    BY <1>1, <1>2, <2>1, <2>2 DEF LifecycleTypeOK
  <2>6. Copies'
    BY <1>1, <1>2, <2>2 DEF Copies
  <2> QED BY <2>4, <2>5, <2>6 DEF LifecycleInv
<1>5. CASE indices # <<>>
  <2>1. PICK x : x = indices[Len(indices)]
    OBVIOUS
  <2>2. tls' = [tls EXCEPT ![t] = x] /\ indices' = SubSeq(indices, 1, Len(indices) - 1)
    BY <1>5, <2>1 DEF InitHugeMemThreadLocal
  <2>3. /\ indices \in Seq(Index) /\ IsInjective(indices)
    BY <1>1 DEF LifecycleTypeOK, OnePlace
  <2>4. /\ indices' \in Seq(Index) /\ IsInjective(indices') /\ x \in Range(indices)
        /\ Range(indices') = Range(indices) \ {x}
    BY <1>5, <2>1, <2>2, <2>3, PopList
  <2>5. x \in Index /\ x # Invalid
    BY <2>3, <2>4, RangeOfList
  <2>6. /\ tls' \in [Thread -> Index \cup {Invalid}] /\ tls'[t] = x
        /\ \A u \in Thread : u # t => tls'[u] = tls[u]
    BY <1>1, <2>2, <2>5 DEF LifecycleTypeOK
  <2>7. \A k, u : At(x, k, u) <=> k = "stack" /\ u = None
    <3>1. At(x, "stack", None)
      BY <2>4 DEF At
    <3> QED BY <1>1, <2>5, <3>1, Alone
  <2>8. \A i \in Index : i # x => \A k, u : At(i, k, u)' <=> At(i, k, u)
    BY <1>2, <1>3, <2>4, <2>6 DEF At
  <2>9. \A k, u : At(x, k, u)' <=> k = "thread" /\ u = t
    <3>1. ASSUME NEW k, NEW u, At(x, k, u)' PROVE k = "thread" /\ u = t
      <4>1. ~ (k = "thread" /\ u = t) => At(x, k, u) /\ k # "stack"
        BY <1>2, <2>4, <2>6, <3>1 DEF At
      <4> QED BY <2>7, <4>1
    <3>2. At(x, "thread", t)'
      BY <1>2, <2>6 DEF At
    <3> QED BY <3>1, <3>2
  <2>11. OnePlace'
    <3>1. x \notin dropped /\ Moves(x, "thread", t)
      BY <1>1, <2>5, <2>7, <2>8, <2>9, Alone DEF Moves
    <3> QED BY <1>1, <1>2, <2>4, <3>1, IndexMoved
  <2>12. LifecycleTypeOK'
    BY <1>1, <1>2, <2>4, <2>6 DEF LifecycleTypeOK
  <2>13. Copies'
    BY <1>1, <1>2, <2>6 DEF Copies
  <2> QED BY <2>11, <2>12, <2>13 DEF LifecycleInv
<1> QED BY <1>4, <1>5

\* A phase one without huge memory.
LEMMA PlainStep ==
    ASSUME LifecycleInv, NEW t \in Thread, StartPlain(t)
    PROVE  LifecycleInv'
<1>1. LifecycleTypeOK /\ OnePlace /\ Copies
  BY DEF LifecycleInv
<1>2. /\ call[t] = "idle"
      /\ UNCHANGED <<indices, tls, alive, mode, index, held, made, freeing, dropped>>
      /\ call' \in [Thread -> {"idle", "one", "made", "two", "free"}]
      /\ \A u \in Thread : u # t => call'[u] = call[u]
      /\ call'[t] = "one"
  BY <1>1 DEF StartPlain, LifecycleTypeOK
<1>3. tls[t] = Invalid
  BY <1>1, <1>2 DEF Copies
<1>4. \A i \in Index : \A k, u : At(i, k, u)' <=> At(i, k, u)
  BY <1>2, <1>3 DEF At
<1>5. OnePlace'
  BY <1>1, <1>2, <1>4, NoneMoved
<1>6. LifecycleTypeOK'
  BY <1>1, <1>2 DEF LifecycleTypeOK
<1>7. Copies'
  BY <1>1, <1>2 DEF Copies
<1> QED BY <1>5, <1>6, <1>7 DEF LifecycleInv

\* UnInitHugeMemThreadLocal: without a handle the index is dropped.
LEMMA ForgetStep ==
    ASSUME LifecycleInv, NEW t \in Thread, UnInitHugeMemThreadLocal(t)
    PROVE  LifecycleInv'
<1>1. LifecycleTypeOK /\ OnePlace /\ Copies
  BY DEF LifecycleInv
<1>2. /\ call[t] \in {"one", "made"}
      /\ UNCHANGED <<indices, alive, mode, index, held, freeing>>
      /\ call' \in [Thread -> {"idle", "one", "made", "two", "free"}]
      /\ \A u \in Thread : u # t => call'[u] = call[u] /\ tls'[u] = tls[u] /\ made'[u] = made[u]
      /\ call'[t] = "idle" /\ tls'[t] = Invalid
      /\ tls' \in [Thread -> Index \cup {Invalid}]
      /\ made' \in [Thread -> Handle \cup {None}]
  BY <1>1 DEF UnInitHugeMemThreadLocal, LifecycleTypeOK
<1>3. dropped' = dropped \cup (IF call[t] = "one" THEN {tls[t]} \ {Invalid} ELSE {})
  BY DEF UnInitHugeMemThreadLocal
<1>4. tls[t] \in Index \cup {Invalid}
  BY <1>1 DEF LifecycleTypeOK
<1>5. LifecycleTypeOK'
  BY <1>1, <1>2, <1>3, <1>4 DEF LifecycleTypeOK
<1>6. Copies'
  BY <1>1, <1>2 DEF Copies
<1>7. ASSUME NEW i \in Index, ~ (call[t] = "one" /\ tls[t] = i)
      PROVE  /\ \A k, u : At(i, k, u)' <=> At(i, k, u)
             /\ i \in dropped' <=> i \in dropped
  <2>1. i # Invalid
    OBVIOUS
  <2> QED BY <1>2, <1>3, <1>7, <2>1 DEF At
<1>8. ASSUME NEW i \in Index, call[t] = "one", tls[t] = i
      PROVE  i \in dropped' /\ \A k, u : ~ At(i, k, u)'
  <2>1. i # Invalid
    OBVIOUS
  <2>2. At(i, "thread", t)
    BY <1>8 DEF At
  <2>3. \A k, u : At(i, k, u) => k = "thread" /\ u = t
    BY <1>1, <2>2, Alone
  <2>4. \A k, u : At(i, k, u)' => At(i, k, u) /\ ~ (k = "thread" /\ u = t)
    BY <1>2, <2>1 DEF At
  <2> QED BY <1>3, <1>8, <2>1, <2>3, <2>4
<1>9. OnePlace'
  <2>1. IsInjective(indices')
    BY <1>1, <1>2 DEF OnePlace
  <2>2. ASSUME NEW i \in Index, NEW k, NEW l, NEW u, NEW v, At(i, k, u)', At(i, l, v)'
        PROVE  k = l /\ u = v
    BY <1>1, <1>7, <1>8, <2>2 DEF OnePlace
  <2>3. ASSUME NEW i \in Index PROVE i \in dropped' <=> ~ \E k, u : At(i, k, u)'
    BY <1>1, <1>7, <1>8 DEF OnePlace
  <2> QED BY <2>1, <2>2, <2>3 DEF OnePlace
<1> QED BY <1>5, <1>6, <1>9 DEF LifecycleInv

\* The handle that phase one makes takes the index over.
LEMMA MakeStep ==
    ASSUME LifecycleInv, NEW t \in Thread, NEW h \in Handle, NEW m, PhaseOne(t, h, m)
    PROVE  LifecycleInv'
<1>1. LifecycleTypeOK /\ OnePlace /\ Copies
  BY DEF LifecycleInv
<1>2. /\ call[t] = "one" /\ mode[h] = "new" /\ m \in {"once", "default"}
      /\ UNCHANGED <<indices, tls, freeing, dropped>>
      /\ alive' = alive \cup {h} /\ held' = held \cup {h}
      /\ call' \in [Thread -> {"idle", "one", "made", "two", "free"}]
      /\ made' \in [Thread -> Handle \cup {None}]
      /\ \A u \in Thread : u # t => call'[u] = call[u] /\ made'[u] = made[u]
      /\ call'[t] = "made" /\ made'[t] = h
      /\ mode' \in [Handle -> {"new", "once", "default", "repeat"}]
      /\ index' \in [Handle -> Index \cup {Invalid}]
      /\ \A g \in Handle : g # h => mode'[g] = mode[g] /\ index'[g] = index[g]
      /\ mode'[h] = m /\ index'[h] = tls[t]
  BY <1>1 DEF PhaseOne, New, LifecycleTypeOK
<1>3. h \notin alive /\ alive \subseteq Handle
  BY <1>1, <1>2 DEF Copies, LifecycleTypeOK
<1>4. LifecycleTypeOK'
  BY <1>1, <1>2 DEF LifecycleTypeOK
<1>5. Copies'
  <2>1. \A u \in Thread : /\ call'[u] \in {"idle", "free"} => tls'[u] = Invalid
                          /\ freeing'[u] # Invalid <=> call'[u] = "free"
    BY <1>1, <1>2 DEF Copies
  <2>2. ASSUME NEW u \in Thread, call'[u] = "made"
        PROVE  /\ made'[u] \in Handle /\ mode'[made'[u]] # "new"
               /\ made'[u] \in alive' => index'[made'[u]] = tls'[u]
    <3>1. CASE u = t
      BY <1>2, <3>1
    <3>2. CASE u # t
      <4>1. call[u] = "made" /\ made'[u] = made[u] /\ tls'[u] = tls[u]
        BY <1>2, <2>2, <3>2
      <4>2. /\ made[u] \in Handle /\ mode[made[u]] # "new"
            /\ made[u] \in alive => index[made[u]] = tls[u]
        BY <1>1, <4>1 DEF Copies
      <4>3. made[u] # h
        BY <1>2, <4>2
      <4> QED BY <1>2, <4>1, <4>2, <4>3
    <3> QED BY <3>1, <3>2
  <2>3. \A g \in Handle : /\ g \in alive' => mode'[g] # "new"
                          /\ mode'[g] = "repeat" => index'[g] = Invalid
    BY <1>1, <1>2 DEF Copies
  <2> QED BY <2>1, <2>2, <2>3 DEF Copies
<1>6. PICK x : x = tls[t]
  OBVIOUS
<1>7. \A i \in Index : i # x => \A k, u : At(i, k, u)' <=> At(i, k, u)
  BY <1>2, <1>3, <1>6 DEF At
<1>8. OnePlace'
  <2>1. CASE x \in Index
    <3>1. At(x, "thread", t)
      BY <1>2, <1>6 DEF At
    <3>2. x \notin dropped /\ \A k, u : At(x, k, u) => k = "thread" /\ u = t
      BY <1>1, <2>1, <3>1, Alone
    <3>3. \A k, u : At(x, k, u)' <=> k = "handle" /\ u = h
      <4>1. \A k, u : At(x, k, u)' => \/ At(x, k, u) /\ ~ (k = "thread" /\ u = t)
                                      \/ k = "handle" /\ u = h
        BY <1>2, <1>3, <2>1 DEF At
      <4>2. At(x, "handle", h)'
        BY <1>2, <1>6 DEF At
      <4> QED BY <3>2, <4>1, <4>2
    <3>4. Moves(x, "handle", h) /\ IsInjective(indices') /\ dropped' = dropped
      BY <1>1, <1>2, <1>7, <3>3 DEF Moves, OnePlace
    <3> QED BY <1>1, <3>2, <3>4, IndexMoved
  <2>2. CASE x \notin Index
    BY <1>1, <1>2, <1>7, <2>2, NoneMoved
  <2> QED BY <2>1, <2>2
<1> QED BY <1>4, <1>5, <1>8 DEF LifecycleInv

\* SetRepeatable changes nothing but the mode of a handle without an index.
LEMMA RepeatStep ==
    ASSUME LifecycleInv, NEW t \in Thread, SetRepeatable(t)
    PROVE  LifecycleInv'
<1>1. LifecycleTypeOK /\ OnePlace /\ Copies
  BY DEF LifecycleInv
<1>2. PICK h \in Handle : h = made[t] /\ h \in alive
  BY <1>1 DEF SetRepeatable, LifecycleTypeOK
<1>3. /\ UNCHANGED <<indices, tls, alive, index, held, call, made, freeing, dropped>>
      /\ mode' = [mode EXCEPT ![h] = "repeat"] /\ index[h] = Invalid
  BY <1>2 DEF SetRepeatable, MayRepeat
<1>4. /\ mode' \in [Handle -> {"new", "once", "default", "repeat"}]
      /\ \A g \in Handle : g # h => mode'[g] = mode[g]
      /\ mode'[h] = "repeat"
  BY <1>1, <1>3 DEF LifecycleTypeOK
<1>5. LifecycleTypeOK'
  BY <1>1, <1>3, <1>4 DEF LifecycleTypeOK
<1>6. OnePlace'
  <2>1. \A i \in Index : \A k, u : At(i, k, u)' <=> At(i, k, u)
    BY <1>3 DEF At
  <2> QED BY <1>1, <1>3, <2>1, NoneMoved
<1>7. Copies'
  <2>1. \A g \in Handle : /\ g \in alive' => mode'[g] # "new"
                          /\ mode'[g] = "repeat" => index'[g] = Invalid
                          /\ mode[g] # "new" => mode'[g] # "new"
    BY <1>1, <1>3, <1>4 DEF Copies
  <2> QED BY <1>1, <1>3, <2>1 DEF Copies
<1> QED BY <1>5, <1>6, <1>7 DEF LifecycleInv

\* A handle is deleted: its index goes to the thread.
LEMMA DeleteStep ==
    ASSUME LifecycleInv, NEW t \in Thread, NEW h \in Handle,
           Ready(t, h), Delete(t, h), held' \subseteq Handle, call' = AfterTwo(t),
           made' = [made EXCEPT ![t] = None], UNCHANGED <<indices, mode, index, freeing, dropped>>
    PROVE  LifecycleInv'
<1>1. LifecycleTypeOK /\ OnePlace /\ Copies
  BY DEF LifecycleInv
<1>2. /\ call[t] \in {"idle", "made"} /\ h \in alive
      /\ alive' = alive \ {h}
      /\ call' \in [Thread -> {"idle", "one", "made", "two", "free"}]
      /\ made' \in [Thread -> Handle \cup {None}]
      /\ tls' \in [Thread -> Index \cup {Invalid}]
      /\ \A u \in Thread : u # t => call'[u] = call[u] /\ made'[u] = made[u] /\ tls'[u] = tls[u]
      /\ call'[t] = "two" /\ tls'[t] = index[h]
  BY <1>1 DEF Ready, Delete, AfterTwo, LifecycleTypeOK
<1>3. LifecycleTypeOK'
  BY <1>1, <1>2 DEF LifecycleTypeOK
<1>4. Copies'
  BY <1>1, <1>2 DEF Copies
<1>5. PICK x : x = index[h]
  OBVIOUS
<1>6. \A i \in Index : i # x => \A k, u : At(i, k, u)' <=> At(i, k, u)
  BY <1>2, <1>5 DEF At
<1>7. OnePlace'
  <2>1. CASE x \in Index
    <3>1. At(x, "handle", h)
      BY <1>2, <1>5 DEF At
    <3>2. x \notin dropped /\ \A k, u : At(x, k, u) => k = "handle" /\ u = h
      BY <1>1, <2>1, <3>1, Alone
    <3>3. \A k, u : At(x, k, u)' <=> k = "thread" /\ u = t
      <4>1. \A k, u : At(x, k, u)' => \/ At(x, k, u) /\ ~ (k = "handle" /\ u = h)
                                      \/ k = "thread" /\ u = t
        BY <1>2, <2>1 DEF At
      <4>2. At(x, "thread", t)'
        BY <1>2, <1>5 DEF At
      <4> QED BY <3>2, <4>1, <4>2
    <3>4. Moves(x, "thread", t) /\ IsInjective(indices') /\ dropped' = dropped
      BY <1>1, <1>6, <3>3 DEF Moves, OnePlace
    <3> QED BY <1>1, <3>2, <3>4, IndexMoved
  <2>2. CASE x \notin Index
    BY <1>1, <1>6, <2>2, NoneMoved
  <2> QED BY <2>1, <2>2
<1> QED BY <1>3, <1>4, <1>7 DEF LifecycleInv

\* Phase two or destruction.
LEMMA UseStep ==
    ASSUME LifecycleInv, NEW t \in Thread, NEW h \in Handle, OnHandle(t, h)
    PROVE  LifecycleInv'
<1>1. LifecycleTypeOK /\ OnePlace /\ Copies
  BY DEF LifecycleInv
<1>2. /\ Ready(t, h) /\ (call[t] = "made" => made[t] = h) /\ call' = AfterTwo(t)
      /\ made' = [made EXCEPT ![t] = None] /\ UNCHANGED <<indices, mode, index, freeing, dropped>>
      /\ \/ Delete(t, h) /\ held' \in {held, held \ {h}}
         \/ mode[h] = "repeat" /\ UNCHANGED <<alive, tls, held>>
  BY DEF OnHandle, PhaseTwo, PhaseTwoNoWorkspace, Destroy
<1>3. CASE Delete(t, h) /\ held' \in {held, held \ {h}}
  <2>1. held' \subseteq Handle
    BY <1>1, <1>3 DEF LifecycleTypeOK
  <2> QED BY <1>2, <1>3, <2>1, DeleteStep
<1>4. CASE mode[h] = "repeat" /\ UNCHANGED <<alive, tls, held>>
  <2>1. /\ call[t] \in {"idle", "made"} /\ h \in alive
        /\ call' \in [Thread -> {"idle", "one", "made", "two", "free"}]
        /\ made' \in [Thread -> Handle \cup {None}]
        /\ \A u \in Thread : u # t => call'[u] = call[u] /\ made'[u] = made[u]
        /\ call'[t] = "two"
    BY <1>1, <1>2 DEF Ready, AfterTwo, LifecycleTypeOK
  <2>2. tls[t] = Invalid
    BY <1>1, <1>2, <1>4, <2>1 DEF Copies
  <2>3. LifecycleTypeOK'
    BY <1>1, <1>2, <1>4, <2>1 DEF LifecycleTypeOK
  <2>4. Copies'
    BY <1>1, <1>2, <1>4, <2>1 DEF Copies
  <2>5. \A i \in Index : \A k, u : At(i, k, u)' <=> At(i, k, u)
    BY <1>2, <1>4, <2>1, <2>2 DEF At
  <2>6. OnePlace'
    BY <1>1, <1>2, <2>5, NoneMoved
  <2> QED BY <2>3, <2>4, <2>6 DEF LifecycleInv
<1> QED BY <1>2, <1>3, <1>4

\* FreeHugeMem takes the index out of the thread.
LEMMA ReleaseStep ==
    ASSUME LifecycleInv, NEW t \in Thread, ReleaseHugeMem(t)
    PROVE  LifecycleInv'
<1>1. LifecycleTypeOK /\ OnePlace /\ Copies
  BY DEF LifecycleInv
<1>2. PICK x : x = tls[t]
  OBVIOUS
<1>3. /\ call[t] = "two" /\ freeing[t] = Invalid
      /\ UNCHANGED <<indices, alive, mode, index, held, made, dropped>>
      /\ x \in Index \cup {Invalid}
      /\ call' \in [Thread -> {"idle", "one", "made", "two", "free"}]
      /\ freeing' \in [Thread -> Index \cup {Invalid}]
      /\ tls' \in [Thread -> Index \cup {Invalid}]
      /\ \A u \in Thread : u # t => /\ call'[u] = call[u] /\ freeing'[u] = freeing[u]
                                    /\ tls'[u] = tls[u]
      /\ call'[t] = (IF x = Invalid THEN "idle" ELSE "free")
      /\ tls'[t] = Invalid /\ freeing'[t] = x
  BY <1>1, <1>2 DEF ReleaseHugeMem, LifecycleTypeOK
<1>4. LifecycleTypeOK'
  BY <1>1, <1>3 DEF LifecycleTypeOK
<1>5. Copies'
  BY <1>1, <1>3 DEF Copies
<1>6. \A i \in Index : i # x => \A k, u : At(i, k, u)' <=> At(i, k, u)
  BY <1>2, <1>3 DEF At
<1>7. OnePlace'
  <2>1. CASE x \in Index
    <3>1. At(x, "thread", t)
      BY <1>2, <1>3 DEF At
    <3>2. x \notin dropped /\ \A k, u : At(x, k, u) => k = "thread" /\ u = t
      BY <1>1, <2>1, <3>1, Alone
    <3>3. \A k, u : At(x, k, u)' <=> k = "free" /\ u = t
      <4>1. \A k, u : At(x, k, u)' => \/ At(x, k, u) /\ ~ (k = "thread" /\ u = t)
                                      \/ k = "free" /\ u = t
        BY <1>3, <2>1 DEF At
      <4>2. At(x, "free", t)'
        BY <1>3 DEF At
      <4> QED BY <3>2, <4>1, <4>2
    <3>4. Moves(x, "free", t) /\ IsInjective(indices') /\ dropped' = dropped
      BY <1>1, <1>3, <1>6, <3>3 DEF Moves, OnePlace
    <3> QED BY <1>1, <3>2, <3>4, IndexMoved
  <2>2. CASE x \notin Index
    BY <1>1, <1>3, <1>6, <2>2, NoneMoved
  <2> QED BY <2>1, <2>2
<1> QED BY <1>4, <1>5, <1>7 DEF LifecycleInv

\* FreeHugeMem pushes the index.
LEMMA ReturnStep ==
    ASSUME LifecycleInv, NEW t \in Thread, ReturnIndex(t)
    PROVE  LifecycleInv'
<1>1. LifecycleTypeOK /\ OnePlace /\ Copies
  BY DEF LifecycleInv
<1>2. PICK x : x = freeing[t]
  OBVIOUS
<1>3. /\ call[t] = "free" /\ indices' = Append(indices, x)
      /\ UNCHANGED <<tls, alive, mode, index, held, made, dropped>>
      /\ call' \in [Thread -> {"idle", "one", "made", "two", "free"}]
      /\ freeing' \in [Thread -> Index \cup {Invalid}]
      /\ \A u \in Thread : u # t => call'[u] = call[u] /\ freeing'[u] = freeing[u]
      /\ call'[t] \in {"idle", "two"} /\ freeing'[t] = Invalid
  BY <1>1, <1>2 DEF ReturnIndex, LifecycleTypeOK
<1>4. x \in Index /\ tls[t] = Invalid
  BY <1>1, <1>2, <1>3 DEF Copies, LifecycleTypeOK
<1>5. At(x, "free", t)
  BY <1>2, <1>4 DEF At
<1>6. x \notin dropped /\ \A k, u : At(x, k, u) => k = "free" /\ u = t
  BY <1>1, <1>4, <1>5, Alone
<1>7. x \notin Range(indices)
  BY <1>6 DEF At
<1>8. /\ indices' \in Seq(Index) /\ IsInjective(indices')
      /\ Range(indices') = Range(indices) \cup {x}
  <2>1. indices \in Seq(Index) /\ IsInjective(indices)
    BY <1>1 DEF LifecycleTypeOK, OnePlace
  <2> QED BY <1>3, <1>4, <1>7, <2>1, PushList
<1>9. LifecycleTypeOK'
  BY <1>1, <1>3, <1>8 DEF LifecycleTypeOK
<1>10. Copies'
  BY <1>1, <1>3, <1>4 DEF Copies
<1>11. \A i \in Index : i # x => \A k, u : At(i, k, u)' <=> At(i, k, u)
  BY <1>2, <1>3, <1>4, <1>8 DEF At
<1>12. \A k, u : At(x, k, u)' <=> k = "stack" /\ u = None
  <2>1. \A k, u : At(x, k, u)' => \/ At(x, k, u) /\ ~ (k = "free" /\ u = t)
                                  \/ k = "stack" /\ u = None
    BY <1>3, <1>4 DEF At
  <2>2. At(x, "stack", None)'
    BY <1>8 DEF At
  <2> QED BY <1>6, <2>1, <2>2
<1>13. OnePlace'
  <2>1. Moves(x, "stack", None) /\ dropped' = dropped
    BY <1>3, <1>11, <1>12 DEF Moves
  <2> QED BY <1>1, <1>6, <1>8, <2>1, IndexMoved
<1> QED BY <1>9, <1>10, <1>13 DEF LifecycleInv

\* Every step of the lifecycle keeps its invariant.
LEMMA LifecycleStep ==
    ASSUME LifecycleInv, [LifecycleNext]_lifecycleVars
    PROVE  LifecycleInv'
<1>1. CASE UNCHANGED lifecycleVars
  <2>1. /\ indices' = indices /\ tls' = tls /\ alive' = alive /\ mode' = mode
        /\ index' = index /\ held' = held /\ call' = call /\ made' = made
        /\ freeing' = freeing /\ dropped' = dropped
    BY <1>1 DEF lifecycleVars
  <2>2. LifecycleTypeOK' /\ Copies'
    BY <2>1 DEF LifecycleInv, LifecycleTypeOK, Copies
  <2>3. \A i \in Index : \A k, u : At(i, k, u)' <=> At(i, k, u)
    BY <2>1 DEF At
  <2> QED BY <2>1, <2>2, <2>3, NoneMoved DEF LifecycleInv
<1>2. CASE LifecycleNext
  <2>1. PICK t \in Thread :
           \/ InitHugeMemThreadLocal(t) \/ StartPlain(t) \/ UnInitHugeMemThreadLocal(t)
           \/ SetRepeatable(t) \/ ReleaseHugeMem(t) \/ ReturnIndex(t)
           \/ \E h \in Handle : \/ OnHandle(t, h)
                                \/ \E m \in {"once", "default"} : PhaseOne(t, h, m)
    BY <1>2 DEF LifecycleNext, Cleanup
  <2> QED BY <2>1, TakeStep, PlainStep, ForgetStep, RepeatStep, ReleaseStep, ReturnStep,
             UseStep, MakeStep
<1> QED BY <1>1, <1>2

LEMMA LifecycleStart == LifecycleInit => LifecycleInv
<1> SUFFICES ASSUME LifecycleInit PROVE LifecycleInv
  OBVIOUS
<1>1. Cardinality(Index) \in Nat
  BY FS_CardinalityType
<1>2. indices \in [1 .. Cardinality(Index) -> Index] /\ Range(indices) = Index
  BY DEF LifecycleInit
<1>3. indices \in Seq(Index)
  BY <1>1, <1>2
<1>4. IsInjective(indices)
  <2>1. indices \in Surjection(1 .. Cardinality(Index), Index)
    BY <1>2 DEF Surjection, Range
  <2>2. /\ IsFiniteSet(1 .. Cardinality(Index))
        /\ Cardinality(1 .. Cardinality(Index)) = Cardinality(Index)
    BY <1>1, FS_Interval
  <2>3. indices \in Injection(1 .. Cardinality(Index), Index)
    BY <2>1, <2>2, FS_SurjSameCardinalityImpliesInj
  <2> QED BY <1>2, <2>3 DEF Injection, IsInjective
<1>5. LifecycleTypeOK
  BY <1>3 DEF LifecycleInit, LifecycleTypeOK
<1>6. Copies
  BY DEF LifecycleInit, Copies
<1>7. \A i \in Index : \A k, u : At(i, k, u) <=> k = "stack" /\ u = None
  BY <1>2 DEF LifecycleInit, At
<1>8. dropped = {}
  BY DEF LifecycleInit
<1>9. OnePlace
  BY <1>4, <1>7, <1>8 DEF OnePlace
<1> QED BY <1>5, <1>6, <1>9 DEF LifecycleInv

\* Whatever callers do in whatever order on whatever threads, an index of a pool
\* is on the stack, with one thread, with one handle or on its way back, and
\* only the phase ones that make no handle lose one.
THEOREM OneUserPerIndex == LifecycleSpec => []LifecycleInv
<1>1. LifecycleInv /\ [LifecycleNext]_lifecycleVars => LifecycleInv'
  BY LifecycleStep
<1> QED BY <1>1, LifecycleStart, PTL DEF LifecycleSpec
-----------------------------------------------------------------------------
(* The blocks of the pools.                                                *)

Pointer == Block \cup {NoBlock}

\* What ReleaseAllAddr goes through: baseArray_ B, then the list L.
Pointers(B, L) == [i \in 1 .. ArrayNum |-> B[i - 1]] \o L

LEMMA PointerList ==
    ASSUME NEW B \in [Slot -> Pointer], NEW L \in Seq(Pointer)
    PROVE  /\ Pointers(B, L) \in Seq(Pointer) /\ Len(Pointers(B, L)) = ArrayNum + Len(L)
           /\ \A i \in Slot : Pointers(B, L)[i + 1] = B[i]
           /\ \A i \in 1 .. Len(L) : Pointers(B, L)[ArrayNum + i] = L[i]
           /\ \A i \in 1 .. ArrayNum + Len(L) : \/ \E j \in Slot : i = j + 1
                                                \/ \E j \in 1 .. Len(L) : i = ArrayNum + j
<1>1. PICK a : a = [i \in 1 .. ArrayNum |-> B[i - 1]]
  OBVIOUS
<1>2. \A i \in 1 .. ArrayNum : i - 1 \in Slot
  BY DEF Slot
<1>4. a \in Seq(Pointer) /\ Len(a) = ArrayNum /\ \A i \in 1 .. ArrayNum : a[i] = B[i - 1]
  <2>1. \A i \in 1 .. ArrayNum : B[i - 1] \in Pointer
    BY <1>2
  <2> QED BY <1>1, <2>1
<1>5. Pointers(B, L) = a \o L
  BY <1>1 DEF Pointers
<1>6. /\ Pointers(B, L) \in Seq(Pointer) /\ Len(Pointers(B, L)) = ArrayNum + Len(L)
      /\ \A i \in 1 .. ArrayNum : Pointers(B, L)[i] = a[i]
      /\ \A i \in 1 .. Len(L) : Pointers(B, L)[ArrayNum + i] = L[i]
  <2>0. a \in Seq(Pointer) /\ L \in Seq(Pointer)
    BY <1>4
  <2>1. /\ a \o L \in Seq(Pointer) /\ Len(a \o L) = Len(a) + Len(L)
        /\ \A i \in 1 .. Len(a) : (a \o L)[i] = a[i]
        /\ \A i \in 1 .. Len(L) : (a \o L)[Len(a) + i] = L[i]
    BY ONLY <2>0, JoinPlaces
  <2> QED BY <1>4, <1>5, <2>1
<1>7. \A i \in Slot : i + 1 \in 1 .. ArrayNum /\ (i + 1) - 1 = i
  BY DEF Slot
<1>8. \A i \in Slot : Pointers(B, L)[i + 1] = B[i]
  <2> TAKE i \in Slot
  <2>1. i + 1 \in 1 .. ArrayNum /\ (i + 1) - 1 = i
    BY <1>7
  <2>2. a[i + 1] = B[(i + 1) - 1]
    BY <1>4, <2>1
  <2> QED BY <1>6, <2>1, <2>2
<1>9. ASSUME NEW i \in 1 .. ArrayNum + Len(L)
      PROVE  (\E j \in Slot : i = j + 1) \/ (\E j \in 1 .. Len(L) : i = ArrayNum + j)
  <2>1. Len(L) \in Nat
    OBVIOUS
  <2>2. CASE i <= ArrayNum
    <3>1. i - 1 \in Slot /\ i = (i - 1) + 1
      BY <2>1, <2>2 DEF Slot
    <3> QED BY <3>1
  <2>3. CASE i > ArrayNum
    <3>1. i - ArrayNum \in 1 .. Len(L) /\ i = ArrayNum + (i - ArrayNum)
      BY <2>1, <2>3
    <3> QED BY <3>1
  <2> QED BY <2>1, <2>2, <2>3
<1> QED BY <1>6, <1>8, <1>9

\* The same of the pool p.
LEMMA HeldList ==
    ASSUME PoolTypeOK, NEW p \in Pool
    PROVE  /\ Held(p) \in Seq(Pointer) /\ Len(Held(p)) = ArrayNum + Len(links[p])
           /\ \A i \in Slot : Held(p)[i + 1] = base[p][i]
           /\ \A i \in 1 .. Len(links[p]) : Held(p)[ArrayNum + i] = links[p][i]
<1>1. PICK B \in [Slot -> Pointer], L \in Seq(Pointer) : B = base[p] /\ L = links[p]
  BY DEF PoolTypeOK, Pointer
<1>2. Held(p) = Pointers(B, L)
  BY <1>1 DEF Held, Pointers
<1> QED BY <1>1, <1>2, PointerList

\* A hole of a list is filled with a new block.
LEMMA Filled ==
    ASSUME NEW s \in Seq(Pointer), NEW r \in Seq(Pointer), Len(r) = Len(s), Sparse(s),
           NEW n \in 1 .. Len(s), s[n] = NoBlock, \A k \in 1 .. Len(s) : k # n => r[k] = s[k],
           r[n] \in Block, r[n] \notin Range(s)
    PROVE  Sparse(r) /\ Range(r) \ {NoBlock} = (Range(s) \ {NoBlock}) \cup {r[n]}
<1>1. \A x : x \in Range(r) <=> \E k \in 1 .. Len(s) : r[k] = x
  BY RangeOfList
<1>2. \A x : x \in Range(s) <=> \E k \in 1 .. Len(s) : s[k] = x
  BY RangeOfList
<1>3. Sparse(r)
  <2> SUFFICES ASSUME NEW k \in 1 .. Len(s), NEW l \in 1 .. Len(s), r[k] = r[l], r[k] # NoBlock
               PROVE  k = l
    BY DEF Sparse
  <2>1. CASE k # n /\ l # n
    BY <2>1 DEF Sparse
  <2>2. CASE k = n \/ l = n
    BY <1>2, <2>2
  <2> QED BY <2>1, <2>2
<1>4. ASSUME NEW x, x # NoBlock PROVE x \in Range(r) <=> x \in Range(s) \/ x = r[n]
  BY <1>1, <1>2, <1>4
<1> QED BY <1>3, <1>4

\* A new block is appended to a list.
LEMMA Extended ==
    ASSUME NEW s \in Seq(Pointer), NEW r \in Seq(Pointer), Len(r) = Len(s) + 1, Sparse(s),
           \A k \in 1 .. Len(s) : r[k] = s[k],
           NEW b \in Block, r[Len(s) + 1] = b, b \notin Range(s)
    PROVE  Sparse(r) /\ Range(r) \ {NoBlock} = (Range(s) \ {NoBlock}) \cup {b}
<1>0. Len(s) \in Nat /\ \A k \in 1 .. Len(s) + 1 : k = Len(s) + 1 \/ k \in 1 .. Len(s)
  OBVIOUS
<1>1. \A x : x \in Range(r) <=> \E k \in 1 .. Len(s) + 1 : r[k] = x
  BY RangeOfList
<1>2. \A x : x \in Range(s) <=> \E k \in 1 .. Len(s) : s[k] = x
  BY RangeOfList
<1>3. Sparse(r)
  <2> SUFFICES ASSUME NEW k \in 1 .. Len(s) + 1, NEW l \in 1 .. Len(s) + 1,
                      r[k] = r[l], r[k] # NoBlock
               PROVE  k = l
    BY DEF Sparse
  <2>1. CASE k \in 1 .. Len(s) /\ l \in 1 .. Len(s)
    BY <2>1 DEF Sparse
  <2>2. CASE k = Len(s) + 1 \/ l = Len(s) + 1
    BY <1>0, <1>2, <2>2
  <2> QED BY <1>0, <2>1, <2>2
<1>4. ASSUME NEW x PROVE x \in Range(r) <=> x \in Range(s) \/ x = b
  BY <1>0, <1>1, <1>2
<1> QED BY <1>3, <1>4

\* The first pointer of a list is taken.
LEMMA Beheaded ==
    ASSUME NEW s \in Seq(Pointer), s # <<>>, Sparse(s)
    PROVE  /\ Tail(s) \in Seq(Pointer) /\ Sparse(Tail(s)) /\ Head(s) \in Range(s)
           /\ Range(Tail(s)) \ {NoBlock} = (Range(s) \ {NoBlock}) \ {Head(s)}
<1>1. /\ Head(s) \in Range(s) /\ Tail(s) \in Seq(Pointer) /\ Len(Tail(s)) = Len(s) - 1
      /\ Range(s) = {Head(s)} \cup Range(Tail(s))
  BY HeadTail
<1>2. /\ Len(s) \in Nat \ {0} /\ Head(s) = s[1]
      /\ \A i \in 1 .. Len(s) - 1 : Tail(s)[i] = s[i + 1]
  OBVIOUS
<1>3. \A i \in 1 .. Len(s) - 1 : i + 1 \in DOMAIN s /\ i + 1 # 1 /\ 1 \in DOMAIN s
  BY <1>2
<1>4. PICK r : r = Tail(s)
  OBVIOUS
<1>5. Sparse(r)
  <2> SUFFICES ASSUME NEW k \in 1 .. Len(s) - 1, NEW l \in 1 .. Len(s) - 1,
                      r[k] = r[l], r[k] # NoBlock
               PROVE  k = l
    BY <1>1, <1>4 DEF Sparse
  <2>1. s[k + 1] = s[l + 1] /\ s[k + 1] # NoBlock
    BY <1>2, <1>4
  <2>2. k + 1 = l + 1
    BY <1>3, <2>1 DEF Sparse
  <2> QED BY <2>2
<1>6. Head(s) # NoBlock => Head(s) \notin Range(r)
  <2>1. \A x : x \in Range(r) <=> \E k \in 1 .. Len(s) - 1 : r[k] = x
    BY <1>1, <1>4, RangeOfList
  <2> QED BY <1>2, <1>3, <1>4, <2>1 DEF Sparse
<1> QED BY <1>1, <1>4, <1>5, <1>6

\* The pointers of a pool are a list, and its blocks are blocks.
LEMMA HoldingList ==
    ASSUME PoolTypeOK, NEW p \in Pool
    PROVE  /\ Holding(p) \in Seq(Pointer) /\ Blocks(p) \subseteq Block
           /\ \A b : b \in Blocks(p) <=>
                 b # NoBlock /\ \E i \in 1 .. Len(Holding(p)) : Holding(p)[i] = b
<1>1. Holding(p) \in Seq(Pointer)
  BY HeldList DEF Holding, PoolTypeOK, Pointer
<1>2. /\ Range(Holding(p)) \subseteq Pointer
      /\ \A b : b \in Range(Holding(p)) <=> \E i \in 1 .. Len(Holding(p)) : Holding(p)[i] = b
  BY <1>1, RangeOfList
<1> QED BY <1>1, <1>2 DEF Blocks, Pointer

\* Conserved, block by block, in this state and in the next.
LEMMA ConservedByBlock ==
    /\ Conserved <=> /\ IsInjective(huge)
                     /\ \A b : b \in Block <=> \/ b \in Range(huge) \/ b \in lost
                                               \/ \E p \in Pool : b \in Blocks(p)
    /\ Conserved' <=> /\ IsInjective(huge')
                      /\ \A b : b \in Block <=> \/ b \in Range(huge') \/ b \in lost'
                                                \/ \E p \in Pool : b \in Blocks(p)'
<1>1. Conserved <=> /\ IsInjective(huge)
                    /\ \A b : b \in Block <=> \/ b \in Range(huge) \/ b \in lost
                                              \/ \E p \in Pool : b \in Blocks(p)
  <2>1. \A b : b \in UNION {Blocks(p) : p \in Pool} <=> \E p \in Pool : b \in Blocks(p)
    OBVIOUS
  <2> QED BY <2>1 DEF Conserved, IsInjective
<1>2. (Conserved <=> /\ IsInjective(huge)
                     /\ \A b : b \in Block <=> \/ b \in Range(huge) \/ b \in lost
                                               \/ \E p \in Pool : b \in Blocks(p))'
  BY <1>1, PTL
<1> QED BY <1>1, <1>2

\* No block moves.
LEMMA SameBlocks ==
    ASSUME Single, Conserved, UNCHANGED <<huge, lost>>,
           \A q \in Pool : Sparse(Holding(q)') /\ Blocks(q)' = Blocks(q)
    PROVE  Single' /\ Conserved'
<1>1. Single'
  BY DEF Single
<1> QED BY <1>1, ConservedByBlock

\* Pool p gets the top of the shared array.
LEMMA BlockTaken ==
    ASSUME Single, Conserved, NEW b, IsInjective(huge'), b \in Range(huge),
           Range(huge') = Range(huge) \ {b}, lost' = lost, NEW p \in Pool,
           Sparse(Holding(p)'), Blocks(p)' = Blocks(p) \cup {b},
           \A q \in Pool : q # p => Holding(q)' = Holding(q) /\ Blocks(q)' = Blocks(q)
    PROVE  Single' /\ Conserved'
<1>1. \A q \in Pool : b \notin Blocks(q)
  BY DEF Single
<1>2. b \notin lost
  BY DEF Single
<1>3. \A q \in Pool : Sparse(Holding(q)')
  BY DEF Single
<1>4. \A q \in Pool : Blocks(q)' \cap (Range(huge') \cup lost') = {}
  BY <1>2 DEF Single
<1>5. \A q, r \in Pool : q # r => Blocks(q)' \cap Blocks(r)' = {}
  BY <1>1 DEF Single
<1>6. Single'
  BY <1>3, <1>4, <1>5 DEF Single
<1>7. \A x : \/ x \in Range(huge') \/ x \in lost' \/ \E q \in Pool : x \in Blocks(q)'
             <=> \/ x \in Range(huge) \/ x \in lost \/ \E q \in Pool : x \in Blocks(q)
  OBVIOUS
<1> QED BY <1>6, <1>7, ConservedByBlock

\* The top of the shared array is lost with its link.
LEMMA BlockLost ==
    ASSUME Single, Conserved, NEW b, IsInjective(huge'), b \in Range(huge),
           Range(huge') = Range(huge) \ {b}, lost' = lost \cup {b},
           \A q \in Pool : Holding(q)' = Holding(q) /\ Blocks(q)' = Blocks(q)
    PROVE  Single' /\ Conserved'
<1>1. \A q \in Pool : b \notin Blocks(q)
  BY DEF Single
<1>2. \A q \in Pool : Sparse(Holding(q)') /\ Blocks(q)' \cap (Range(huge') \cup lost') = {}
  BY <1>1 DEF Single
<1>3. \A q, r \in Pool : q # r => Blocks(q)' \cap Blocks(r)' = {}
  BY DEF Single
<1>4. Range(huge') \cap lost' = {}
  BY DEF Single
<1>5. Single'
  BY <1>2, <1>3, <1>4 DEF Single
<1>6. \A x : \/ x \in Range(huge') \/ x \in lost' \/ \E q \in Pool : x \in Blocks(q)'
             <=> \/ x \in Range(huge) \/ x \in lost \/ \E q \in Pool : x \in Blocks(q)
  OBVIOUS
<1> QED BY <1>5, <1>6, ConservedByBlock

\* Pool p gives a block back.
LEMMA BlockPut ==
    ASSUME Single, Conserved, NEW b, IsInjective(huge'), NEW p \in Pool, b \in Blocks(p),
           Range(huge') = Range(huge) \cup {b}, lost' = lost,
           Sparse(Holding(p)'), Blocks(p)' = Blocks(p) \ {b},
           \A q \in Pool : q # p => Holding(q)' = Holding(q) /\ Blocks(q)' = Blocks(q)
    PROVE  Single' /\ Conserved'
<1>1. \A q \in Pool : q # p => b \notin Blocks(q)
  BY DEF Single
<1>2. b \notin lost
  BY DEF Single
<1>3. \A q \in Pool : Sparse(Holding(q)')
  BY DEF Single
<1>4. \A q \in Pool : Blocks(q)' \cap (Range(huge') \cup lost') = {}
  <2>1. Blocks(p)' \cap (Range(huge') \cup lost') = {}
    BY DEF Single
  <2>2. \A q \in Pool : q # p => Blocks(q)' \cap (Range(huge') \cup lost') = {}
    BY <1>1 DEF Single
  <2> QED BY <2>1, <2>2
<1>5. \A q, r \in Pool : q # r => Blocks(q)' \cap Blocks(r)' = {}
  BY DEF Single
<1>6. Range(huge') \cap lost' = {}
  BY <1>2 DEF Single
<1>7. Single'
  BY <1>3, <1>4, <1>5, <1>6 DEF Single
<1>8. \A x : \/ x \in Range(huge') \/ x \in lost' \/ \E q \in Pool : x \in Blocks(q)'
             <=> \/ x \in Range(huge) \/ x \in lost \/ \E q \in Pool : x \in Blocks(q)
  OBVIOUS
<1> QED BY <1>7, <1>8, ConservedByBlock

\* A pool that is left alone holds what it held.
LEMMA LeftAlone ==
    ASSUME NEW q, base'[q] = base[q], links'[q] = links[q], state'[q] = state[q],
           giving'[q] = giving[q]
    PROVE  Holding(q)' = Holding(q) /\ Blocks(q)' = Blocks(q)
<1>1. Held(q)' = Held(q)
  BY DEF Held
<1>2. Holding(q)' = Holding(q)
  BY <1>1 DEF Holding
<1> QED BY <1>2 DEF Blocks
-----------------------------------------------------------------------------
(* The objects in the blocks.                                              *)

\* size bytes of block b, after all the others in it, become an object.
LEMMA ObjectGiven ==
    ASSUME PoolTypeOK, Below, Disjoint, NEW p \in Pool, state[p] = "open", state' = state,
           NEW b \in Block, b \in Blocks(p)', \A q \in Pool : Blocks(q) \subseteq Blocks(q)',
           \A q \in Pool : Blocks(q)' \subseteq Blocks(q) \cup {b},
           NEW from \in Nat, NEW size \in Size, Offset <= from, from + size <= BlockSize,
           \A g \in given : g.block = b => g.to <= from, Give(p, b, from, size)
    PROVE  /\ offset' \in [Block -> 0 .. BlockSize] /\ given' \subseteq Object
           /\ Below' /\ Disjoint'
<1>1. PICK o : o = [pool |-> p, block |-> b, from |-> from, to |-> from + size]
  OBVIOUS
<1>2. size \in Nat /\ 0 < size
  BY DEF Size
<1>3. /\ o \in Object /\ o.pool = p /\ o.block = b /\ o.from = from /\ o.to = from + size
      /\ from < from + size
  BY <1>1, <1>2 DEF Object
<1>4. given' = given \cup {o} /\ offset' = [offset EXCEPT ![b] = from + size]
  BY <1>1 DEF Give
<1>5. /\ offset' \in [Block -> 0 .. BlockSize]
      /\ \A x \in Block : x # b => offset'[x] = offset[x]
      /\ offset'[b] = from + size
  BY <1>2, <1>4 DEF PoolTypeOK
<1>6. /\ given \subseteq Object /\ given' \subseteq Object
      /\ \A g \in Object : g.pool \in Pool /\ g.block \in Block /\ g.from \in Nat /\ g.to \in Nat
  BY <1>3, <1>4 DEF PoolTypeOK, Object
<1>7. ASSUME NEW q \in Pool, NEW x \in Block, x \in Blocks(q)' PROVE Offset <= offset'[x]
  <2>1. CASE x = b
    BY <1>2, <1>5, <2>1
  <2>2. CASE x # b
    BY <1>5, <1>7, <2>2 DEF Below
  <2> QED BY <2>1, <2>2
<1>8. ASSUME NEW g \in given'
      PROVE  /\ state'[g.pool] = "open" /\ g.block \in Blocks(g.pool)'
             /\ g.from < g.to /\ g.to <= offset'[g.block]
  <2>1. CASE g = o
    BY <1>3, <1>5, <2>1
  <2>2. CASE g \in given
    <3>1. /\ g.pool \in Pool /\ g.block \in Block /\ g.to \in Nat
          /\ state[g.pool] = "open" /\ g.block \in Blocks(g.pool)
          /\ g.from < g.to /\ g.to <= offset[g.block]
      BY <1>6, <2>2 DEF Below
    <3>2. g.to <= offset'[g.block]
      <4>1. CASE g.block = b
        BY <1>2, <1>5, <2>2, <3>1, <4>1
      <4>2. CASE g.block # b
        BY <1>5, <3>1, <4>2
      <4> QED BY <4>1, <4>2
    <3> QED BY <3>1, <3>2
  <2> QED BY <1>4, <2>1, <2>2
<1>10. \A q \in Pool : \A x \in Blocks(q)' : x \in Block
  <2>1. \A q \in Pool : Blocks(q) \subseteq Block
    BY HoldingList
  <2> QED BY <2>1
<1>11. Below'
  BY <1>7, <1>8, <1>10 DEF Below
<1>12. Disjoint'
  <2>1. ASSUME NEW g \in given', NEW h \in given', g # h, g.block = h.block
        PROVE  g.to <= h.from \/ h.to <= g.from
    BY <1>3, <1>4, <2>1 DEF Disjoint
  <2>2. ASSUME NEW g \in given' PROVE Offset <= g.from /\ g.to <= BlockSize
    BY <1>3, <1>4 DEF Disjoint
  <2> QED BY <2>1, <2>2 DEF Disjoint
<1> QED BY <1>5, <1>6, <1>11, <1>12
-----------------------------------------------------------------------------
(* GetAddr.                                                                *)

\* Where the fast path stops: not past the array, with no block in the slots
\* behind, and with room in the block of the slot, if there is one.
LEMMA Stopped ==
    ASSUME PoolTypeOK, Orderly, NEW p \in Pool, NEW size \in Size
    PROVE  /\ StopAt(p, size) \in 0 .. ArrayNum
           /\ \A i \in Slot : i > StopAt(p, size) => base[p][i] = NoBlock
           /\ StopAt(p, size) < ArrayNum /\ base[p][StopAt(p, size)] # NoBlock
              => Fits(base[p][StopAt(p, size)], size)
<1>1. cur[p] \in 0 .. ArrayNum /\ \A i \in Slot : i > cur[p] => base[p][i] = NoBlock
  BY DEF PoolTypeOK, Orderly
<1>2. CASE cur[p] < ArrayNum /\ base[p][cur[p]] # NoBlock /\ ~ Fits(base[p][cur[p]], size)
  <2>1. StopAt(p, size) = cur[p] + 1
    BY <1>2 DEF StopAt
  <2>2. cur[p] + 1 < ArrayNum => cur[p] + 1 \in Slot /\ cur[p] + 1 > cur[p]
    BY <1>1 DEF Slot
  <2>3. \A i \in Slot : i > cur[p] + 1 => i > cur[p]
    BY <1>1 DEF Slot
  <2>4. cur[p] + 1 \in 0 .. ArrayNum
    BY <1>1, <1>2
  <2> QED BY <1>1, <2>1, <2>2, <2>3, <2>4
<1>3. CASE ~ (cur[p] < ArrayNum /\ base[p][cur[p]] # NoBlock /\ ~ Fits(base[p][cur[p]], size))
  <2>1. StopAt(p, size) = cur[p]
    BY <1>3 DEF StopAt
  <2> QED BY <1>1, <1>3, <2>1
<1> QED BY <1>2, <1>3

\* The pool of p moves on to slot i; it is still orderly.
LEMMA MovesOn ==
    ASSUME PoolTypeOK, Orderly, NEW p \in Pool, NEW i \in 0 .. ArrayNum,
           cur' = [cur EXCEPT ![p] = i], UNCHANGED <<giving, state>>,
           \A q \in Pool : q # p => base'[q] = base[q],
           \A j \in Slot : j > i => base'[p][j] = NoBlock
    PROVE  cur' \in [Pool -> 0 .. ArrayNum] /\ Orderly'
<1>1. /\ cur' \in [Pool -> 0 .. ArrayNum] /\ cur'[p] = i
      /\ \A q \in Pool : q # p => cur'[q] = cur[q]
  BY DEF PoolTypeOK
<1>2. ASSUME NEW q \in Pool, NEW j \in Slot, j > cur'[q] PROVE base'[q][j] = NoBlock
  BY <1>1, <1>2 DEF Orderly
<1>3. \A q \in Pool : state'[q] = "open" => giving'[q] = <<>>
  BY DEF Orderly
<1> QED BY <1>1, <1>2, <1>3 DEF Orderly

\* A block that is in use has room.
LEMMA BumpStep ==
    ASSUME PoolInv, NEW p \in Pool, NEW size \in Size, GetAddrBump(p, size)
    PROVE  PoolInv'
<1>1. PoolTypeOK /\ Orderly /\ Single /\ Below /\ Disjoint /\ Conserved
  BY DEF PoolInv
<1>2. PICK i : i = StopAt(p, size)
  OBVIOUS
<1>3. /\ i \in 0 .. ArrayNum /\ \A j \in Slot : j > i => base[p][j] = NoBlock
      /\ i < ArrayNum /\ base[p][i] # NoBlock => Fits(base[p][i], size)
  BY <1>1, <1>2, Stopped
<1>4. /\ state[p] = "open" /\ cur' = [cur EXCEPT ![p] = i]
      /\ UNCHANGED <<huge, base, links, giving, state, lost>>
  BY <1>2 DEF GetAddrBump
<1>5. cur'[p] = i
  BY <1>1, <1>4 DEF PoolTypeOK
<1>6. cur' \in [Pool -> 0 .. ArrayNum] /\ Orderly'
  BY <1>1, <1>3, <1>4, MovesOn
<1>7. \A q \in Pool : Holding(q)' = Holding(q) /\ Blocks(q)' = Blocks(q)
  BY <1>4, LeftAlone
<1>8. Single' /\ Conserved'
  <2>1. \A q \in Pool : Sparse(Holding(q)') /\ Blocks(q)' = Blocks(q)
    BY <1>1, <1>7 DEF Single
  <2> QED BY <1>1, <1>4, <2>1, SameBlocks
<1>9. PICK b \in Block : b \in Blocks(p) /\ Fits(b, size) /\ Give(p, b, offset[b], size)
  <2>1. Holding(p) = Held(p)
    BY <1>4 DEF Holding
  <2>2. CASE i < ArrayNum /\ base[p][i] # NoBlock /\ Give(p, base[p][i], offset[base[p][i]], size)
    <3>1. i \in Slot
      BY <1>3, <2>2 DEF Slot
    <3>2. i + 1 \in 1 .. Len(Held(p)) /\ Held(p)[i + 1] = base[p][i]
      <4>1. Len(Held(p)) = ArrayNum + Len(links[p]) /\ Held(p)[i + 1] = base[p][i]
        BY <1>1, <3>1, HeldList
      <4>2. Len(links[p]) \in Nat
        BY <1>1 DEF PoolTypeOK
      <4> QED BY <1>3, <2>2, <4>1, <4>2
    <3>3. base[p][i] \in Blocks(p) /\ base[p][i] \in Block
      BY <1>1, <2>1, <2>2, <3>2, HoldingList
    <3> QED BY <1>3, <2>2, <3>3
  <2>3. CASE /\ links[p] # <<>> /\ Fits(Top(links[p]), size)
             /\ Give(p, Top(links[p]), offset[Top(links[p])], size)
    <3>1. links[p] \in Seq(Block) /\ Len(links[p]) \in 1 .. Len(links[p]) /\ Top(links[p]) \in Block
      BY <1>1, <2>3 DEF PoolTypeOK, Top
    <3>2. /\ Held(p)[ArrayNum + Len(links[p])] = Top(links[p])
          /\ ArrayNum + Len(links[p]) \in 1 .. Len(Held(p))
      <4>1. /\ Len(Held(p)) = ArrayNum + Len(links[p])
            /\ Held(p)[ArrayNum + Len(links[p])] = links[p][Len(links[p])]
        BY <1>1, <3>1, HeldList
      <4> QED BY <3>1, <4>1 DEF Top
    <3>3. Top(links[p]) \in Blocks(p)
      BY <1>1, <2>1, <3>1, <3>2, HoldingList
    <3> QED BY <2>3, <3>1, <3>3
  <2> QED BY <1>5, <2>2, <2>3 DEF GetAddrBump
<1>10. /\ offset[b] \in Nat /\ Offset <= offset[b] /\ offset[b] + size <= BlockSize
       /\ \A g \in given : g.block = b => g.to <= offset[b]
  BY <1>1, <1>9 DEF PoolTypeOK, Below, Fits
<1>11. /\ offset' \in [Block -> 0 .. BlockSize] /\ given' \subseteq Object
       /\ Below' /\ Disjoint'
  <2>1. b \in Blocks(p)' /\ \A q \in Pool : /\ Blocks(q) \subseteq Blocks(q)'
                                            /\ Blocks(q)' \subseteq Blocks(q) \cup {b}
    BY <1>7, <1>9
  <2> QED BY <1>1, <1>4, <1>9, <1>10, <2>1, ObjectGiven
<1>12. PoolTypeOK'
  BY <1>1, <1>4, <1>6, <1>11 DEF PoolTypeOK
<1> QED BY <1>6, <1>8, <1>11, <1>12 DEF PoolInv

\* No block is left: only the slot changes.
LEMMA FallbackStep ==
    ASSUME PoolInv, NEW p \in Pool, NEW size \in Size, GetAddrFallback(p, size)
    PROVE  PoolInv'
<1>1. PoolTypeOK /\ Orderly /\ Single /\ Below /\ Disjoint /\ Conserved
  BY DEF PoolInv
<1>2. PICK i : i = StopAt(p, size)
  OBVIOUS
<1>3. i \in 0 .. ArrayNum /\ \A j \in Slot : j > i => base[p][j] = NoBlock
  BY <1>1, <1>2, Stopped
<1>4. /\ cur' = [cur EXCEPT ![p] = i]
      /\ UNCHANGED <<huge, base, links, offset, given, giving, state, lost>>
  BY <1>2 DEF GetAddrFallback
<1>5. cur' \in [Pool -> 0 .. ArrayNum] /\ Orderly'
  BY <1>1, <1>3, <1>4, MovesOn
<1>6. \A q \in Pool : Holding(q)' = Holding(q) /\ Blocks(q)' = Blocks(q)
  BY <1>4, LeftAlone
<1>7. Single' /\ Conserved'
  <2>1. \A q \in Pool : Sparse(Holding(q)') /\ Blocks(q)' = Blocks(q)
    BY <1>1, <1>6 DEF Single
  <2> QED BY <1>1, <1>4, <2>1, SameBlocks
<1>8. Below' /\ Disjoint'
  <2>1. \A g \in given : g.pool \in Pool
    BY <1>1 DEF PoolTypeOK, Object
  <2> QED BY <1>1, <1>4, <1>6, <2>1 DEF Below, Disjoint
<1>9. PoolTypeOK'
  BY <1>1, <1>4, <1>5 DEF PoolTypeOK
<1> QED BY <1>5, <1>7, <1>8, <1>9 DEF PoolInv

\* A block of the shared array is no block of a pool, and no object is in it.
LEMMA TopOfArray ==
    ASSUME PoolInv, huge # <<>>, huge' = Pop(huge)
    PROVE  /\ Top(huge) \in Range(huge) /\ Top(huge) \in Block /\ Top(huge) # NoBlock
           /\ huge' \in Seq(Block) /\ IsInjective(huge')
           /\ Range(huge') = Range(huge) \ {Top(huge)}
           /\ \A q \in Pool : Top(huge) \notin Blocks(q) /\ Top(huge) \notin Range(Holding(q))
           /\ \A g \in given : g.block # Top(huge)
<1>1. huge \in Seq(Block) /\ IsInjective(huge)
  BY DEF PoolInv, PoolTypeOK, Single
<1>2. /\ Top(huge) \in Range(huge) /\ huge' \in Seq(Block) /\ IsInjective(huge')
      /\ Range(huge') = Range(huge) \ {Top(huge)}
  BY <1>1, PopList DEF Top, Pop
<1>3. Top(huge) \in Block /\ Top(huge) # NoBlock
  BY <1>1, <1>2, RangeOfList
<1>4. \A q \in Pool : Top(huge) \notin Blocks(q)
  BY <1>2 DEF PoolInv, Single
<1>5. \A q \in Pool : Top(huge) \notin Range(Holding(q))
  BY <1>3, <1>4 DEF Blocks
<1>6. \A g \in given : g.pool \in Pool /\ g.block \in Blocks(g.pool)
  BY DEF PoolInv, PoolTypeOK, Object, Below
<1> QED BY <1>2, <1>3, <1>4, <1>5, <1>6

\* A new block goes to the array.
LEMMA ArrayStep ==
    ASSUME PoolInv, NEW p \in Pool, NEW size \in Size, GetAddrArray(p, size)
    PROVE  PoolInv'
<1>1. PoolTypeOK /\ Orderly /\ Single /\ Below /\ Disjoint /\ Conserved
  BY DEF PoolInv
<1>2. PICK i, b : i = StopAt(p, size) /\ b = Top(huge)
  OBVIOUS
<1>3. i \in 0 .. ArrayNum /\ \A j \in Slot : j > i => base[p][j] = NoBlock
  BY <1>1, <1>2, Stopped
<1>4. cur' = [cur EXCEPT ![p] = i] /\ cur'[p] = i
  BY <1>1, <1>2 DEF GetAddrArray, PoolTypeOK
<1>5. /\ state[p] = "open" /\ i < ArrayNum /\ huge # <<>> /\ huge' = Pop(huge)
      /\ base' = [base EXCEPT ![p][i] = b] /\ Give(p, b, Offset, size)
      /\ UNCHANGED <<links, giving, state, lost>>
  BY <1>2, <1>4 DEF GetAddrArray
<1>6. i \in Slot /\ base[p][i] = NoBlock
  BY <1>2, <1>3, <1>5 DEF GetAddrArray, NeedsBlock, Slot
<1>7. /\ b \in Range(huge) /\ b \in Block /\ b # NoBlock
      /\ huge' \in Seq(Block) /\ IsInjective(huge') /\ Range(huge') = Range(huge) \ {b}
      /\ \A q \in Pool : b \notin Blocks(q) /\ b \notin Range(Holding(q))
      /\ \A g \in given : g.block # b
  BY <1>2, <1>5, TopOfArray
<1>0. /\ base[p] \in [Slot -> Pointer] /\ links[p] \in Seq(Pointer)
      /\ base'[p] = [base[p] EXCEPT ![i] = b] /\ links'[p] = links[p]
  BY <1>1, <1>5 DEF PoolTypeOK, Pointer
<1>8. PICK B \in [Slot -> Pointer], C \in [Slot -> Pointer], L \in Seq(Pointer) :
         /\ B = base[p] /\ C = base'[p] /\ L = links[p] /\ L = links'[p]
         /\ C[i] = b /\ \A j \in Slot : j # i => C[j] = B[j]
  <2>1. base'[p] \in [Slot -> Pointer]
    BY <1>0, <1>6, <1>7 DEF Pointer
  <2>2. base'[p][i] = b /\ \A j \in Slot : j # i => base'[p][j] = base[p][j]
    BY <1>0, <1>6
  <2> QED BY <1>0, <2>1, <2>2
<1>9. Holding(p) = Pointers(B, L) /\ Holding(p)' = Pointers(C, L)
  BY <1>5, <1>8 DEF Holding, Held, Pointers
<1>10. Sparse(Holding(p)') /\ Blocks(p)' = Blocks(p) \cup {b}
  <2>1. PICK s \in Seq(Pointer), r \in Seq(Pointer) : s = Pointers(B, L) /\ r = Pointers(C, L)
    BY PointerList
  <2>2. /\ Len(s) = ArrayNum + Len(L) /\ Len(r) = Len(s) /\ Len(L) \in Nat
        /\ \A j \in Slot : s[j + 1] = B[j] /\ r[j + 1] = C[j]
        /\ \A j \in 1 .. Len(L) : s[ArrayNum + j] = r[ArrayNum + j]
        /\ \A k \in 1 .. Len(s) : \/ \E j \in Slot : k = j + 1
                                  \/ \E j \in 1 .. Len(L) : k = ArrayNum + j
    <3>1. /\ Len(s) = ArrayNum + Len(L) /\ \A j \in Slot : s[j + 1] = B[j]
          /\ \A j \in 1 .. Len(L) : s[ArrayNum + j] = L[j]
          /\ \A k \in 1 .. ArrayNum + Len(L) : \/ \E j \in Slot : k = j + 1
                                               \/ \E j \in 1 .. Len(L) : k = ArrayNum + j
      <4>1. /\ Len(Pointers(B, L)) = ArrayNum + Len(L)
            /\ \A j \in Slot : Pointers(B, L)[j + 1] = B[j]
            /\ \A j \in 1 .. Len(L) : Pointers(B, L)[ArrayNum + j] = L[j]
        BY PointerList
      <4>2. \A k \in 1 .. ArrayNum + Len(L) : \/ \E j \in Slot : k = j + 1
                                              \/ \E j \in 1 .. Len(L) : k = ArrayNum + j
        BY PointerList
      <4> QED BY <2>1, <4>1, <4>2, Zenon
    <3>2. /\ Len(r) = ArrayNum + Len(L) /\ \A j \in Slot : r[j + 1] = C[j]
          /\ \A j \in 1 .. Len(L) : r[ArrayNum + j] = L[j]
      BY <2>1, PointerList, Zenon
    <3>3. Len(L) \in Nat
      OBVIOUS
    <3> QED BY <3>1, <3>2, <3>3
  <2>3. i + 1 \in 1 .. Len(s) /\ s[i + 1] = NoBlock /\ r[i + 1] = b
    BY <1>3, <1>5, <1>6, <1>8, <2>2
  <2>4. \A k \in 1 .. Len(s) : k # i + 1 => r[k] = s[k]
    <3> TAKE k \in 1 .. Len(s)
    <3> HAVE k # i + 1
    <3>1. ASSUME NEW j \in Slot, k = j + 1 PROVE r[k] = s[k]
      <4>1. j # i
        BY <3>1
      <4> QED BY <1>8, <2>2, <3>1, <4>1
    <3>2. ASSUME NEW j \in 1 .. Len(L), k = ArrayNum + j PROVE r[k] = s[k]
      BY <2>2, <3>2
    <3> QED BY <2>2, <3>1, <3>2
  <2>5. Sparse(s) /\ b \notin Range(s)
    BY <1>1, <1>7, <1>9, <2>1 DEF Single
  <2>6. Sparse(r) /\ Range(r) \ {NoBlock} = (Range(s) \ {NoBlock}) \cup {r[i + 1]}
    <3>1. PICK n \in 1 .. Len(s) : n = i + 1
      BY <2>3
    <3>2. /\ Len(r) = Len(s) /\ s[n] = NoBlock /\ r[n] \in Block /\ r[n] \notin Range(s)
          /\ \A k \in 1 .. Len(s) : k # n => r[k] = s[k]
      BY <1>7, <2>2, <2>3, <2>4, <2>5, <3>1
    <3>3. Sparse(r) /\ Range(r) \ {NoBlock} = (Range(s) \ {NoBlock}) \cup {r[n]}
      <4>1. s \in Seq(Pointer) /\ r \in Seq(Pointer) /\ n \in 1 .. Len(s) /\ Sparse(s)
        BY <2>5
      <4> QED BY ONLY <3>2, <4>1, Filled
    <3> QED BY <3>1, <3>3
  <2> QED BY <1>9, <2>1, <2>3, <2>6 DEF Blocks
<1>11. \A q \in Pool : q # p => base'[q] = base[q] /\ Holding(q)' = Holding(q) /\ Blocks(q)' = Blocks(q)
  <2>1. \A q \in Pool : q # p => base'[q] = base[q]
    BY <1>1, <1>5 DEF PoolTypeOK
  <2> QED BY <1>5, <2>1, LeftAlone
<1>12. Single' /\ Conserved'
  BY <1>1, <1>5, <1>7, <1>10, <1>11, BlockTaken
<1>13. cur' \in [Pool -> 0 .. ArrayNum] /\ Orderly'
  <2>1. \A j \in Slot : j > i => base'[p][j] = NoBlock
    <3>1. \A j \in Slot : j > i => j # i
      BY <1>3 DEF Slot
    <3> QED BY <1>3, <1>8, <3>1
  <2> QED BY <1>1, <1>3, <1>4, <1>5, <1>11, <2>1, MovesOn
<1>14. /\ offset' \in [Block -> 0 .. BlockSize] /\ given' \subseteq Object
       /\ Below' /\ Disjoint'
  <2>1. b \in Blocks(p)' /\ \A q \in Pool : /\ Blocks(q) \subseteq Blocks(q)'
                                            /\ Blocks(q)' \subseteq Blocks(q) \cup {b}
    BY <1>10, <1>11
  <2>2. Offset + size <= BlockSize /\ Offset \in Nat /\ Offset <= Offset
    BY DEF Size
  <2>3. \A g \in given : g.block = b => g.to <= Offset
    BY <1>7
  <2> QED BY <1>1, <1>5, <1>7, <2>1, <2>2, <2>3, ObjectGiven
<1>15. PoolTypeOK'
  <2>1. base' \in [Pool -> [Slot -> Block \cup {NoBlock}]]
    BY <1>1, <1>5, <1>7 DEF PoolTypeOK
  <2> QED BY <1>1, <1>5, <1>7, <1>13, <1>14, <2>1 DEF PoolTypeOK
<1> QED BY <1>12, <1>13, <1>14, <1>15 DEF PoolInv

\* The list of pool p gets a new block.
LEMMA LinkAdded ==
    ASSUME PoolInv, NEW p \in Pool, state[p] = "open", NEW b \in Block, b # NoBlock,
           b \notin Range(Holding(p)), links' = [links EXCEPT ![p] = Append(@, b)],
           UNCHANGED <<base, giving, state>>
    PROVE  Sparse(Holding(p)') /\ Blocks(p)' = Blocks(p) \cup {b}
<1>1. PoolTypeOK /\ Single
  BY DEF PoolInv
<1>2. PICK B \in [Slot -> Pointer], L \in Seq(Pointer), M \in Seq(Pointer) :
         /\ B = base[p] /\ B = base'[p] /\ L = links[p] /\ M = links'[p] /\ M = Append(L, b)
  <2>1. base[p] \in [Slot -> Pointer] /\ links[p] \in Seq(Pointer) /\ links'[p] = Append(links[p], b)
    BY <1>1 DEF PoolTypeOK, Pointer
  <2>2. Append(links[p], b) \in Seq(Pointer)
    BY <2>1 DEF Pointer
  <2> QED BY <2>1, <2>2
<1>3. Holding(p) = Pointers(B, L) /\ Holding(p)' = Pointers(B, M)
  BY <1>2 DEF Holding, Held, Pointers
<1>4. PICK s \in Seq(Pointer), r \in Seq(Pointer) : s = Pointers(B, L) /\ r = Pointers(B, M)
  BY PointerList
<1>5. /\ Len(s) = ArrayNum + Len(L) /\ \A j \in Slot : s[j + 1] = B[j]
      /\ \A j \in 1 .. Len(L) : s[ArrayNum + j] = L[j]
      /\ \A k \in 1 .. ArrayNum + Len(L) : \/ \E j \in Slot : k = j + 1
                                           \/ \E j \in 1 .. Len(L) : k = ArrayNum + j
  BY <1>4, PointerList, Zenon
<1>6. /\ Len(r) = ArrayNum + Len(M) /\ \A j \in Slot : r[j + 1] = B[j]
      /\ \A j \in 1 .. Len(M) : r[ArrayNum + j] = M[j]
  BY <1>4, PointerList, Zenon
<1>7. /\ Len(L) \in Nat /\ Len(M) = Len(L) + 1 /\ M[Len(L) + 1] = b
      /\ \A j \in 1 .. Len(L) : M[j] = L[j]
  BY <1>2
<1>8. Len(r) = Len(s) + 1 /\ r[Len(s) + 1] = b
  <2>1. Len(L) + 1 \in 1 .. Len(M) /\ ArrayNum + (Len(L) + 1) = Len(s) + 1
    BY <1>5, <1>7
  <2>2. r[ArrayNum + (Len(L) + 1)] = b
    BY <1>6, <1>7, <2>1
  <2> QED BY <1>5, <1>6, <1>7, <2>1, <2>2
<1>9. \A k \in 1 .. Len(s) : r[k] = s[k]
  <2> TAKE k \in 1 .. Len(s)
  <2>1. ASSUME NEW j \in Slot, k = j + 1 PROVE r[k] = s[k]
    BY <1>5, <1>6, <2>1
  <2>2. ASSUME NEW j \in 1 .. Len(L), k = ArrayNum + j PROVE r[k] = s[k]
    <3>1. j \in 1 .. Len(M) /\ M[j] = L[j]
      BY <1>7
    <3> QED BY <1>5, <1>6, <2>2, <3>1
  <2> QED BY <1>5, <2>1, <2>2
<1>10. Sparse(s) /\ b \notin Range(s)
  BY <1>1, <1>3, <1>4 DEF Single
<1>11. Sparse(r) /\ Range(r) \ {NoBlock} = (Range(s) \ {NoBlock}) \cup {b}
  <2>1. s \in Seq(Pointer) /\ r \in Seq(Pointer) /\ b \in Block
    OBVIOUS
  <2> QED BY ONLY <1>8, <1>9, <1>10, <2>1, Extended
<1> QED BY <1>3, <1>4, <1>11 DEF Blocks

\* A new block goes to the list, or is lost with its link.
LEMMA LinkStep ==
    ASSUME PoolInv, NEW p \in Pool, NEW size \in Size, GetAddrLink(p, size)
    PROVE  PoolInv'
<1>1. PoolTypeOK /\ Orderly /\ Single /\ Below /\ Disjoint /\ Conserved
  BY DEF PoolInv
<1>2. PICK i, b : i = StopAt(p, size) /\ b = Top(huge)
  OBVIOUS
<1>3. i \in 0 .. ArrayNum /\ \A j \in Slot : j > i => base[p][j] = NoBlock
  BY <1>1, <1>2, Stopped
<1>4. /\ state[p] = "open" /\ huge # <<>> /\ huge' = Pop(huge)
      /\ cur' = [cur EXCEPT ![p] = i] /\ UNCHANGED <<base, giving, state>>
  BY <1>2 DEF GetAddrLink
<1>5. /\ b \in Range(huge) /\ b \in Block /\ b # NoBlock
      /\ huge' \in Seq(Block) /\ IsInjective(huge') /\ Range(huge') = Range(huge) \ {b}
      /\ \A q \in Pool : b \notin Blocks(q) /\ b \notin Range(Holding(q))
      /\ \A g \in given : g.block # b
  BY <1>2, <1>4, TopOfArray
<1>6. cur' \in [Pool -> 0 .. ArrayNum] /\ Orderly'
  BY <1>1, <1>3, <1>4, MovesOn
<1>7. CASE /\ links' = [links EXCEPT ![p] = Append(@, b)] /\ Give(p, b, Offset, size)
           /\ lost' = lost
  <2>1. Sparse(Holding(p)') /\ Blocks(p)' = Blocks(p) \cup {b}
    BY <1>4, <1>5, <1>7, LinkAdded
  <2>2. /\ links' \in [Pool -> Seq(Block)] /\ \A q \in Pool : q # p => links'[q] = links[q]
    <3>1. Append(links[p], b) \in Seq(Block)
      BY <1>1, <1>5 DEF PoolTypeOK
    <3> QED BY <1>1, <1>7, <3>1 DEF PoolTypeOK
  <2>3. \A q \in Pool : q # p => Holding(q)' = Holding(q) /\ Blocks(q)' = Blocks(q)
    BY <1>4, <2>2, LeftAlone
  <2>4. Single' /\ Conserved'
    BY <1>1, <1>5, <1>7, <2>1, <2>3, BlockTaken
  <2>5. /\ offset' \in [Block -> 0 .. BlockSize] /\ given' \subseteq Object
        /\ Below' /\ Disjoint'
    <3>1. b \in Blocks(p)' /\ \A q \in Pool : /\ Blocks(q) \subseteq Blocks(q)'
                                              /\ Blocks(q)' \subseteq Blocks(q) \cup {b}
      BY <2>1, <2>3
    <3>2. Offset + size <= BlockSize /\ Offset \in Nat /\ Offset <= Offset
      BY DEF Size
    <3>3. \A g \in given : g.block = b => g.to <= Offset
      BY <1>5
    <3> QED BY <1>1, <1>4, <1>5, <1>7, <3>1, <3>2, <3>3, ObjectGiven
  <2>6. PoolTypeOK'
    BY <1>1, <1>4, <1>5, <1>6, <1>7, <2>2, <2>5 DEF PoolTypeOK
  <2> QED BY <1>6, <2>4, <2>5, <2>6 DEF PoolInv
<1>8. CASE /\ lost' = lost \cup {b} /\ offset' = [offset EXCEPT ![b] = Offset]
           /\ UNCHANGED <<links, given>>
  <2>1. \A q \in Pool : Holding(q)' = Holding(q) /\ Blocks(q)' = Blocks(q)
    BY <1>4, <1>8, LeftAlone
  <2>2. Single' /\ Conserved'
    BY <1>1, <1>5, <1>8, <2>1, BlockLost
  <2>3. /\ offset' \in [Block -> 0 .. BlockSize]
        /\ \A x \in Block : x # b => offset'[x] = offset[x]
    BY <1>1, <1>5, <1>8 DEF PoolTypeOK
  <2>4. \A q \in Pool : \A x \in Blocks(q) : x \in Block /\ x # b
    BY <1>1, <1>5, HoldingList
  <2>5. \A g \in given : g.pool \in Pool /\ g.block \in Block
    BY <1>1 DEF PoolTypeOK, Object
  <2>6. Below'
    BY <1>1, <1>4, <1>5, <1>8, <2>1, <2>3, <2>4, <2>5 DEF Below
  <2>7. Disjoint'
    BY <1>1, <1>8 DEF Disjoint
  <2>8. PoolTypeOK'
    BY <1>1, <1>4, <1>5, <1>6, <1>8, <2>3 DEF PoolTypeOK
  <2> QED BY <1>6, <2>2, <2>6, <2>7, <2>8 DEF PoolInv
<1> QED BY <1>2, <1>7, <1>8 DEF GetAddrLink
-----------------------------------------------------------------------------
(* FreeHugeMem.                                                            *)

\* ReleaseAllAddr starts: the pool gives its objects up and is responsible for
\* the same blocks.
LEMMA FreeStep ==
    ASSUME PoolInv, NEW p \in Pool, FreeHugeMem(p)
    PROVE  PoolInv'
<1>1. PoolTypeOK /\ Orderly /\ Single /\ Below /\ Disjoint /\ Conserved
  BY DEF PoolInv
<1>2. /\ state[p] = "open" /\ given' = {g \in given : g.pool # p}
      /\ giving' = [giving EXCEPT ![p] = Held(p)] /\ state' = [state EXCEPT ![p] = "release"]
      /\ UNCHANGED <<huge, base, cur, links, offset, lost>>
  BY DEF FreeHugeMem
<1>3. /\ state' \in [Pool -> {"open", "release"}] /\ state'[p] = "release"
      /\ \A q \in Pool : q # p => state'[q] = state[q] /\ giving'[q] = giving[q]
      /\ giving'[p] = Held(p)
  BY <1>1, <1>2 DEF PoolTypeOK
<1>4. giving' \in [Pool -> Seq(Block \cup {NoBlock})]
  <2>1. Held(p) \in Seq(Block \cup {NoBlock})
    BY <1>1, HeldList DEF Pointer
  <2> QED BY <1>1, <1>2, <2>1 DEF PoolTypeOK
<1>5. Holding(p)' = Holding(p) /\ Blocks(p)' = Blocks(p)
  BY <1>2, <1>3 DEF Holding, Blocks
<1>6. \A q \in Pool : Holding(q)' = Holding(q) /\ Blocks(q)' = Blocks(q)
  <2>1. \A q \in Pool : q # p => Holding(q)' = Holding(q) /\ Blocks(q)' = Blocks(q)
    BY <1>2, <1>3, LeftAlone
  <2> QED BY <1>5, <2>1
<1>7. Single' /\ Conserved'
  <2>1. \A q \in Pool : Sparse(Holding(q)') /\ Blocks(q)' = Blocks(q)
    BY <1>1, <1>6 DEF Single
  <2> QED BY <1>1, <1>2, <2>1, SameBlocks
<1>8. Orderly'
  BY <1>1, <1>2, <1>3 DEF Orderly
<1>9. Below'
  <2>1. \A g \in given' : g \in given /\ g.pool \in Pool /\ g.pool # p
    BY <1>1, <1>2 DEF PoolTypeOK, Object
  <2> QED BY <1>1, <1>2, <1>3, <1>6, <2>1 DEF Below
<1>10. Disjoint'
  BY <1>1, <1>2 DEF Disjoint
<1>11. PoolTypeOK'
  BY <1>1, <1>2, <1>3, <1>4 DEF PoolTypeOK
<1> QED BY <1>7, <1>8, <1>9, <1>10, <1>11 DEF PoolInv

\* One pointer is pushed back, or skipped.
LEMMA PushStep ==
    ASSUME PoolInv, NEW p \in Pool, FreeOneHugeBlock(p)
    PROVE  PoolInv'
<1>1. PoolTypeOK /\ Orderly /\ Single /\ Below /\ Disjoint /\ Conserved
  BY DEF PoolInv
<1>2. PICK s, b : s \in Seq(Pointer) /\ s = giving[p] /\ b = Head(s)
  BY <1>1 DEF PoolTypeOK, Pointer
<1>3. /\ state[p] = "release" /\ s # <<>> /\ huge' = IF b = NoBlock THEN huge ELSE Append(huge, b)
      /\ giving' = [giving EXCEPT ![p] = Tail(s)]
      /\ UNCHANGED <<base, cur, links, offset, given, state, lost>>
  BY <1>2 DEF FreeOneHugeBlock
<1>4. Holding(p) = s /\ Sparse(s)
  BY <1>1, <1>2, <1>3 DEF Holding, Single
<1>5. /\ Tail(s) \in Seq(Pointer) /\ Sparse(Tail(s)) /\ b \in Range(s)
      /\ Range(Tail(s)) \ {NoBlock} = (Range(s) \ {NoBlock}) \ {b}
  BY <1>2, <1>3, <1>4, Beheaded
<1>6. /\ giving' \in [Pool -> Seq(Block \cup {NoBlock})] /\ giving'[p] = Tail(s)
      /\ \A q \in Pool : q # p => giving'[q] = giving[q]
  BY <1>1, <1>3, <1>5 DEF PoolTypeOK, Pointer
<1>7. Holding(p)' = Tail(s)
  BY <1>3, <1>6 DEF Holding
<1>8. Sparse(Holding(p)') /\ Blocks(p)' = Blocks(p) \ {b}
  BY <1>4, <1>5, <1>7 DEF Blocks
<1>9. \A q \in Pool : q # p => Holding(q)' = Holding(q) /\ Blocks(q)' = Blocks(q)
  BY <1>3, <1>6, LeftAlone
<1>10. Single' /\ Conserved' /\ huge' \in Seq(Block)
  <2>1. CASE b = NoBlock
    <3>1. \A q \in Pool : Sparse(Holding(q)') /\ Blocks(q)' = Blocks(q)
      BY <1>1, <1>8, <1>9, <2>1 DEF Single, Blocks
    <3>2. huge' = huge /\ lost' = lost
      BY <1>3, <2>1
    <3> QED BY <1>1, <3>1, <3>2, SameBlocks DEF PoolTypeOK
  <2>2. CASE b # NoBlock
    <3>1. b \in Blocks(p) /\ b \in Block
      BY <1>1, <1>4, <1>5, <2>2, HoldingList DEF Blocks
    <3>2. b \notin Range(huge)
      BY <1>1, <3>1 DEF Single
    <3>3. huge \in Seq(Block) /\ IsInjective(huge) /\ huge' = Append(huge, b)
      BY <1>1, <1>3, <2>2 DEF PoolTypeOK, Single
    <3>4. huge' \in Seq(Block) /\ IsInjective(huge') /\ Range(huge') = Range(huge) \cup {b}
      BY <3>1, <3>2, <3>3, PushList
    <3> QED BY <1>1, <1>3, <1>8, <1>9, <3>1, <3>4, BlockPut
  <2> QED BY <2>1, <2>2
<1>11. Orderly'
  <2>1. \A q \in Pool : state'[q] = "open" => giving'[q] = <<>>
    BY <1>1, <1>3, <1>6 DEF Orderly
  <2> QED BY <1>1, <1>3, <2>1 DEF Orderly
<1>12. Below'
  <2>1. \A q \in Pool : Blocks(q)' \subseteq Blocks(q)
    BY <1>8, <1>9
  <2>2. \A g \in given : g.pool \in Pool /\ g.pool # p
    BY <1>1, <1>3 DEF PoolTypeOK, Object, Below
  <2> QED BY <1>1, <1>3, <1>9, <2>1, <2>2 DEF Below
<1>13. Disjoint'
  BY <1>1, <1>3 DEF Disjoint
<1>14. PoolTypeOK'
  BY <1>1, <1>3, <1>6, <1>10 DEF PoolTypeOK
<1> QED BY <1>10, <1>11, <1>12, <1>13, <1>14 DEF PoolInv

\* An empty pool has no block.
LEMMA EmptyPool ==
    Sparse(Pointers(Empty, <<>>)) /\ Range(Pointers(Empty, <<>>)) \ {NoBlock} = {}
<1>1. PICK B \in [Slot -> Pointer], L \in Seq(Pointer) :
         B = Empty /\ L = <<>> /\ \A i \in Slot : B[i] = NoBlock
  <2>1. Empty \in [Slot -> Pointer] /\ \A i \in Slot : Empty[i] = NoBlock
    BY DEF Empty, Pointer
  <2>2. <<>> \in Seq(Pointer)
    OBVIOUS
  <2> QED BY <2>1, <2>2
<1>3. PICK s \in Seq(Pointer) : s = Pointers(B, L)
  BY PointerList
<1>4. /\ Len(s) = ArrayNum + Len(L) /\ \A i \in Slot : s[i + 1] = B[i]
      /\ \A i \in 1 .. ArrayNum + Len(L) : \/ \E j \in Slot : i = j + 1
                                           \/ \E j \in 1 .. Len(L) : i = ArrayNum + j
  BY <1>3, PointerList, Zenon
<1>5. \A i \in 1 .. Len(s) : s[i] = NoBlock
  <2> TAKE i \in 1 .. Len(s)
  <2>1. Len(L) = 0
    BY <1>1
  <2>2. PICK j \in Slot : i = j + 1
    BY <1>4, <2>1
  <2> QED BY <1>1, <1>4, <2>2
<1>6. \A x : x \in Range(s) => x = NoBlock
  BY <1>5, RangeOfList
<1>7. Sparse(s)
  BY <1>5 DEF Sparse
<1> QED BY <1>1, <1>3, <1>6, <1>7

\* Init(false) after the release.
LEMMA ReopenStep ==
    ASSUME PoolInv, NEW p \in Pool, Reopen(p)
    PROVE  /\ PoolInv'
           /\ state'[p] = "open" /\ giving'[p] = <<>> /\ Blocks(p)' = {} /\ cur'[p] = 0
           /\ \A g \in given' : g.pool # p
<1>1. PoolTypeOK /\ Orderly /\ Single /\ Below /\ Disjoint /\ Conserved
  BY DEF PoolInv
<1>2. /\ state[p] = "release" /\ giving[p] = <<>>
      /\ base' = [base EXCEPT ![p] = Empty] /\ cur' = [cur EXCEPT ![p] = 0]
      /\ links' = [links EXCEPT ![p] = <<>>] /\ state' = [state EXCEPT ![p] = "open"]
      /\ UNCHANGED <<huge, offset, given, giving, lost>>
  BY DEF Reopen
<1>3. /\ Empty \in [Slot -> Block \cup {NoBlock}] /\ <<>> \in Seq(Block)
      /\ \A i \in Slot : Empty[i] = NoBlock
  BY DEF Empty
<1>4. /\ base' \in [Pool -> [Slot -> Block \cup {NoBlock}]] /\ base'[p] = Empty
      /\ cur' \in [Pool -> 0 .. ArrayNum] /\ cur'[p] = 0
      /\ links' \in [Pool -> Seq(Block)] /\ links'[p] = <<>>
      /\ state' \in [Pool -> {"open", "release"}] /\ state'[p] = "open"
      /\ \A q \in Pool : q # p => /\ base'[q] = base[q] /\ cur'[q] = cur[q]
                                  /\ links'[q] = links[q] /\ state'[q] = state[q]
  <2>1. 0 \in 0 .. ArrayNum
    OBVIOUS
  <2> QED BY <1>1, <1>2, <1>3, <2>1 DEF PoolTypeOK
<1>5. Sparse(Holding(p)') /\ Blocks(p)' = {}
  <2>1. Holding(p)' = Pointers(Empty, <<>>)
    BY <1>4 DEF Holding, Held, Pointers
  <2> QED BY <2>1, EmptyPool DEF Blocks
<1>6. Blocks(p) = {}
  BY <1>2, EmptyList DEF Blocks, Holding
<1>7. \A q \in Pool : q # p => Holding(q)' = Holding(q) /\ Blocks(q)' = Blocks(q)
  BY <1>2, <1>4, LeftAlone
<1>8. Single' /\ Conserved'
  <2>1. \A q \in Pool : Sparse(Holding(q)') /\ Blocks(q)' = Blocks(q)
    BY <1>1, <1>5, <1>6, <1>7 DEF Single
  <2> QED BY <1>1, <1>2, <2>1, SameBlocks
<1>9. Orderly'
  <2>1. ASSUME NEW q \in Pool, NEW i \in Slot, i > cur'[q] PROVE base'[q][i] = NoBlock
    <3>1. CASE q = p
      BY <1>3, <1>4, <3>1
    <3>2. CASE q # p
      <4>1. base'[q] = base[q] /\ cur'[q] = cur[q]
        BY <1>4, <3>2
      <4>2. i > cur[q] => base[q][i] = NoBlock
        BY <1>1 DEF Orderly
      <4> QED BY <2>1, <4>1, <4>2
    <3> QED BY <3>1, <3>2
  <2>2. \A q \in Pool : state'[q] = "open" => giving'[q] = <<>>
    BY <1>1, <1>2, <1>4 DEF Orderly
  <2> QED BY <2>1, <2>2 DEF Orderly
<1>10. \A g \in given : g.pool \in Pool /\ g.pool # p
  BY <1>1, <1>2 DEF PoolTypeOK, Object, Below
<1>11. Below'
  BY <1>1, <1>2, <1>4, <1>5, <1>7, <1>10 DEF Below
<1>12. Disjoint'
  BY <1>1, <1>2 DEF Disjoint
<1>13. PoolTypeOK'
  BY <1>1, <1>2, <1>4 DEF PoolTypeOK
<1> QED BY <1>2, <1>4, <1>5, <1>8, <1>9, <1>10, <1>11, <1>12, <1>13 DEF PoolInv

LEMMA PoolStart == PoolInit => PoolInv /\ \A p \in Pool : Blocks(p) = {}
<1> SUFFICES ASSUME PoolInit PROVE PoolInv /\ \A p \in Pool : Blocks(p) = {}
  OBVIOUS
<1>1. Cardinality(Block) \in Nat
  BY FS_CardinalityType
<1>2. huge \in [1 .. Cardinality(Block) -> Block] /\ Range(huge) = Block
  BY DEF PoolInit
<1>3. huge \in Seq(Block)
  BY <1>1, <1>2
<1>4. IsInjective(huge)
  <2>1. huge \in Surjection(1 .. Cardinality(Block), Block)
    BY <1>2 DEF Surjection, Range
  <2>2. /\ IsFiniteSet(1 .. Cardinality(Block))
        /\ Cardinality(1 .. Cardinality(Block)) = Cardinality(Block)
    BY <1>1, FS_Interval
  <2>3. huge \in Injection(1 .. Cardinality(Block), Block)
    BY <2>1, <2>2, FS_SurjSameCardinalityImpliesInj
  <2> QED BY <1>2, <2>3 DEF Injection, IsInjective
<1>5. /\ Empty \in [Slot -> Block \cup {NoBlock}] /\ \A i \in Slot : Empty[i] = NoBlock
  BY DEF Empty
<1>6. \A p \in Pool : base[p] = Empty /\ links[p] = <<>> /\ state[p] = "open" /\ giving[p] = <<>>
  BY DEF PoolInit
<1>7. \A p \in Pool : Sparse(Holding(p)) /\ Blocks(p) = {}
  <2>1. \A p \in Pool : Holding(p) = Pointers(Empty, <<>>)
    BY <1>6 DEF Holding, Held, Pointers
  <2> QED BY <2>1, EmptyPool DEF Blocks
<1>8. lost = {} /\ given = {}
  BY DEF PoolInit
<1>9. PoolTypeOK
  <2>1. base \in [Pool -> [Slot -> Block \cup {NoBlock}]]
    BY <1>5 DEF PoolInit
  <2>2. cur \in [Pool -> 0 .. ArrayNum] /\ offset \in [Block -> 0 .. BlockSize]
    BY DEF PoolInit
  <2>3. links \in [Pool -> Seq(Block)] /\ giving \in [Pool -> Seq(Block \cup {NoBlock})]
    BY DEF PoolInit
  <2>4. state \in [Pool -> {"open", "release"}]
    BY DEF PoolInit
  <2> QED BY <1>3, <1>8, <2>1, <2>2, <2>3, <2>4 DEF PoolTypeOK
<1>10. Orderly
  BY <1>5, <1>6 DEF Orderly
<1>11. Single
  BY <1>4, <1>7, <1>8 DEF Single
<1>12. Below /\ Disjoint
  BY <1>7, <1>8 DEF Below, Disjoint
<1>13. Conserved
  BY <1>2, <1>4, <1>7, <1>8, ConservedByBlock
<1> QED BY <1>7, <1>9, <1>10, <1>11, <1>12, <1>13 DEF PoolInv

\* What a step on pool p leaves alone.
LEMMA OtherPools ==
    ASSUME PoolInv, NEW p \in Pool, NEW size \in Size,
           GetAddr(p, size) \/ FreeHugeMem(p) \/ FreeOneHugeBlock(p) \/ Reopen(p),
           NEW q \in Pool, q # p
    PROVE  state'[q] = state[q] /\ (Clean(q) => Clean(q)')
<1>1. PoolTypeOK
  BY DEF PoolInv
<1>2. /\ base'[q] = base[q] /\ links'[q] = links[q] /\ state'[q] = state[q]
      /\ giving'[q] = giving[q] /\ cur'[q] = cur[q]
  <2>1. CASE GetAddr(p, size)
    <3>1. /\ UNCHANGED <<giving, state>> /\ cur' = [cur EXCEPT ![p] = StopAt(p, size)]
          /\ links' \in {links, [links EXCEPT ![p] = Append(@, Top(huge))]}
          /\ base' = base \/ \E i : base' = [base EXCEPT ![p][i] = Top(huge)]
      BY <2>1 DEF GetAddr, GetAddrBump, GetAddrArray, GetAddrLink, GetAddrFallback
    <3> QED BY <1>1, <3>1 DEF PoolTypeOK
  <2>2. CASE FreeHugeMem(p)
    BY <1>1, <2>2 DEF FreeHugeMem, PoolTypeOK
  <2>3. CASE FreeOneHugeBlock(p)
    BY <1>1, <2>3 DEF FreeOneHugeBlock, PoolTypeOK
  <2>4. CASE Reopen(p)
    BY <1>1, <2>4 DEF Reopen, PoolTypeOK
  <2> QED BY <2>1, <2>2, <2>3, <2>4
<1>3. \A g \in given' : g \in given \/ g.pool = p
  BY DEF GetAddr, GetAddrBump, GetAddrArray, GetAddrLink, GetAddrFallback, Give,
         FreeHugeMem, FreeOneHugeBlock, Reopen
<1>4. Blocks(q)' = Blocks(q)
  BY <1>2, LeftAlone
<1> QED BY <1>2, <1>3, <1>4 DEF Clean
-----------------------------------------------------------------------------
(* Executors and pools together.                                           *)

\* An index with a user other than u is not free for the taking: it is not on
\* the stack, with no other handle, and nobody else is releasing it.
LEMMA OneUser ==
    ASSUME LifecycleInv, NEW i \in Index, NEW k, NEW u, At(i, k, u)
    PROVE  /\ k # "stack" => i \notin Range(indices)
           /\ \A h \in alive : index[h] = i => k = "handle" /\ u = h
           /\ \A t \in Thread : freeing[t] = i => k = "free" /\ u = t
<1>1. \A l, v : At(i, l, v) => k = l /\ u = v
  BY Alone DEF LifecycleInv
<1>2. i \in Range(indices) => At(i, "stack", None)
  BY DEF At
<1>3. \A h \in alive : index[h] = i => At(i, "handle", h)
  BY DEF At
<1>4. \A t \in Thread : freeing[t] = i => At(i, "free", t)
  BY DEF At
<1> QED BY <1>1, <1>2, <1>3, <1>4

\* Steps that leave the pools alone.
LEMMA PoolsAlone ==
    ASSUME PoolInv, Released, UNCHANGED poolVars
    PROVE  /\ PoolInv' /\ \A q : Clean(q)' <=> Clean(q)
           /\ Range(indices') \subseteq Range(indices) /\ freeing' = freeing => Released'
<1>1. /\ huge' = huge /\ base' = base /\ cur' = cur /\ links' = links /\ offset' = offset
      /\ given' = given /\ giving' = giving /\ state' = state /\ lost' = lost
  BY DEF poolVars
<1>2. \A q : Holding(q)' = Holding(q) /\ Blocks(q)' = Blocks(q)
  BY <1>1, LeftAlone
<1>3. PoolTypeOK' /\ Orderly' /\ Disjoint'
  BY <1>1 DEF PoolInv, PoolTypeOK, Orderly, Disjoint
<1>4. Single' /\ Conserved'
  <2>1. Single /\ Conserved /\ \A q \in Pool : Sparse(Holding(q)') /\ Blocks(q)' = Blocks(q)
    BY <1>2 DEF PoolInv, Single
  <2> QED BY <1>1, <2>1, SameBlocks
<1>5. Below'
  BY <1>1, <1>2 DEF PoolInv, Below
<1>6. \A q : Clean(q)' <=> Clean(q)
  BY <1>1, <1>2 DEF Clean
<1>7. ASSUME Range(indices') \subseteq Range(indices), freeing' = freeing PROVE Released'
  BY <1>1, <1>6, <1>7 DEF Released
<1> QED BY <1>3, <1>4, <1>5, <1>6, <1>7 DEF PoolInv

\* Steps of the caller that touch no pool and no handle.
LEMMA CallerStep ==
    ASSUME MemoryInv, NEW t \in Thread, MemoryUnchanged,
           \/ InitHugeMemThreadLocal(t) \/ StartPlain(t) \/ SetRepeatable(t)
           \/ UnInitHugeMemThreadLocal(t)
    PROVE  PoolInv' /\ Released' /\ Remembered'
<1>1. LifecycleInv /\ PoolInv /\ Released /\ Remembered /\ UNCHANGED poolVars /\ objects' = objects
  BY DEF MemoryInv, MemoryUnchanged
<1>2. alive' = alive /\ index' = index /\ freeing' = freeing
  BY DEF InitHugeMemThreadLocal, StartPlain, SetRepeatable, UnInitHugeMemThreadLocal
<1>3. Range(indices') \subseteq Range(indices)
  <2>1. CASE indices' = indices
    BY <2>1
  <2>2. CASE InitHugeMemThreadLocal(t) /\ indices # <<>>
    <3>1. indices \in Seq(Index) /\ IsInjective(indices)
      BY <1>1 DEF LifecycleInv, LifecycleTypeOK, OnePlace
    <3>2. indices' = SubSeq(indices, 1, Len(indices) - 1)
      BY <2>2 DEF InitHugeMemThreadLocal
    <3> QED BY <2>2, <3>1, <3>2, PopList
  <2>3. indices' = indices \/ (InitHugeMemThreadLocal(t) /\ indices # <<>>)
    BY DEF InitHugeMemThreadLocal, StartPlain, SetRepeatable, UnInitHugeMemThreadLocal
  <2> QED BY <2>1, <2>2, <2>3
<1>4. PoolInv' /\ Released'
  BY <1>1, <1>2, <1>3, PoolsAlone
<1>5. Remembered'
  BY <1>1, <1>2 DEF Remembered, poolVars
<1> QED BY <1>4, <1>5

\* Phase one returns its executor.
LEMMA EndStep ==
    ASSUME MemoryInv, NEW t \in Thread, NEW h \in Handle, NEW m, EndPhaseOne(t, h, m)
    PROVE  PoolInv' /\ Released' /\ Remembered'
<1>1. LifecycleInv /\ PoolInv /\ Released /\ Remembered
  BY DEF MemoryInv
<1>2. /\ UNCHANGED poolVars /\ indices' = indices /\ freeing' = freeing
      /\ alive' = alive \cup {h} /\ index' = [index EXCEPT ![h] = tls[t]]
      /\ objects' = [objects EXCEPT ![h] = {g \in given : g.pool = tls[t]}]
  BY DEF EndPhaseOne, PhaseOne
<1>3. PoolInv' /\ Released'
  BY <1>1, <1>2, PoolsAlone
<1>4. given' = given /\ given \subseteq Object
  BY <1>1, <1>2 DEF poolVars, PoolInv, PoolTypeOK
<1>5. /\ index'[h] = tls[t] /\ \A x \in Handle : x # h => index'[x] = index[x]
      /\ objects' \in [Handle -> SUBSET Object] /\ objects'[h] = {g \in given : g.pool = tls[t]}
      /\ \A x \in Handle : x # h => objects'[x] = objects[x]
  BY <1>1, <1>2, <1>4 DEF Remembered, LifecycleInv, LifecycleTypeOK
<1>6. ASSUME NEW x \in alive' PROVE objects'[x] \subseteq {g \in given' : g.pool = index'[x]}
  <2>1. CASE x = h
    BY <1>4, <1>5, <2>1
  <2>2. CASE x # h
    <3>1. x \in alive /\ x \in Handle
      BY <1>1, <1>2, <2>2 DEF LifecycleInv, LifecycleTypeOK
    <3> QED BY <1>1, <1>4, <1>5, <2>2, <3>1 DEF Remembered
  <2> QED BY <2>1, <2>2
<1> QED BY <1>3, <1>5, <1>6 DEF Remembered

\* Phase two, destruction.
LEMMA HandleStep ==
    ASSUME MemoryInv, NEW t \in Thread, NEW h \in Handle, UseHandle(t, h)
    PROVE  PoolInv' /\ Released' /\ Remembered'
<1>1. LifecycleInv /\ PoolInv /\ Released /\ Remembered
  BY DEF MemoryInv
<1>2. /\ UNCHANGED poolVars /\ indices' = indices /\ freeing' = freeing /\ index' = index
      /\ alive' \subseteq alive
      /\ objects' = [objects EXCEPT ![h] = IF h \in alive' THEN @ ELSE {}]
  BY DEF UseHandle, OnHandle, PhaseTwo, PhaseTwoNoWorkspace, Destroy, Delete
<1>3. PoolInv' /\ Released'
  BY <1>1, <1>2, PoolsAlone
<1>4. given' = given
  BY <1>2 DEF poolVars
<1>5. /\ objects' \in [Handle -> SUBSET Object]
      /\ \A x \in alive' : objects'[x] = objects[x]
  <2>1. alive \subseteq Handle /\ objects \in [Handle -> SUBSET Object]
    BY <1>1 DEF LifecycleInv, LifecycleTypeOK, Remembered
  <2> QED BY <1>2, <2>1
<1>6. Remembered'
  BY <1>1, <1>2, <1>4, <1>5 DEF Remembered
<1> QED BY <1>3, <1>6

\* Phase one makes an object in the pool of its thread.
LEMMA AllocateStep ==
    ASSUME MemoryInv, NEW t \in Thread, NEW size \in Size, Allocate(t, size)
    PROVE  PoolInv' /\ Released' /\ Remembered'
<1>1. LifecycleInv /\ PoolInv /\ Released /\ Remembered
  BY DEF MemoryInv
<1>2. PICK p \in Index : p = tls[t]
  BY <1>1 DEF Allocate, LifecycleInv, LifecycleTypeOK
<1>3. /\ call[t] = "one" /\ GetAddr(p, size) /\ p \in Pool /\ objects' = objects
      /\ indices' = indices /\ freeing' = freeing /\ alive' = alive /\ index' = index
  BY <1>2 DEF Allocate, lifecycleVars
<1>4. PoolInv'
  BY <1>1, <1>3, BumpStep, ArrayStep, LinkStep, FallbackStep DEF GetAddr
<1>5. p \notin Range(indices) /\ \A u \in Thread : freeing[u] # p
  <2>1. At(p, "thread", t)
    BY <1>2, <1>3 DEF At
  <2> QED BY <1>1, <2>1, OneUser
<1>6. state' = state /\ given \subseteq given'
  BY <1>3 DEF GetAddr, GetAddrBump, GetAddrArray, GetAddrLink, GetAddrFallback, Give
<1>7. \A q \in Pool : q # p => (Clean(q) => Clean(q)')
  BY <1>1, <1>3, OtherPools
<1>8. Released'
  <2>1. ASSUME NEW i \in Range(indices') PROVE Clean(i)'
    <3>1. i \in Pool /\ i # p /\ Clean(i)
      BY <1>1, <1>3, <1>5, <2>1, RangeOfList DEF LifecycleInv, LifecycleTypeOK, Released
    <3> QED BY <1>7, <3>1
  <2>2. \A i \in Index : state'[i] # "open" => \E u \in Thread : freeing'[u] = i
    BY <1>1, <1>3, <1>6 DEF Released
  <2>3. ASSUME NEW u \in Thread, freeing'[u] # Invalid, state'[freeing'[u]] = "open"
        PROVE  Clean(freeing[u])'
    <3>1. PICK q : q = freeing[u]
      OBVIOUS
    <3>2. q \in Pool /\ q # p /\ Clean(q)
      BY <1>1, <1>3, <1>5, <1>6, <2>3, <3>1 DEF LifecycleInv, LifecycleTypeOK, Released
    <3>3. Clean(q)' /\ freeing'[u] = q
      BY <1>3, <1>7, <3>1, <3>2
    <3> QED BY <3>3 DEF Clean
  <2> QED BY <2>1, <2>2, <2>3 DEF Released
<1>9. Remembered'
  BY <1>1, <1>3, <1>6 DEF Remembered
<1> QED BY <1>4, <1>8, <1>9

\* FreeHugeMem takes the index out of the context and starts the release.
LEMMA ReleasePoolStep ==
    ASSUME MemoryInv, NEW t \in Thread, Release(t)
    PROVE  PoolInv' /\ Released' /\ Remembered'
<1>1. LifecycleInv /\ PoolInv /\ Released /\ Remembered
  BY DEF MemoryInv
<1>2. PICK p : p = tls[t]
  OBVIOUS
<1>3. /\ call[t] = "two" /\ freeing[t] = Invalid /\ freeing' = [freeing EXCEPT ![t] = p]
      /\ objects' = objects /\ indices' = indices /\ alive' = alive /\ index' = index
      /\ IF p = Invalid THEN UNCHANGED poolVars ELSE FreeHugeMem(p)
  BY <1>2 DEF Release, ReleaseHugeMem
<1>4. /\ freeing'[t] = p /\ \A u \in Thread : u # t => freeing'[u] = freeing[u]
      /\ p \in Index \cup {Invalid} /\ freeing \in [Thread -> Index \cup {Invalid}]
  BY <1>1, <1>2, <1>3 DEF LifecycleInv, LifecycleTypeOK
<1>5. CASE p = Invalid
  <2>1. freeing' = freeing /\ UNCHANGED poolVars
    BY <1>3, <1>4, <1>5
  <2>2. PoolInv' /\ Released'
    BY <1>1, <1>3, <2>1, PoolsAlone
  <2> QED BY <1>1, <1>3, <2>1, <2>2 DEF Remembered, poolVars
<1>6. CASE p # Invalid
  <2>1. p \in Index /\ p \in Pool /\ FreeHugeMem(p)
    BY <1>3, <1>4, <1>6
  <2>2. PoolInv'
    BY <1>1, <2>1, FreeStep
  <2>3. /\ p \notin Range(indices) /\ \A u \in Thread : freeing[u] # p
        /\ \A h \in alive : index[h] # p
    <3>1. At(p, "thread", t)
      BY <1>2, <1>3 DEF At
    <3> QED BY <1>1, <2>1, <3>1, OneUser
  <2>4. \A q \in Pool : q # p => state'[q] = state[q] /\ (Clean(q) => Clean(q)')
    <3>1. 1 \in Size
      BY DEF Size
    <3> QED BY <1>1, <2>1, <3>1, OtherPools
  <2>5. state'[p] = "release" /\ given' = {g \in given : g.pool # p}
    BY <1>1, <2>1 DEF FreeHugeMem, PoolInv, PoolTypeOK
  <2>6. Released'
    <3>1. ASSUME NEW i \in Range(indices') PROVE Clean(i)'
      <4>1. i \in Pool /\ i # p /\ Clean(i)
        BY <1>1, <1>3, <2>3, <3>1, RangeOfList DEF LifecycleInv, LifecycleTypeOK, Released
      <4> QED BY <2>4, <4>1
    <3>2. ASSUME NEW i \in Index, state'[i] # "open" PROVE \E u \in Thread : freeing'[u] = i
      <4>1. CASE i = p
        BY <1>4, <4>1
      <4>2. CASE i # p
        <5>1. PICK u \in Thread : freeing[u] = i
          BY <1>1, <2>4, <3>2, <4>2 DEF Released
        <5> QED BY <1>3, <1>4, <5>1
      <4> QED BY <4>1, <4>2
    <3>3. ASSUME NEW u \in Thread, freeing'[u] # Invalid, state'[freeing'[u]] = "open"
          PROVE  Clean(freeing[u])'
      <4>1. PICK q : q = freeing'[u]
        OBVIOUS
      <4>2. u # t
        BY <1>4, <2>5, <3>3
      <4>3. q = freeing[u] /\ q # p /\ q \in Pool
        BY <1>4, <2>3, <3>3, <4>1, <4>2
      <4>4. Clean(q)
        BY <1>1, <2>4, <3>3, <4>1, <4>3 DEF Released
      <4>5. Clean(q)'
        BY <2>4, <4>3, <4>4
      <4> QED BY <4>1, <4>5 DEF Clean
    <3> QED BY <3>1, <3>2, <3>3 DEF Released
  <2>7. Remembered'
    <3>1. ASSUME NEW h \in alive' PROVE objects'[h] \subseteq {g \in given' : g.pool = index'[h]}
      BY <1>1, <1>3, <2>3, <2>5, <3>1 DEF Remembered
    <3> QED BY <1>1, <1>3, <3>1 DEF Remembered
  <2> QED BY <2>2, <2>6, <2>7
<1> QED BY <1>5, <1>6

\* ReleaseAllAddr and Init(false).
LEMMA FreeBlocksStep ==
    ASSUME MemoryInv, NEW t \in Thread, FreeBlocks(t)
    PROVE  PoolInv' /\ Released' /\ Remembered'
<1>1. LifecycleInv /\ PoolInv /\ Released /\ Remembered
  BY DEF MemoryInv
<1>2. PICK p \in Index : p = freeing[t]
  BY <1>1 DEF FreeBlocks, LifecycleInv, LifecycleTypeOK
<1>3. /\ FreeOneHugeBlock(p) \/ Reopen(p)
      /\ objects' = objects
      /\ p \in Pool
      /\ indices' = indices /\ freeing' = freeing /\ alive' = alive /\ index' = index
  BY <1>2 DEF FreeBlocks, lifecycleVars
<1>4. PoolInv' /\ given' = given /\ (state'[p] # "open" \/ Clean(p)')
  <2>1. CASE FreeOneHugeBlock(p)
    BY <1>1, <1>3, <2>1, PushStep DEF FreeOneHugeBlock
  <2>2. CASE Reopen(p)
    BY <1>1, <1>3, <2>2, ReopenStep DEF Reopen, Clean
  <2> QED BY <1>3, <2>1, <2>2
<1>5. p \notin Range(indices) /\ \A u \in Thread : freeing[u] = p => u = t
  <2>1. At(p, "free", t)
    BY <1>2 DEF At
  <2> QED BY <1>1, <2>1, OneUser
<1>6. \A q \in Pool : q # p => state'[q] = state[q] /\ (Clean(q) => Clean(q)')
  <2>1. 1 \in Size
    BY DEF Size
  <2> QED BY <1>1, <1>3, <2>1, OtherPools
<1>7. Released'
  <2>1. ASSUME NEW i \in Range(indices') PROVE Clean(i)'
    <3>1. i \in Pool /\ i # p /\ Clean(i)
      BY <1>1, <1>3, <1>5, <2>1, RangeOfList DEF LifecycleInv, LifecycleTypeOK, Released
    <3> QED BY <1>6, <3>1
  <2>2. ASSUME NEW i \in Index, state'[i] # "open" PROVE \E u \in Thread : freeing'[u] = i
    <3>1. CASE i = p
      BY <1>2, <1>3, <3>1
    <3>2. CASE i # p
      BY <1>1, <1>3, <1>6, <2>2, <3>2 DEF Released
    <3> QED BY <3>1, <3>2
  <2>3. ASSUME NEW u \in Thread, freeing'[u] # Invalid, state'[freeing'[u]] = "open"
        PROVE  Clean(freeing[u])'
    <3>1. PICK q : q = freeing[u] /\ q = freeing'[u]
      BY <1>3
    <3>2. CASE q = p
      <4>1. Clean(q)'
        BY <1>4, <2>3, <3>1, <3>2
      <4> QED BY <3>1, <4>1 DEF Clean
    <3>3. CASE q # p
      <4>1. q \in Pool /\ q # Invalid
        BY <1>1, <2>3, <3>1 DEF LifecycleInv, LifecycleTypeOK
      <4>2. state[q] = "open"
        BY <1>6, <2>3, <3>1, <3>3, <4>1
      <4>3. Clean(q)
        BY <1>1, <3>1, <4>1, <4>2 DEF Released
      <4>4. Clean(q)'
        BY <1>6, <3>3, <4>1, <4>3
      <4> QED BY <3>1, <4>4 DEF Clean
    <3> QED BY <3>2, <3>3
  <2> QED BY <2>1, <2>2, <2>3 DEF Released
<1>8. Remembered'
  BY <1>1, <1>3, <1>4 DEF Remembered, FreeBlocks
<1> QED BY <1>4, <1>7, <1>8

\* The index is returned when its pool is open again, and clean.
LEMMA ReturnPoolStep ==
    ASSUME MemoryInv, NEW t \in Thread, Return(t)
    PROVE  PoolInv' /\ Released' /\ Remembered'
<1>1. LifecycleInv /\ PoolInv /\ Released /\ Remembered
  BY DEF MemoryInv
<1>2. PICK x \in Index : x = freeing[t]
  BY <1>1 DEF Return, LifecycleInv, LifecycleTypeOK
<1>3. /\ x # Invalid /\ state[x] = "open" /\ indices' = Append(indices, x)
      /\ freeing' = [freeing EXCEPT ![t] = Invalid] /\ UNCHANGED poolVars
      /\ objects' = objects /\ alive' = alive /\ index' = index
  BY <1>2 DEF Return, ReturnIndex, MemoryUnchanged
<1>4. PoolInv' /\ (\A q : Clean(q)' <=> Clean(q)) /\ state' = state /\ given' = given
  BY <1>1, <1>3, PoolsAlone DEF poolVars
<1>5. Clean(x)
  BY <1>1, <1>2, <1>3 DEF Released
<1>6. /\ freeing'[t] = Invalid /\ \A u \in Thread : u # t => freeing'[u] = freeing[u]
  BY <1>1, <1>3 DEF LifecycleInv, LifecycleTypeOK
<1>7. Range(indices') = Range(indices) \cup {x}
  BY <1>1, <1>3, PushList DEF LifecycleInv, LifecycleTypeOK
<1>8. Released'
  <2>1. \A i \in Range(indices') : Clean(i)'
    BY <1>1, <1>4, <1>5, <1>7 DEF Released
  <2>2. ASSUME NEW i \in Index, state'[i] # "open" PROVE \E u \in Thread : freeing'[u] = i
    <3>1. PICK u \in Thread : freeing[u] = i
      BY <1>1, <1>4, <2>2 DEF Released
    <3>2. u # t
      BY <1>2, <1>3, <1>4, <2>2, <3>1
    <3> QED BY <1>6, <3>1, <3>2
  <2>3. ASSUME NEW u \in Thread, freeing'[u] # Invalid, state'[freeing'[u]] = "open"
        PROVE  Clean(freeing[u])'
    <3>1. PICK q : q = freeing[u] /\ q = freeing'[u]
      BY <1>6, <2>3
    <3>2. Clean(q)
      BY <1>1, <1>4, <2>3, <3>1 DEF Released
    <3>3. Clean(q)'
      BY <1>4, <3>2
    <3> QED BY <3>1, <3>3 DEF Clean
  <2> QED BY <2>1, <2>2, <2>3 DEF Released
<1>9. Remembered'
  BY <1>1, <1>3, <1>4 DEF Remembered
<1> QED BY <1>4, <1>8, <1>9
-----------------------------------------------------------------------------
(* The theorems.                                                           *)

LEMMA MemoryStart == Init => MemoryInv
<1> SUFFICES ASSUME Init PROVE MemoryInv
  OBVIOUS
<1>1. LifecycleInv /\ PoolInv /\ \A p \in Pool : Blocks(p) = {}
  BY LifecycleStart, PoolStart DEF Init
<1>2. /\ objects = [h \in Handle |-> {}] /\ alive = {} /\ given = {}
      /\ \A p \in Pool : state[p] = "open" /\ giving[p] = <<>> /\ cur[p] = 0
      /\ \A t \in Thread : freeing[t] = Invalid
  BY DEF Init, LifecycleInit, PoolInit
<1>3. Range(indices) \subseteq Pool
  BY <1>1, RangeOfList DEF LifecycleInv, LifecycleTypeOK
<1>4. \A p \in Pool : Clean(p)
  BY <1>1, <1>2 DEF Clean
<1>5. Released
  BY <1>2, <1>3, <1>4 DEF Released
<1>6. Remembered
  BY <1>2 DEF Remembered
<1> QED BY <1>1, <1>5, <1>6 DEF MemoryInv

LEMMA MemoryStep == MemoryInv /\ [Next]_vars => MemoryInv'
<1> SUFFICES ASSUME MemoryInv, [Next]_vars PROVE MemoryInv'
  OBVIOUS
<1>1. LifecycleInv'
  BY StepOfLifecycle, LifecycleStep DEF MemoryInv
<1>2. PoolInv' /\ Released' /\ Remembered'
  <2>1. CASE UNCHANGED vars
    <3>1. /\ UNCHANGED poolVars /\ objects' = objects /\ indices' = indices
          /\ freeing' = freeing /\ alive' = alive /\ index' = index
      BY <2>1 DEF vars, lifecycleVars
    <3>2. PoolInv' /\ Released'
      BY <3>1, PoolsAlone DEF MemoryInv
    <3> QED BY <3>1, <3>2 DEF MemoryInv, Remembered, poolVars
  <2>2. CASE Next
    <3>1. PICK t \in Thread :
             \/ \E size \in Size : Allocate(t, size)
             \/ /\ MemoryUnchanged
                /\ \/ InitHugeMemThreadLocal(t) \/ StartPlain(t) \/ SetRepeatable(t)
                   \/ UnInitHugeMemThreadLocal(t)
             \/ Release(t) \/ FreeBlocks(t) \/ Return(t)
             \/ \E h \in Handle : \/ UseHandle(t, h)
                                  \/ \E m \in {"once", "default"} : EndPhaseOne(t, h, m)
      BY <2>2 DEF Next
    <3>2. CASE \E size \in Size : Allocate(t, size)
      BY <3>2, AllocateStep
    <3>3. CASE /\ MemoryUnchanged
               /\ \/ InitHugeMemThreadLocal(t) \/ StartPlain(t) \/ SetRepeatable(t)
                  \/ UnInitHugeMemThreadLocal(t)
      BY <3>3, CallerStep
    <3>4. CASE Release(t) \/ FreeBlocks(t) \/ Return(t)
      BY <3>4, ReleasePoolStep, FreeBlocksStep, ReturnPoolStep
    <3>5. CASE \E h \in Handle : \/ UseHandle(t, h)
                                 \/ \E m \in {"once", "default"} : EndPhaseOne(t, h, m)
      BY <3>5, HandleStep, EndStep
    <3> QED BY <3>1, <3>2, <3>3, <3>4, <3>5
  <2> QED BY <2>1, <2>2
<1> QED BY <1>1, <1>2 DEF MemoryInv

\* The invariants of the lifecycle and of the pools, and what ties them
\* together, hold in every state: callers on any number of threads, allocating,
\* running, destroying and releasing in any order.
THEOREM MemoryInvariance == Spec => []MemoryInv
BY MemoryStart, MemoryStep, PTL DEF Spec

\* The objects GetAddr has handed out never overlap, never cover the first word
\* of their block or leave it, and no other pool has their block.
THEOREM ObjectsStayApart == Spec => []ObjectsApart
<1>1. MemoryInv => ObjectsApart
  <2> SUFFICES ASSUME MemoryInv PROVE ObjectsApart
    OBVIOUS
  <2>1. PoolTypeOK /\ Single /\ Below /\ Disjoint
    BY DEF MemoryInv, PoolInv
  <2>2. ASSUME NEW g \in given PROVE g.block \in Range(Held(g.pool)) /\ g.block \notin Range(huge)
    <3>1. g.pool \in Pool /\ state[g.pool] = "open" /\ g.block \in Blocks(g.pool)
      BY <2>1 DEF PoolTypeOK, Object, Below
    <3>2. g.block \in Range(Held(g.pool))
      BY <3>1 DEF Blocks, Holding
    <3> QED BY <2>1, <3>1, <3>2 DEF Single
  <2>3. \A p, q \in Pool : p # q => Blocks(p) \cap Blocks(q) = {}
    BY <2>1 DEF Single
  <2> QED BY <2>1, <2>2, <2>3 DEF ObjectsApart, Backed
<1> QED BY <1>1, MemoryInvariance, PTL

\* No 64 KB block disappears from the array and the pools but with a link that
\* could not be allocated, and the array never holds one twice.
THEOREM HugeBlocksConserved == Spec => []Conserved
<1>1. MemoryInv => Conserved
  BY DEF MemoryInv, PoolInv
<1> QED BY <1>1, MemoryInvariance, PTL

\* An index is at one place, or at none when it was dropped.
LEMMA PlacesCounted ==
    ASSUME LifecycleInv, NEW i \in Index
    PROVE  Cardinality(Places(i)) = (IF i \in dropped THEN 0 ELSE 1)
<1>1. /\ IsInjective(indices) /\ indices \in Seq(Index) /\ alive \subseteq Handle
      /\ i \in dropped <=> ~ \E k, u : At(i, k, u)
  BY DEF LifecycleInv, LifecycleTypeOK, OnePlace
<1>2. \A x : x \in Places(i) <=>
           \/ \E k \in DOMAIN indices : indices[k] = i /\ x = <<"stack", k>>
           \/ \E t \in Thread : tls[t] = i /\ call[t] \in {"one", "two"} /\ x = <<"thread", t>>
           \/ \E h \in alive : index[h] = i /\ x = <<"handle", h>>
           \/ \E t \in Thread : freeing[t] = i /\ x = <<"free", t>>
  BY DEF Places
<1>3. \A x \in Places(i) : \E k, u : At(i, k, u)
  BY <1>2 DEF At, Range
<1>4. CASE i \in dropped
  <2>1. Places(i) = {}
    BY <1>1, <1>3, <1>4
  <2> QED BY <1>4, <2>1, FS_EmptySet
<1>5. CASE i \notin dropped
  <2>1. PICK k, u : At(i, k, u)
    BY <1>1, <1>5
  <2>2. \A l, v : At(i, l, v) => l = k /\ v = u
    BY <2>1, Alone DEF LifecycleInv
  <2>3. /\ i \in Range(indices) => k = "stack"
        /\ \A t \in Thread : tls[t] = i /\ call[t] \in {"one", "two"} => k = "thread" /\ u = t
        /\ \A h \in alive : index[h] = i => k = "handle" /\ u = h
        /\ \A t \in Thread : freeing[t] = i => k = "free" /\ u = t
    <3>1. i \in Range(indices) => At(i, "stack", None)
      BY DEF At
    <3>2. \A t \in Thread : tls[t] = i /\ call[t] \in {"one", "two"} => At(i, "thread", t)
      BY DEF At
    <3>3. \A h \in alive : index[h] = i => At(i, "handle", h)
      BY DEF At
    <3>4. \A t \in Thread : freeing[t] = i => At(i, "free", t)
      BY DEF At
    <3> QED BY <2>2, <3>1, <3>2, <3>3, <3>4
  <2>4. PICK x : Places(i) = {x}
    <3>1. CASE k = "stack"
      <4>1. PICK n \in DOMAIN indices : indices[n] = i
        BY <2>1, <3>1 DEF At, Range
      <4>2. \A m \in DOMAIN indices : indices[m] = i => m = n
        BY <1>1, <4>1 DEF IsInjective
      <4>3. \A y : y \in Places(i) <=> y = <<"stack", n>>
        BY <1>2, <2>3, <3>1, <4>1, <4>2
      <4>4. Places(i) = {<<"stack", n>>}
        BY <4>3
      <4> QED BY <4>4
    <3>2. CASE k = "thread"
      <4>1. u \in Thread /\ tls[u] = i /\ call[u] \in {"one", "two"}
        BY <2>1, <3>2 DEF At
      <4>2. \A m \in DOMAIN indices : indices[m] # i
        BY <2>3, <3>2 DEF Range
      <4>3. \A y : y \in Places(i) <=> y = <<"thread", u>>
        BY <1>2, <2>3, <3>2, <4>1, <4>2
      <4>4. Places(i) = {<<"thread", u>>}
        BY <4>3
      <4> QED BY <4>4
    <3>3. CASE k = "handle"
      <4>1. u \in alive /\ index[u] = i
        BY <2>1, <3>3 DEF At
      <4>2. \A m \in DOMAIN indices : indices[m] # i
        BY <2>3, <3>3 DEF Range
      <4>3. \A y : y \in Places(i) <=> y = <<"handle", u>>
        BY <1>2, <2>3, <3>3, <4>1, <4>2
      <4>4. Places(i) = {<<"handle", u>>}
        BY <4>3
      <4> QED BY <4>4
    <3>4. CASE k = "free"
      <4>1. u \in Thread /\ freeing[u] = i
        BY <2>1, <3>4 DEF At
      <4>2. \A m \in DOMAIN indices : indices[m] # i
        BY <2>3, <3>4 DEF Range
      <4>3. \A y : y \in Places(i) <=> y = <<"free", u>>
        BY <1>2, <2>3, <3>4, <4>1, <4>2
      <4>4. Places(i) = {<<"free", u>>}
        BY <4>3
      <4> QED BY <4>4
    <3> QED BY <2>1, <3>1, <3>2, <3>3, <3>4 DEF At
  <2> QED BY <1>5, <2>4, FS_Singleton
<1> QED BY <1>4, <1>5

\* What phase one has allocated stays until its executor is deleted; an executor
\* that may be run again has nothing in a pool; every index has one user.
THEOREM ExecutorObjectsKept == Spec => []ObjectsKept
<1>1. MemoryInv => ObjectsKept
  <2> SUFFICES ASSUME MemoryInv PROVE ObjectsKept
    OBVIOUS
  <2>1. LifecycleInv /\ PoolTypeOK /\ Remembered /\ Copies /\ alive \subseteq Handle
    BY DEF MemoryInv, PoolInv, LifecycleInv, LifecycleTypeOK
  <2>2. \A h \in alive : objects[h] \subseteq given
    BY <2>1 DEF Remembered
  <2>3. \A h \in alive : mode[h] = "repeat" => objects[h] = {}
    <3>1. \A g \in given : g.pool \in Index
      BY <2>1 DEF PoolTypeOK, Object
    <3>2. \A h \in alive : mode[h] = "repeat" => index[h] = Invalid
      BY <2>1 DEF Copies
    <3>3. \A h \in alive : \A g \in objects[h] : g \in given /\ g.pool = index[h]
      BY <2>1 DEF Remembered
    <3> QED BY <3>1, <3>2, <3>3
  <2>4. \A i \in Index : Cardinality(Places(i)) = (IF i \in dropped THEN 0 ELSE 1)
    BY <2>1, PlacesCounted
  <2> QED BY <2>2, <2>3, <2>4 DEF ObjectsKept
<1> QED BY <1>1, MemoryInvariance, PTL

\* The pool of an index on the stack has no block, no object and no release in
\* progress: the next executor starts with an empty one.
THEOREM IndexReturnedEmpty == Spec => []ReturnedEmpty
<1>1. MemoryInv => ReturnedEmpty
  BY DEF MemoryInv, Released, Clean, ReturnedEmpty
<1> QED BY <1>1, MemoryInvariance, PTL
=============================================================================
