------------------------ MODULE WorkspacePlanProofs ------------------------
(***************************************************************************)
(* For every number of kernels, tensors and sizes: tensors that share a    *)
(* bucket of the workspace have disjoint lifetimes; without in-place       *)
(* kernels everything lies inside the workspace and no kernel overwrites   *)
(* what a later one still reads.                                           *)
(***************************************************************************)
EXTENDS WorkspacePlan, BasicFacts, SequenceTheorems, FiniteSetTheorems

\* CalcLifeTimeAndSize: a lifetime starts with the kernel that writes the
\* tensor and does not end before it.
LEMMA LifeTime ==
    ASSUME NEW t \in TensorSet
    PROVE  /\ LifeTimeStart(t) \in Nat /\ LifeTimeEnd(t) \in Nat
           /\ LifeTimeStart(t) <= LifeTimeEnd(t)
           /\ \A p \in t.peers : p <= LifeTimeEnd(t)
<1> DEFINE uses == {t.node} \cup t.peers
<1>1. MaxNodes \in Nat /\ uses \subseteq 0 .. MaxNodes /\ uses # {}
  BY PlanAssumption DEF TensorSet
<1>2. \E e \in uses : \A p \in uses : p <= e
  <2> HIDE DEF uses
  <2> QED BY <1>1, LargestNatural
<1>3. LifeTimeEnd(t) \in uses /\ \A p \in uses : p <= LifeTimeEnd(t)
  BY <1>2, Zenon DEF LifeTimeEnd
<1>4. \A p \in uses : p \in Nat
  BY <1>1
<1> QED BY <1>3, <1>4 DEF LifeTimeStart

\* Align of memory_allocator.cpp rounds a size to a number of bytes.
LEMMA AlignIsSize == \A n \in Nat : Align(n) \in Nat
<1>1. SUFFICES ASSUME NEW n \in Nat PROVE Align(n) \in Nat
  OBVIOUS
<1>2. n + Extra + AlignTo - 1 \in Nat
  BY PlanAssumption
<1>3. \A a \in Nat : a \div AlignTo \in Nat
  BY PlanAssumption
<1>4. \A a \in Nat : a * AlignTo \in Nat
  BY PlanAssumption
<1> QED BY <1>2, <1>3, <1>4 DEF Align

\* An empty graph without buckets satisfies the inductive invariant.
LEMMA InitIndInv == Init => IndInv
<1> SUFFICES ASSUME Init PROVE IndInv
  OBVIOUS
<1>1. TypeOK
  BY SMT DEF Init, TypeOK, Placeholder
<1> QED BY <1>1 DEF Init, IndInv, Sorted, Filled, BucketsDisjoint

\* What BuildGraph of kernel n makes of the list of kernel tensors: tensors
\* already listed may become a peer of n, new ones belong to n.
Extends(ts, n) ==
    /\ ts \in Seq(TensorSet) /\ Len(tensors) <= Len(ts)
    /\ \A i \in 1 .. Len(tensors) : ts[i].node = tensors[i].node
    /\ \A i \in 1 .. Len(ts) : i > Len(tensors) => ts[i].node = n

\* A tensor of kernel n at the end of the list keeps that shape.
LEMMA AppendExtends ==
    ASSUME TypeOK, NEW n \in 1 .. MaxNodes, NEW ts, Extends(ts, n), NEW s \in Storage
    PROVE  /\ Extends(Append(ts, Tensor(s, n)), n)
           /\ Len(Append(ts, Tensor(s, n))) = Len(ts) + 1
<1> DEFINE t == Tensor(s, n)
<1>1. t \in TensorSet /\ t.node = n
  BY DEF Tensor, TensorSet
<1> HIDE DEF t
<1>2. /\ Append(ts, t) \in Seq(TensorSet) /\ Len(Append(ts, t)) = Len(ts) + 1
      /\ \A i \in 1 .. Len(ts) : Append(ts, t)[i] = ts[i]
      /\ Append(ts, t)[Len(ts) + 1] = t
  BY <1>1, AppendProperties DEF Extends
<1>3. Len(ts) \in Nat /\ Len(tensors) \in Nat /\ Len(tensors) <= Len(ts)
  BY DEF Extends, TypeOK
<1>4. \A i \in 1 .. Len(tensors) : Append(ts, t)[i].node = tensors[i].node
  BY <1>2, <1>3 DEF Extends
<1>5. \A i \in 1 .. Len(ts) + 1 : i > Len(tensors) => Append(ts, t)[i].node = n
  BY <1>1, <1>2, <1>3 DEF Extends
<1>6. Extends(Append(ts, t), n)
  BY <1>2, <1>3, <1>4, <1>5 DEF Extends
<1> QED BY <1>2, <1>6 DEF t

\* BuildGraph preserves the inductive invariant.
LEMMA AddNodeIndInv ==
    ASSUME IndInv, NEW ins \in SUBSET Storage, NEW out \in Storage \cup {None},
           NEW scratch \in Storage \cup {None}, AddNode(ins, out, scratch)
    PROVE  IndInv'
<1> DEFINE n == Len(nodes) + 1
           node == [ins |-> ins, out |-> out, scratch |-> scratch]
           linked == [i \in DOMAIN tensors |->
                        IF i \in Linked(ins, out) THEN WithPeer(tensors[i], n)
                        ELSE tensors[i]]
           withScratch == IF scratch = None THEN linked
                          ELSE Append(linked, Tensor(scratch, n))
<1>1. TypeOK /\ Sorted /\ Filled /\ BucketsDisjoint
  BY DEF IndInv
<1>2. /\ phase = "build" /\ buckets = <<>>
      /\ nodes' = Append(nodes, node)
      /\ tensors' = IF out = None THEN withScratch ELSE Append(withScratch, Tensor(out, n))
      /\ extend' = IF out = None THEN extend
                   ELSE [extend EXCEPT ![out] = Len(withScratch) + 1]
      /\ UNCHANGED <<size, phase, next, buckets, offset, total>>
  BY <1>1 DEF AddNode, Filled, plan
<1>3. Len(nodes) \in Nat /\ n \in 1 .. MaxNodes /\ MaxNodes \in Nat
  BY <1>1, PlanAssumption DEF AddNode, TypeOK
<1>4. /\ nodes' \in Seq([ins : SUBSET Storage, out : Storage \cup {None},
                         scratch : Storage \cup {None}])
      /\ Len(nodes') = n
  <2>1. node \in [ins : SUBSET Storage, out : Storage \cup {None},
                  scratch : Storage \cup {None}]
    OBVIOUS
  <2> HIDE DEF node
  <2> QED BY <1>1, <1>2, <2>1, AppendProperties DEF TypeOK
<1>5. Extends(linked, n) /\ Len(linked) = Len(tensors)
  <2>1. /\ tensors \in Seq(TensorSet) /\ Len(tensors) \in Nat
        /\ DOMAIN tensors = 1 .. Len(tensors)
        /\ \A i \in 1 .. Len(tensors) : tensors[i] \in TensorSet
    BY <1>1 DEF TypeOK
  <2>2. \A i \in 1 .. Len(tensors) :
           linked[i] \in TensorSet /\ linked[i].node = tensors[i].node
    <3>1. \A t \in TensorSet : WithPeer(t, n) \in TensorSet /\ WithPeer(t, n).node = t.node
      BY <1>3 DEF TensorSet, WithPeer
    <3> QED BY <2>1, <3>1
  <2>3. linked \in [1 .. Len(tensors) -> TensorSet]
    BY <2>1, <2>2
  <2> HIDE DEF linked
  <2>4. linked \in Seq(TensorSet) /\ Len(linked) = Len(tensors)
    BY <2>1, <2>3, IsASeq, LenProperties
  <2> QED BY <2>1, <2>2, <2>4 DEF Extends
<1> HIDE DEF linked
<1>6. Extends(withScratch, n)
  BY <1>1, <1>3, <1>5, AppendExtends
<1> HIDE DEF withScratch
<1>7. Extends(tensors', n) /\ (out # None => Len(tensors') = Len(withScratch) + 1)
  BY <1>1, <1>2, <1>3, <1>6, AppendExtends
<1>8. /\ tensors' \in Seq(TensorSet) /\ Len(tensors') \in Nat
      /\ Len(tensors) \in Nat /\ Len(tensors) <= Len(tensors')
  BY <1>1, <1>7 DEF Extends, TypeOK
<1>9. TypeOK'
  <2>1. extend' \in [Storage -> 0 .. Len(tensors')]
    <3>1. CASE out = None
      BY <1>1, <1>2, <1>8, <3>1 DEF TypeOK
    <3>2. CASE out # None
      <4>1. Len(withScratch) + 1 \in 0 .. Len(tensors')
        BY <1>7, <1>8, <3>2
      <4>2. extend \in [Storage -> 0 .. Len(tensors')]
        BY <1>1, <1>8 DEF TypeOK
      <4> QED BY <1>2, <3>2, <4>1, <4>2
    <3> QED BY <3>1, <3>2
  <2>2. buckets' \in Seq([size : Nat, refs : Seq(DOMAIN tensors')])
    BY <1>2
  <2> QED BY <1>1, <1>2, <1>4, <1>8, <2>1, <2>2 DEF TypeOK
<1>10. Sorted'
  <2>1. \A i \in 1 .. Len(tensors') :
          IF i <= Len(tensors) THEN tensors'[i].node = tensors[i].node
                                    /\ tensors[i].node \in Nat /\ tensors[i].node <= Len(nodes)
          ELSE tensors'[i].node = n
    <3>1. \A i \in 1 .. Len(tensors) : tensors[i].node \in Nat /\ tensors[i].node <= Len(nodes)
      <4>1. \A i \in 1 .. Len(tensors) : tensors[i] \in TensorSet
        BY <1>1 DEF TypeOK
      <4>2. \A t \in TensorSet : t.node \in Nat
        BY DEF TensorSet
      <4>3. DOMAIN tensors = 1 .. Len(tensors)
        BY <1>1 DEF TypeOK
      <4> QED BY <1>1, <4>1, <4>2, <4>3 DEF Sorted
    <3> QED BY <3>1, <1>7, <1>8 DEF Extends
  <2>2. \A i \in 1 .. Len(tensors') : tensors'[i].node <= Len(nodes')
    BY <2>1, <1>3, <1>4
  <2>3. \A i, j \in 1 .. Len(tensors') : i <= j => tensors'[i].node <= tensors'[j].node
    <3> TAKE i, j \in 1 .. Len(tensors')
    <3> HAVE i <= j
    <3>1. CASE j <= Len(tensors)
      BY <2>1, <3>1, <1>1, <1>8 DEF Sorted
    <3>2. CASE j > Len(tensors)
      BY <2>1, <3>2, <1>3, <1>8
    <3> QED BY <3>1, <3>2, <1>8
  <2> QED BY <1>8, <2>2, <2>3 DEF Sorted
<1>11. Filled' /\ BucketsDisjoint'
  BY <1>2 DEF Filled, BucketsDisjoint
<1> QED BY <1>9, <1>10, <1>11 DEF IndInv

\* The tensors of a bucket, all before number bound in the list, in the order
\* in which they came, with disjoint lifetimes.
InOrder(refs, bound) ==
    /\ refs \in Seq(1 .. Len(tensors)) /\ refs # <<>>
    /\ \A x \in 1 .. Len(refs) : refs[x] < bound
    /\ \A x, y \in 1 .. Len(refs) : x < y =>
         /\ refs[x] < refs[y]
         /\ LifeTimeEnd(tensors[refs[x]]) < LifeTimeStart(tensors[refs[y]])

\* A tensor that does not overlap with the last one of a bucket overlaps with
\* none: IsReusable need not look further.
LEMMA AppendInOrder ==
    ASSUME TypeOK, Sorted, next <= Len(tensors), NEW refs, InOrder(refs, next),
           IsLifeTimeNotOverLap(tensors[refs[Len(refs)]], tensors[next])
    PROVE  InOrder(Append(refs, next), next + 1)
<1> DEFINE new == Append(refs, next)
           last == refs[Len(refs)]
<1>1. /\ next \in 1 .. Len(tensors) /\ Len(tensors) \in Nat
      /\ DOMAIN tensors = 1 .. Len(tensors)
      /\ \A i \in 1 .. Len(tensors) : tensors[i] \in TensorSet
  BY DEF TypeOK
<1>2. /\ refs \in Seq(1 .. Len(tensors)) /\ Len(refs) \in Nat \ {0}
      /\ \A x \in 1 .. Len(refs) : refs[x] \in 1 .. Len(tensors)
      /\ last \in 1 .. Len(tensors) /\ last < next
  BY DEF InOrder
<1>3. /\ new \in Seq(1 .. Len(tensors)) /\ Len(new) = Len(refs) + 1
      /\ \A x \in 1 .. Len(refs) : new[x] = refs[x]
      /\ new[Len(refs) + 1] = next /\ new # <<>>
  BY <1>1, <1>2, AppendProperties
<1> HIDE DEF new
<1>4. \A i \in 1 .. Len(tensors) :
         /\ LifeTimeStart(tensors[i]) \in Nat /\ LifeTimeEnd(tensors[i]) \in Nat
         /\ LifeTimeStart(tensors[i]) <= LifeTimeEnd(tensors[i])
  BY <1>1, LifeTime
<1>5. LifeTimeStart(tensors[last]) <= LifeTimeStart(tensors[next])
  BY <1>1, <1>2 DEF Sorted, LifeTimeStart
<1>6. LifeTimeEnd(tensors[last]) < LifeTimeStart(tensors[next])
  BY <1>1, <1>2, <1>4, <1>5 DEF IsLifeTimeNotOverLap
<1>7. \A x \in 1 .. Len(refs) :
        refs[x] < next /\ LifeTimeEnd(tensors[refs[x]]) < LifeTimeStart(tensors[next])
  <2> TAKE x \in 1 .. Len(refs)
  <2>1. CASE x = Len(refs)
    BY <1>2, <1>6, <2>1
  <2>2. CASE x < Len(refs)
    <3>1. refs[x] < next /\ LifeTimeEnd(tensors[refs[x]]) < LifeTimeStart(tensors[last])
      BY <1>2, <2>2 DEF InOrder
    <3> QED BY <3>1, <1>1, <1>2, <1>4, <1>5
  <2> QED BY <1>2, <2>1, <2>2
<1>8. \A x \in 1 .. Len(new) : new[x] < next + 1
  <2> TAKE x \in 1 .. Len(new)
  <2>1. CASE x = Len(refs) + 1
    BY <1>1, <1>3, <2>1
  <2>2. CASE x # Len(refs) + 1
    <3>1. x \in 1 .. Len(refs)
      BY <1>2, <1>3, <2>2
    <3>2. new[x] < next /\ new[x] \in Nat
      BY <1>2, <1>3, <1>7, <3>1
    <3> QED BY <1>1, <3>2
  <2> QED BY <2>1, <2>2
<1>9. ASSUME NEW x \in 1 .. Len(new), NEW y \in 1 .. Len(new), x < y
      PROVE  /\ new[x] < new[y]
             /\ LifeTimeEnd(tensors[new[x]]) < LifeTimeStart(tensors[new[y]])
  <2>1. CASE y = Len(refs) + 1
    <3>1. x \in 1 .. Len(refs)
      BY <1>2, <1>3, <1>9, <2>1
    <3> QED BY <1>3, <1>7, <2>1, <3>1
  <2>2. CASE y # Len(refs) + 1
    <3>1. x \in 1 .. Len(refs) /\ y \in 1 .. Len(refs)
      BY <1>2, <1>3, <1>9, <2>2
    <3> QED BY <1>3, <1>9, <3>1 DEF InOrder
  <2> QED BY <2>1, <2>2
<1>10. InOrder(new, next + 1)
  BY <1>3, <1>8, <1>9 DEF InOrder
<1> QED BY <1>10 DEF new

\* Every bucket is in that order while tensors are placed.
LEMMA BucketsInOrder ==
    ASSUME IndInv, phase = "place", NEW b \in 1 .. Len(buckets)
    PROVE  buckets[b].size \in Nat /\ InOrder(buckets[b].refs, next)
<1>1. /\ DOMAIN buckets = 1 .. Len(buckets)
      /\ buckets[b] \in [size : Nat, refs : Seq(DOMAIN tensors)]
      /\ DOMAIN tensors = 1 .. Len(tensors)
  <2> DEFINE B == [size : Nat, refs : Seq(DOMAIN tensors)]
  <2>1. buckets \in Seq(B) /\ tensors \in Seq(TensorSet)
    BY DEF IndInv, TypeOK
  <2> HIDE DEF B
  <2>2. DOMAIN buckets = 1 .. Len(buckets) /\ buckets[b] \in B
    BY <2>1
  <2> QED BY <2>1, <2>2 DEF B
<1>2. /\ buckets[b].size \in Nat /\ buckets[b].refs \in Seq(1 .. Len(tensors))
      /\ DOMAIN buckets[b].refs = 1 .. Len(buckets[b].refs)
  BY <1>1
<1> QED BY <1>1, <1>2 DEF IndInv, Filled, BucketsDisjoint, InOrder

\* One turn of the first loop of MaxAllocator::Allocate preserves the
\* inductive invariant.
LEMMA PlaceIndInv ==
    ASSUME IndInv, Place
    PROVE  IndInv'
<1> DEFINE t == tensors[next]
           fit == Reusable(t)
           best == CHOOSE b \in fit : \A c \in fit : c <= b
           B == [size : Nat, refs : Seq(DOMAIN tensors)]
<1>1. TypeOK /\ Sorted /\ Filled /\ BucketsDisjoint
  BY DEF IndInv
<1>2. /\ phase = "place" /\ next <= Len(tensors) /\ next' = next + 1
      /\ UNCHANGED <<size, nodes, tensors, extend, phase, total>>
  BY DEF Place, graph
<1>3. /\ next \in 1 .. Len(tensors) /\ t \in TensorSet /\ t.storage \in Storage
      /\ DOMAIN tensors = 1 .. Len(tensors) /\ Len(tensors) \in Nat
  <2>1. next \in 1 .. Len(tensors) /\ t \in TensorSet
    BY <1>1, <1>2 DEF TypeOK
  <2> QED BY <1>1, <2>1 DEF TypeOK, TensorSet
<1>4. buckets \in Seq(B) /\ DOMAIN buckets = 1 .. Len(buckets) /\ Len(buckets) \in Nat
  <2>1. buckets \in Seq(B)
    BY <1>1 DEF TypeOK
  <2> HIDE DEF B
  <2> QED BY <2>1
<1>5. \A b \in 1 .. Len(buckets) : /\ buckets[b].size \in Nat
                                   /\ InOrder(buckets[b].refs, next)
                                   /\ InOrder(buckets[b].refs, next + 1)
  <2> TAKE b \in 1 .. Len(buckets)
  <2>1. buckets[b].size \in Nat /\ InOrder(buckets[b].refs, next)
    BY <1>2, BucketsInOrder
  <2>2. \A x \in 1 .. Len(buckets[b].refs) : buckets[b].refs[x] \in Nat
    BY <2>1 DEF InOrder
  <2>3. \A x \in 1 .. Len(buckets[b].refs) : buckets[b].refs[x] < next + 1
    BY <1>3, <2>1, <2>2 DEF InOrder
  <2> QED BY <2>1, <2>3 DEF InOrder
<1>6. \A bucket : bucket.size \in Nat => AddRef(bucket, next).size \in Nat
  <2>1. size[t.storage] \in Nat
    BY <1>1, <1>3, PlanAssumption DEF TypeOK
  <2>2. Align(size[t.storage]) \in Nat
    BY <2>1, AlignIsSize
  <2> QED BY <2>2 DEF AddRef, Max
<1>7. /\ buckets' \in Seq(B)
      /\ \A b \in 1 .. Len(buckets') : InOrder(buckets'[b].refs, next + 1)
      /\ offset' \in [Storage -> Nat \cup {Placeholder}]
  <2>1. CASE offset[t.storage] = Placeholder
    <3>1. UNCHANGED <<buckets, offset>>
      BY <2>1 DEF Place
    <3> QED BY <1>1, <1>4, <1>5, <3>1 DEF TypeOK
  <2>2. CASE offset[t.storage] # Placeholder
    <3>1. /\ buckets' = IF fit = {}
                        THEN Append(buckets, AddRef([size |-> 0, refs |-> <<>>], next))
                        ELSE [buckets EXCEPT ![best] = AddRef(buckets[best], next)]
          /\ offset' = [offset EXCEPT ![t.storage] = Placeholder]
      BY <2>2 DEF Place
    <3>2. offset' \in [Storage -> Nat \cup {Placeholder}]
      BY <1>1, <1>3, <3>1 DEF TypeOK
    <3>3. CASE fit = {}
      <4> DEFINE new == AddRef([size |-> 0, refs |-> <<>>], next)
      <4>1. new.size \in Nat /\ new.refs = <<next>>
        <5>1. new.refs = Append(<<>>, next)
          BY DEF AddRef
        <5>2. [size |-> 0, refs |-> <<>>].size \in Nat
          OBVIOUS
        <5> QED BY <1>6, <5>1, <5>2
      <4>2. new \in B
        BY <1>3, <4>1 DEF AddRef
      <4>3. InOrder(new.refs, next + 1)
        <5>1. /\ <<next>> \in Seq(1 .. Len(tensors)) /\ <<next>> # <<>>
              /\ Len(<<next>>) = 1 /\ <<next>>[1] = next
          BY <1>3
        <5>2. InOrder(<<next>>, next + 1)
          BY <1>3, <5>1 DEF InOrder
        <5> QED BY <4>1, <5>2
      <4> HIDE DEF new, B
      <4>4. /\ buckets' \in Seq(B) /\ Len(buckets') = Len(buckets) + 1
            /\ \A b \in 1 .. Len(buckets) : buckets'[b] = buckets[b]
            /\ buckets'[Len(buckets) + 1] = new
        BY <1>4, <3>1, <3>3, <4>2, AppendProperties DEF new
      <4>5. \A b \in 1 .. Len(buckets') : b \in 1 .. Len(buckets) \/ b = Len(buckets) + 1
        BY <1>4, <4>4
      <4> QED BY <1>5, <3>2, <4>3, <4>4, <4>5
    <3>4. CASE fit # {}
      <4>1. best \in fit
        <5>1. fit \subseteq 0 .. Len(buckets)
          BY <1>4 DEF Reusable
        <5>2. \E b \in fit : \A c \in fit : c <= b
          <6> HIDE DEF fit
          <6> QED BY <1>4, <3>4, <5>1, LargestNatural
        <5> QED BY <5>2, Zenon
      <4>2. /\ best \in 1 .. Len(buckets)
            /\ IsLifeTimeNotOverLap(tensors[buckets[best].refs[Len(buckets[best].refs)]], t)
        BY <1>4, <4>1 DEF Reusable, IsReusable
      <4> HIDE DEF best, fit
      <4> DEFINE new == AddRef(buckets[best], next)
      <4>3. InOrder(Append(buckets[best].refs, next), next + 1)
        BY <1>1, <1>2, <1>5, <4>2, AppendInOrder
      <4>4. new.size \in Nat /\ new.refs = Append(buckets[best].refs, next)
        BY <1>5, <1>6, <4>2 DEF AddRef
      <4>5. new \in B
        BY <1>3, <4>3, <4>4 DEF AddRef, InOrder
      <4>6. InOrder(new.refs, next + 1)
        BY <4>3, <4>4
      <4> HIDE DEF new, B
      <4>7. buckets' = [buckets EXCEPT ![best] = new]
        BY <3>1, <3>4 DEF new
      <4>8. /\ buckets' \in Seq(B) /\ Len(buckets') = Len(buckets)
            /\ \A b \in 1 .. Len(buckets) : buckets'[b] = IF b = best THEN new ELSE buckets[b]
        BY <1>4, <4>2, <4>5, <4>7, ExceptSeq
      <4> QED BY <1>5, <3>2, <4>6, <4>8
    <3> QED BY <3>3, <3>4
  <2> QED BY <2>1, <2>2
<1>8. TypeOK'
  BY <1>1, <1>2, <1>7 DEF TypeOK
<1>9. /\ DOMAIN buckets' = 1 .. Len(buckets')
      /\ \A b \in 1 .. Len(buckets') : DOMAIN buckets'[b].refs = 1 .. Len(buckets'[b].refs)
  <2>1. DOMAIN buckets' = 1 .. Len(buckets')
    <3> HIDE DEF B
    <3> QED BY <1>7
  <2> QED BY <1>7, <2>1 DEF InOrder
<1>10. Filled'
  BY <1>2, <1>7, <1>9 DEF Filled, InOrder
<1>11. BucketsDisjoint'
  BY <1>2, <1>7, <1>9 DEF BucketsDisjoint, InOrder, LifeTimeStart, LifeTimeEnd
<1> QED BY <1>1, <1>2, <1>8, <1>10, <1>11 DEF IndInv, Sorted

\* A step that changes neither the graph nor the buckets preserves it.
LEMMA SameBuckets ==
    ASSUME IndInv, TypeOK', UNCHANGED <<nodes, tensors, buckets>>,
           buckets = <<>> \/ (phase' = "place" => phase = "place" /\ next' = next),
           phase' \in {"build", "linear"} => buckets = <<>>
    PROVE  IndInv'
<1>1. Sorted'
  BY DEF IndInv, Sorted
<1>2. BucketsDisjoint'
  <2>1. BucketsDisjoint
    BY DEF IndInv
  <2> QED BY <2>1 DEF BucketsDisjoint
<1>3. Filled'
  BY DEF IndInv, Filled
<1> QED BY <1>1, <1>2, <1>3 DEF IndInv

\* Every step of graph construction and of the two allocators preserves the
\* inductive invariant.
LEMMA NextIndInv == IndInv /\ [Next]_vars => IndInv'
<1> SUFFICES ASSUME IndInv, [Next]_vars PROVE IndInv'
  OBVIOUS
<1>1. TypeOK /\ Sorted /\ Filled /\ BucketsDisjoint
  BY DEF IndInv
<1>2. CASE \E ins \in SUBSET Storage, out, scratch \in Storage \cup {None} :
             AddNode(ins, out, scratch)
  BY <1>2, AddNodeIndInv
<1>3. CASE Place
  BY <1>3, PlaceIndInv
<1>4. CASE GetWorkspaceSize \/ GetLinearWorkspaceSize
  <2>1. /\ UNCHANGED <<size, nodes, tensors, extend, next, buckets, offset, total>>
        /\ phase' \in {"place", "linear"} /\ buckets = <<>>
    BY <1>1, <1>4 DEF GetWorkspaceSize, GetLinearWorkspaceSize, graph, plan, Filled
  <2>2. TypeOK'
    BY <1>1, <2>1 DEF TypeOK
  <2> QED BY <2>1, <2>2, SameBuckets
<1>5. CASE PlacedAll \/ OffsetsDone \/ LinearDone
  <2>1. /\ UNCHANGED <<size, nodes, tensors, extend, buckets, offset, total>>
        /\ phase' \in {"offset", "done"} /\ next' \in {1, next}
    BY <1>5 DEF PlacedAll, OffsetsDone, LinearDone, graph, plan
  <2>2. TypeOK'
    BY <1>1, <2>1 DEF TypeOK
  <2> QED BY <2>1, <2>2, SameBuckets
<1>6. CASE UpdateOffset
  <2>1. /\ UNCHANGED <<size, nodes, tensors, extend, phase, buckets>>
        /\ phase = "offset" /\ next' = next + 1 /\ next \in DOMAIN buckets
        /\ total' = total + buckets[next].size
        /\ offset' = [s \in Storage |->
             IF s \in {tensors[i].storage : i \in Range(buckets[next].refs)}
             THEN total ELSE offset[s]]
    <3> DEFINE B == [size : Nat, refs : Seq(DOMAIN tensors)]
    <3>1. buckets \in Seq(B) /\ next \in Nat \ {0} /\ next <= Len(buckets)
      BY <1>1, <1>6 DEF TypeOK, UpdateOffset
    <3> HIDE DEF B
    <3>2. next \in DOMAIN buckets
      BY <3>1
    <3> QED BY <1>6, <3>2 DEF UpdateOffset, Inside, graph
  <2>2. buckets[next].size \in Nat
    <3> DEFINE B == [size : Nat, refs : Seq(DOMAIN tensors)]
    <3>1. buckets \in Seq(B)
      BY <1>1 DEF TypeOK
    <3>2. \A b \in B : b.size \in Nat
      OBVIOUS
    <3> HIDE DEF B
    <3> QED BY <2>1, <3>1, <3>2
  <2>3. offset' \in [Storage -> Nat \cup {Placeholder}]
    BY <1>1, <2>1 DEF TypeOK
  <2>4. total' \in Nat /\ next' \in Nat \ {0}
    <3>1. total \in Nat /\ next \in Nat \ {0}
      BY <1>1 DEF TypeOK
    <3>2. total' = total + buckets[next].size /\ next' = next + 1
      BY <2>1
    <3> QED BY <2>2, <3>1, <3>2
  <2>5. TypeOK'
    <3>1. buckets' \in Seq([size : Nat, refs : Seq(DOMAIN tensors')])
      BY <1>1, <2>1 DEF TypeOK
    <3>2. extend' \in [Storage -> 0 .. Len(tensors')]
      BY <1>1, <2>1 DEF TypeOK
    <3> QED BY <1>1, <2>1, <2>3, <2>4, <3>1, <3>2 DEF TypeOK
  <2> QED BY <2>1, <2>5, SameBuckets
<1>7. CASE PlaceLinear
  <2>1. /\ UNCHANGED <<size, nodes, tensors, extend, phase, buckets>>
        /\ phase = "linear" /\ buckets = <<>> /\ next' = next + 1
        /\ offset' = [offset EXCEPT ![tensors[next].storage] = total]
        /\ total' = total + Align(size[tensors[next].storage])
    BY <1>1, <1>7 DEF PlaceLinear, graph, Filled
  <2>2. tensors[next].storage \in Storage
    <3>1. tensors[next] \in TensorSet
      BY <1>1, <1>7 DEF TypeOK, PlaceLinear
    <3> QED BY <3>1 DEF TensorSet
  <2>3. Align(size[tensors[next].storage]) \in Nat
    BY <1>1, <2>2, AlignIsSize, PlanAssumption DEF TypeOK
  <2>4. offset' \in [Storage -> Nat \cup {Placeholder}]
    BY <1>1, <2>1, <2>2 DEF TypeOK
  <2>5. TypeOK'
    BY <1>1, <2>1, <2>3, <2>4 DEF TypeOK
  <2> QED BY <2>1, <2>5, SameBuckets
<1>8. CASE UNCHANGED vars
  <2>1. UNCHANGED <<size, nodes, tensors, extend, phase, next, buckets, offset, total>>
    BY <1>8 DEF vars, graph, plan
  <2>2. TypeOK'
    BY <1>1, <2>1 DEF TypeOK
  <2>3. phase \in {"build", "linear"} => buckets = <<>>
    BY <1>1 DEF Filled
  <2> QED BY <2>1, <2>2, <2>3, SameBuckets
<1> QED BY <1>2, <1>3, <1>4, <1>5, <1>6, <1>7, <1>8 DEF Next, Keep

\* The inductive invariant holds in every state of graph construction and of
\* the allocators.
THEOREM PlanInvariance == Spec => []IndInv
BY InitIndInv, NextIndInv, PTL DEF Spec

\* MaxAllocator never puts two tensors whose lifetimes overlap into one
\* bucket, although IsReusable compares a tensor with the last one only.
THEOREM LifeTimesApart == Spec => []BucketsDisjoint
<1>1. IndInv => BucketsDisjoint
  BY DEF IndInv
<1> QED BY <1>1, PlanInvariance, PTL

\* The graph, the buckets and the offsets are well typed at every step of
\* GetWorkspaceSize.
THEOREM PlanTypeCorrect == Spec => []TypeOK
<1>1. IndInv => TypeOK
  BY DEF IndInv
<1> QED BY <1>1, PlanInvariance, PTL
-----------------------------------------------------------------------------
(* The graph.                                                              *)

\* What BuildGraph of kernel n leaves of the list of kernel tensors and what
\* it adds to it.
Joined(n, ins, out, scratch) ==
    /\ tensors' \in Seq(TensorSet) /\ Len(tensors) <= Len(tensors')
    /\ \A i \in 1 .. Len(tensors) :
         /\ tensors'[i].storage = tensors[i].storage
         /\ tensors'[i].node = tensors[i].node
         /\ tensors[i].peers \subseteq tensors'[i].peers
         /\ i \in Linked(ins, out) => n \in tensors'[i].peers
    /\ \A i \in 1 .. Len(tensors') : i > Len(tensors) =>
         tensors'[i].node = n /\ tensors'[i].storage \in Some(out) \cup Some(scratch)
    /\ \A s \in Some(out) \cup Some(scratch) :
         \E i \in 1 .. Len(tensors') : /\ i > Len(tensors)
                                       /\ tensors'[i].storage = s /\ tensors'[i].node = n
    /\ \A i, j \in 1 .. Len(tensors') :
         /\ i > Len(tensors) /\ j > Len(tensors)
         /\ tensors'[i].storage = tensors'[j].storage
         => i = j
    /\ out # None => /\ extend'[out] \in 1 .. Len(tensors')
                     /\ tensors'[extend'[out]].storage = out

\* BuildGraph has that effect.
LEMMA AddNodeJoined ==
    ASSUME TypeOK, NEW ins \in SUBSET Storage, NEW out \in Storage \cup {None},
           NEW scratch \in Storage \cup {None}, AddNode(ins, out, scratch)
    PROVE  Joined(Len(nodes) + 1, ins, out, scratch)
<1> DEFINE n == Len(nodes) + 1
           linked == [i \in DOMAIN tensors |->
                        IF i \in Linked(ins, out) THEN WithPeer(tensors[i], n)
                        ELSE tensors[i]]
           m == Len(tensors)
<1>1. /\ tensors \in Seq(TensorSet) /\ m \in Nat /\ DOMAIN tensors = 1 .. m
      /\ \A i \in 1 .. m : tensors[i] \in TensorSet
      /\ n \in 1 .. MaxNodes /\ None \notin Storage
      /\ scratch # None => scratch # out
      /\ extend \in [Storage -> 0 .. m]
  BY PlanAssumption DEF TypeOK, AddNode
<1>2. /\ linked \in Seq(TensorSet) /\ Len(linked) = m
      /\ \A i \in 1 .. m : /\ linked[i].storage = tensors[i].storage
                           /\ linked[i].node = tensors[i].node
                           /\ tensors[i].peers \subseteq linked[i].peers
                           /\ i \in Linked(ins, out) => n \in linked[i].peers
  <2>1. \A t \in TensorSet : /\ WithPeer(t, n) \in TensorSet
                             /\ WithPeer(t, n).node = t.node
                             /\ WithPeer(t, n).storage = t.storage
                             /\ WithPeer(t, n).peers = t.peers \cup {n}
    BY <1>1 DEF TensorSet, WithPeer
  <2>2. \A i \in 1 .. m : linked[i] = IF i \in Linked(ins, out) THEN WithPeer(tensors[i], n)
                                      ELSE tensors[i]
    BY <1>1
  <2>3. linked \in [1 .. m -> TensorSet]
    BY <1>1, <2>1, <2>2
  <2> HIDE DEF linked
  <2>4. linked \in Seq(TensorSet) /\ Len(linked) = m
    BY <1>1, <2>3, IsASeq, LenProperties
  <2> QED BY <1>1, <2>1, <2>2, <2>4
<1> HIDE DEF linked
<1>3. \A s \in Storage : /\ Tensor(s, n) \in TensorSet
                         /\ Tensor(s, n).storage = s /\ Tensor(s, n).node = n
  BY <1>1 DEF Tensor, TensorSet
<1>4. CASE scratch = None /\ out = None
  <2>1. tensors' = linked
    BY <1>4 DEF AddNode, linked
  <2>2. Some(out) \cup Some(scratch) = {}
    BY <1>4 DEF Some
  <2> QED BY <1>1, <1>2, <1>4, <2>1, <2>2 DEF Joined
<1>5. CASE scratch = None /\ out # None
  <2>1. /\ tensors' = Append(linked, Tensor(out, n))
        /\ extend' = [extend EXCEPT ![out] = Len(linked) + 1]
    BY <1>5 DEF AddNode, linked
  <2>2. /\ tensors' \in Seq(TensorSet) /\ Len(tensors') = m + 1
        /\ \A i \in 1 .. m : tensors'[i] = linked[i]
        /\ tensors'[m + 1] = Tensor(out, n)
    BY <1>1, <1>2, <1>3, <1>5, <2>1, AppendProperties
  <2>3. extend'[out] = m + 1 /\ Some(out) \cup Some(scratch) = {out} /\ out \in Storage
    BY <1>1, <1>2, <1>5, <2>1 DEF Some
  <2>4. \A i \in 1 .. m + 1 : i > m => i = m + 1
    BY <1>1
  <2>5. /\ m + 1 \in 1 .. Len(tensors') /\ m + 1 > m
        /\ tensors'[m + 1].storage = out /\ tensors'[m + 1].node = n
    BY <1>1, <1>3, <2>2, <2>3
  <2>6. /\ tensors' \in Seq(TensorSet) /\ m <= Len(tensors')
        /\ \A i \in 1 .. m : /\ tensors'[i].storage = tensors[i].storage
                             /\ tensors'[i].node = tensors[i].node
                             /\ tensors[i].peers \subseteq tensors'[i].peers
                             /\ i \in Linked(ins, out) => n \in tensors'[i].peers
    BY <1>1, <1>2, <2>2
  <2>7. \A i \in 1 .. Len(tensors') : i > m =>
          i = m + 1 /\ tensors'[i].node = n /\ tensors'[i].storage \in Some(out) \cup Some(scratch)
    BY <2>2, <2>3, <2>4, <2>5
  <2>8. \A s \in Some(out) \cup Some(scratch) :
          \E i \in 1 .. Len(tensors') : /\ i > m
                                        /\ tensors'[i].storage = s /\ tensors'[i].node = n
    BY <2>3, <2>5
  <2>9. extend'[out] \in 1 .. Len(tensors') /\ tensors'[extend'[out]].storage = out
    BY <2>3, <2>5
  <2> QED BY <2>6, <2>7, <2>8, <2>9 DEF Joined
<1>6. CASE scratch # None /\ out = None
  <2>1. tensors' = Append(linked, Tensor(scratch, n))
    BY <1>6 DEF AddNode, linked
  <2>2. /\ tensors' \in Seq(TensorSet) /\ Len(tensors') = m + 1
        /\ \A i \in 1 .. m : tensors'[i] = linked[i]
        /\ tensors'[m + 1] = Tensor(scratch, n)
    BY <1>1, <1>2, <1>3, <1>6, <2>1, AppendProperties
  <2>3. Some(out) \cup Some(scratch) = {scratch} /\ scratch \in Storage
    BY <1>1, <1>6 DEF Some
  <2>4. \A i \in 1 .. m + 1 : i > m => i = m + 1
    BY <1>1
  <2> QED BY <1>1, <1>2, <1>3, <1>6, <2>2, <2>3, <2>4 DEF Joined
<1>7. CASE scratch # None /\ out # None
  <2> DEFINE both == Append(linked, Tensor(scratch, n))
  <2>1. /\ tensors' = Append(both, Tensor(out, n))
        /\ extend' = [extend EXCEPT ![out] = Len(both) + 1]
    BY <1>7 DEF AddNode, linked
  <2>2. /\ both \in Seq(TensorSet) /\ Len(both) = m + 1
        /\ \A i \in 1 .. m : both[i] = linked[i]
        /\ both[m + 1] = Tensor(scratch, n)
    BY <1>1, <1>2, <1>3, <1>7, AppendProperties
  <2> HIDE DEF both
  <2>3. /\ tensors' \in Seq(TensorSet) /\ Len(tensors') = m + 2
        /\ \A i \in 1 .. m : tensors'[i] = linked[i]
        /\ tensors'[m + 1] = Tensor(scratch, n)
        /\ tensors'[m + 2] = Tensor(out, n)
    BY <1>1, <1>2, <1>3, <1>7, <2>1, <2>2, AppendProperties
  <2>4. /\ extend'[out] = m + 2 /\ Some(out) \cup Some(scratch) = {out, scratch}
        /\ out \in Storage /\ scratch \in Storage
    BY <1>1, <1>7, <2>1, <2>2 DEF Some
  <2>5. \A i \in 1 .. m + 2 : i > m => i = m + 1 \/ i = m + 2
    BY <1>1
  <2>6. /\ m + 1 \in 1 .. Len(tensors') /\ m + 1 > m
        /\ m + 2 \in 1 .. Len(tensors') /\ m + 2 > m
        /\ tensors'[m + 1].storage = scratch /\ tensors'[m + 1].node = n
        /\ tensors'[m + 2].storage = out /\ tensors'[m + 2].node = n
    BY <1>1, <1>3, <2>3, <2>4
  <2>7. \A i \in 1 .. Len(tensors') : i > m =>
          tensors'[i].node = n /\ tensors'[i].storage \in {out, scratch}
    BY <2>3, <2>5, <2>6
  <2>8. \A i, j \in 1 .. Len(tensors') :
          i > m /\ j > m /\ tensors'[i].storage = tensors'[j].storage => i = j
    BY <1>1, <1>7, <2>3, <2>5, <2>6
  <2>9. \A s \in {out, scratch} :
          \E i \in 1 .. Len(tensors') : i > m /\ tensors'[i].storage = s /\ tensors'[i].node = n
    BY <2>6
  <2>10. m <= Len(tensors')
    BY <1>1, <2>3
  <2> QED BY <1>2, <2>3, <2>4, <2>6, <2>7, <2>8, <2>9, <2>10 DEF Joined
<1> QED BY <1>4, <1>5, <1>6, <1>7

\* BuildGraph keeps what the graph knows of its kernels.
LEMMA AddNodeGraphInv ==
    ASSUME TypeOK, GraphInv, NEW ins \in SUBSET Storage, NEW out \in Storage \cup {None},
           NEW scratch \in Storage \cup {None}, AddNode(ins, out, scratch)
    PROVE  GraphInv'
<1>0. PICK n : n = Len(nodes) + 1
  OBVIOUS
<1> DEFINE m == Len(tensors)
           node == [ins |-> ins, out |-> out, scratch |-> scratch]
           N == [ins : SUBSET Storage, out : Storage \cup {None},
                 scratch : Storage \cup {None}]
<1>1. /\ nodes \in Seq(N) /\ Len(nodes) \in Nat /\ DOMAIN nodes = 1 .. Len(nodes)
      /\ tensors \in Seq(TensorSet) /\ m \in Nat /\ DOMAIN tensors = 1 .. m
      /\ extend \in [Storage -> 0 .. m] /\ None \notin Storage
  <2>1. nodes \in Seq(N)
    BY DEF TypeOK
  <2> HIDE DEF N
  <2>2. Len(nodes) \in Nat /\ DOMAIN nodes = 1 .. Len(nodes)
    BY <2>1
  <2> QED BY <2>1, <2>2, PlanAssumption DEF TypeOK
<1>2. /\ nodes' = Append(nodes, node)
      /\ extend' = extend \/ (out # None /\ \E e : extend' = [extend EXCEPT ![out] = e])
      /\ \A s \in ins : Writers(s) # {}
      /\ out \in Used => Writers(out) # {} /\ Cardinality(Writers(out)) < MaxWrites
      /\ scratch = None \/ scratch \notin Used \cup {out}
  BY DEF AddNode
<1>3. /\ Len(nodes') = n /\ DOMAIN nodes' = 1 .. n
      /\ \A k \in 1 .. Len(nodes) : nodes'[k] = nodes[k]
      /\ nodes'[n] = node
  <2>1. node \in N
    OBVIOUS
  <2> HIDE DEF N, node
  <2>2. /\ nodes' \in Seq(N) /\ Len(nodes') = n
        /\ \A k \in 1 .. Len(nodes) : nodes'[k] = nodes[k]
        /\ nodes'[n] = node
    BY <1>0, <1>1, <1>2, <2>1, AppendProperties
  <2> QED BY <2>2
<1>4. node.ins = ins /\ node.out = out /\ node.scratch = scratch
  OBVIOUS
<1> HIDE DEF node, N
<1>5. Joined(n, ins, out, scratch)
  BY <1>0, AddNodeJoined
<1>6. /\ Len(tensors') \in Nat /\ DOMAIN tensors' = 1 .. Len(tensors') /\ m <= Len(tensors')
      /\ \A i \in 1 .. m : i \in 1 .. Len(tensors')
  BY <1>1, <1>5 DEF Joined
<1>7. /\ \A k \in 1 .. Len(nodes) : Written(k)' = Written(k)
      /\ Written(n)' = Some(out) \cup Some(scratch)
  BY <1>0, <1>1, <1>3, <1>4 DEF Written
<1>8. \A s : Writers(s)' = Writers(s) \cup (IF out = s THEN {n} ELSE {})
  BY <1>0, <1>1, <1>3, <1>4 DEF Writers
<1>9. \A k \in 1 .. n : k \in 1 .. Len(nodes) \/ k = n
  BY <1>0, <1>1
<1>10. Covered'
  <2>1. ASSUME NEW k \in 1 .. n, NEW s \in Written(k)'
        PROVE  \E i \in 1 .. Len(tensors') : tensors'[i].storage = s /\ tensors'[i].node = k
    <3>1. CASE k \in 1 .. Len(nodes)
      <4>1. PICK i \in 1 .. m : tensors[i].storage = s /\ tensors[i].node = k
        <5>1. k \in DOMAIN nodes /\ s \in Written(k)
          BY <1>1, <1>7, <2>1, <3>1
        <5>2. \E i \in DOMAIN tensors : tensors[i].storage = s /\ tensors[i].node = k
          BY <5>1, Zenon DEF GraphInv, Covered
        <5> QED BY <1>1, <5>2
      <4> QED BY <1>5, <1>6, <4>1 DEF Joined
    <3>2. CASE k = n
      BY <1>5, <1>7, <2>1, <3>2 DEF Joined
    <3> QED BY <1>9, <3>1, <3>2
  <2>2. ASSUME NEW i \in 1 .. Len(tensors')
        PROVE  tensors'[i].node \in 1 .. n /\ tensors'[i].storage \in Written(tensors[i].node)'
    <3>1. CASE i \in 1 .. m
      <4>1. tensors'[i].node = tensors[i].node /\ tensors'[i].storage = tensors[i].storage
        BY <1>5, <3>1 DEF Joined
      <4>2. tensors[i].node \in 1 .. Len(nodes) /\ tensors[i].storage \in Written(tensors[i].node)
        BY <1>1, <3>1 DEF GraphInv, Covered
      <4> QED BY <1>0, <1>1, <1>7, <4>1, <4>2
    <3>2. CASE i \notin 1 .. m
      <4>1. tensors'[i].node = n /\ tensors'[i].storage \in Some(out) \cup Some(scratch)
        BY <1>1, <1>5, <1>6, <3>2 DEF Joined
      <4> QED BY <1>0, <1>1, <1>7, <4>1
    <3> QED BY <3>1, <3>2
  <2> QED BY <1>3, <1>6, <2>1, <2>2 DEF Covered
<1>11. Pointed'
  <2> SUFFICES ASSUME NEW s \in Storage, Writers(s)' # {}
               PROVE  extend'[s] \in 1 .. Len(tensors') /\ tensors'[extend'[s]].storage = s
    BY <1>6 DEF Pointed
  <2>1. CASE s = out
    BY <1>1, <1>5, <2>1 DEF Joined
  <2>2. CASE s # out
    <3>1. extend'[s] = extend[s] /\ Writers(s) # {}
      BY <1>1, <1>2, <1>8, <2>2
    <3>2. extend[s] \in 1 .. m /\ tensors[extend[s]].storage = s
      BY <1>1, <3>1 DEF GraphInv, Pointed
    <3> QED BY <1>5, <1>6, <3>1, <3>2 DEF Joined
  <2> QED BY <2>1, <2>2
<1>12. Wired'
  <2> SUFFICES ASSUME NEW j \in 1 .. n, NEW s \in nodes'[j].ins
               PROVE  /\ \E i \in Writers(s)' : i < j
                      /\ \E i \in 1 .. Len(tensors') :
                           tensors'[i].storage = s /\ j \in tensors'[i].peers
    BY <1>3, <1>6 DEF Wired
  <2>1. CASE j \in 1 .. Len(nodes)
    <3>1. /\ \E i \in Writers(s) : i < j
          /\ \E i \in 1 .. m : tensors[i].storage = s /\ j \in tensors[i].peers
      BY <1>1, <1>3, <2>1 DEF GraphInv, Wired
    <3> QED BY <1>5, <1>6, <1>8, <3>1 DEF Joined
  <2>2. CASE j = n
    <3>1. s \in ins /\ s \in Storage /\ Writers(s) # {}
      BY <1>2, <1>3, <1>4, <2>2
    <3>2. \E i \in Writers(s)' : i < n
      <4>1. PICK i : i \in Writers(s)
        BY <3>1
      <4>2. i \in 1 .. Len(nodes)
        BY <1>1, <4>1 DEF Writers
      <4>3. i < n
        BY <1>0, <1>1, <4>2
      <4> QED BY <1>8, <4>1, <4>3
    <3>3. extend[s] \in 1 .. m /\ tensors[extend[s]].storage = s
      BY <1>1, <3>1 DEF GraphInv, Pointed
    <3>4. extend[s] \in Linked(ins, out)
      BY <3>1, <3>3 DEF Linked
    <3> QED BY <1>5, <1>6, <2>2, <3>2, <3>3, <3>4 DEF Joined
  <2> QED BY <1>9, <2>1, <2>2
<1>13. Once'
  <2> SUFFICES ASSUME MaxWrites = 1, NEW i \in 1 .. Len(tensors'), NEW j \in 1 .. Len(tensors'),
                      tensors'[i].storage = tensors'[j].storage
               PROVE  i = j
    BY <1>6 DEF Once
  <2>1. out \notin Used
    <3> SUFFICES ASSUME out \in Used PROVE FALSE
      OBVIOUS
    <3>1. Writers(out) # {} /\ Cardinality(Writers(out)) < 1
      BY <1>2
    <3>2. IsFiniteSet(1 .. Len(nodes)) /\ Writers(out) \subseteq 1 .. Len(nodes)
      BY <1>1, FS_Interval DEF Writers
    <3>3. IsFiniteSet(Writers(out)) /\ Cardinality(Writers(out)) \in Nat
      BY <3>2, FS_Subset, FS_CardinalityType
    <3>4. Cardinality(Writers(out)) = 0
      BY <3>1, <3>3
    <3> QED BY <3>1, <3>3, <3>4, FS_EmptySet
  <2>2. \A k \in 1 .. m : tensors[k].storage \in Used
    BY <1>1 DEF GraphInv, Covered, Written, Used
  <2>3. \A k \in 1 .. Len(tensors') : k \notin 1 .. m =>
          tensors'[k].storage \notin Used
    <3>1. \A k \in 1 .. Len(tensors') : k \notin 1 .. m =>
            tensors'[k].storage \in Some(out) \cup Some(scratch)
      BY <1>1, <1>5, <1>6 DEF Joined
    <3>2. \A s \in Some(out) \cup Some(scratch) : s \notin Used
      BY <1>2, <2>1 DEF Some
    <3> QED BY <3>1, <3>2
  <2>4. \A k \in 1 .. m : tensors'[k].storage = tensors[k].storage
    BY <1>5 DEF Joined
  <2>5. CASE i \in 1 .. m /\ j \in 1 .. m
    BY <1>1, <2>4, <2>5 DEF GraphInv, Once
  <2>6. CASE i \notin 1 .. m /\ j \notin 1 .. m
    BY <1>1, <1>5, <1>6, <2>6 DEF Joined
  <2> QED BY <2>2, <2>3, <2>4, <2>5, <2>6
<1> QED BY <1>10, <1>11, <1>12, <1>13 DEF GraphInv

\* Nothing but BuildGraph changes the graph.
LEMMA NextGraphInv == TypeOK /\ GraphInv /\ [Next]_vars => GraphInv'
<1> SUFFICES ASSUME TypeOK, GraphInv, [Next]_vars PROVE GraphInv'
  OBVIOUS
<1>1. CASE \E ins \in SUBSET Storage, out, scratch \in Storage \cup {None} :
             AddNode(ins, out, scratch)
  BY <1>1, AddNodeGraphInv
<1>2. CASE UNCHANGED graph
  <2>1. UNCHANGED <<nodes, tensors, extend>>
    BY <1>2 DEF graph
  <2> QED BY <2>1 DEF GraphInv, Covered, Pointed, Wired, Once, Written, Writers
<1> QED BY <1>1, <1>2 DEF Next, vars, GetWorkspaceSize, Place, PlacedAll, UpdateOffset,
           OffsetsDone, GetLinearWorkspaceSize, PlaceLinear, LinearDone, Keep
-----------------------------------------------------------------------------
(* The memory the allocators give.                                         *)

\* Align rounds up.
LEMMA AlignCovers == \A n \in Nat : n <= Align(n)
<1> SUFFICES ASSUME NEW n \in Nat PROVE n <= Align(n)
  OBVIOUS
<1>1. Extra \in Nat /\ AlignTo \in Nat /\ AlignTo > 0
  BY PlanAssumption
<1>2. PICK a \in Nat : a = n + Extra + AlignTo - 1
  BY <1>1
<1>3. PICK q \in Nat : q = a \div AlignTo
  BY <1>1
<1>4. a < (q + 1) * AlignTo
  BY <1>1, <1>3
<1>5. (q + 1) * AlignTo = q * AlignTo + AlignTo
  BY <1>1
<1>6. q * AlignTo \in Nat
  BY <1>1
<1>7. PICK m \in Nat : m = q * AlignTo
  BY <1>6
<1>8. n <= m
  BY <1>1, <1>2, <1>4, <1>5, <1>7
<1> QED BY <1>2, <1>3, <1>7, <1>8 DEF Align

\* The storages of a bucket, place by place.
LEMMA InsideBucket ==
    ASSUME TypeOK, NEW b \in 1 .. Len(buckets)
    PROVE  /\ DOMAIN buckets = 1 .. Len(buckets)
           /\ buckets[b].size \in Nat
           /\ Inside(b) \subseteq Storage
           /\ \A s : s \in Inside(b) <=> \E x \in 1 .. Len(buckets[b].refs) :
                                           tensors[buckets[b].refs[x]].storage = s
           /\ \A x \in 1 .. Len(buckets[b].refs) : buckets[b].refs[x] \in DOMAIN tensors
           /\ DOMAIN buckets[b].refs = 1 .. Len(buckets[b].refs)
<1>1. /\ DOMAIN buckets = 1 .. Len(buckets)
      /\ buckets[b] \in [size : Nat, refs : Seq(DOMAIN tensors)]
  <2> DEFINE B == [size : Nat, refs : Seq(DOMAIN tensors)]
  <2>1. buckets \in Seq(B)
    BY DEF TypeOK
  <2> HIDE DEF B
  <2>2. DOMAIN buckets = 1 .. Len(buckets) /\ buckets[b] \in B
    BY <2>1
  <2> QED BY <2>2 DEF B
<1>2. buckets[b].size \in Nat /\ buckets[b].refs \in Seq(DOMAIN tensors)
  BY <1>1
<1>3. PICK refs : refs = buckets[b].refs
  OBVIOUS
<1>4. /\ refs \in Seq(DOMAIN tensors) /\ DOMAIN refs = 1 .. Len(refs)
      /\ \A x \in 1 .. Len(refs) : refs[x] \in DOMAIN tensors
  BY <1>2, <1>3
<1>5. \A i : i \in Range(refs) <=> \E x \in 1 .. Len(refs) : refs[x] = i
  BY <1>4, RangeOfList
<1>6. Inside(b) = {tensors[i].storage : i \in Range(refs)}
  BY <1>3 DEF Inside
<1>7. \A s : s \in Inside(b) <=> \E x \in 1 .. Len(refs) : tensors[refs[x]].storage = s
  BY <1>5, <1>6
<1>8. \A i \in DOMAIN tensors : tensors[i].storage \in Storage
  <2>1. \A i \in DOMAIN tensors : tensors[i] \in TensorSet
    BY DEF TypeOK
  <2> QED BY <2>1 DEF TensorSet
<1>9. Inside(b) \subseteq Storage
  BY <1>4, <1>7, <1>8
<1> QED BY <1>1, <1>2, <1>3, <1>4, <1>7, <1>9

\* One turn of the first loop of MaxAllocator::Allocate that does not skip
\* its tensor puts the storage into bucket b, old or new, and makes the bucket
\* large enough.
PutInto(b, s) ==
    /\ b \in 1 .. Len(buckets) + 1
    /\ DOMAIN buckets' = DOMAIN buckets \cup {b}
    /\ \A c \in DOMAIN buckets \ {b} : Inside(c)' = Inside(c) /\ buckets'[c] = buckets[c]
    /\ buckets'[b].size \in Nat /\ Align(size[s]) <= buckets'[b].size
    /\ IF b \in DOMAIN buckets
       THEN Inside(b)' = Inside(b) \cup {s} /\ buckets[b].size <= buckets'[b].size
       ELSE Inside(b)' = {s}

LEMMA PlacePuts ==
    ASSUME TypeOK, Place, offset[tensors[next].storage] # Placeholder
    PROVE  \E b : PutInto(b, tensors[next].storage)
<1> DEFINE t == tensors[next]
           fit == Reusable(t)
           best == CHOOSE b \in fit : \A c \in fit : c <= b
           B == [size : Nat, refs : Seq(DOMAIN tensors)]
           m == Len(buckets)
<1>1. /\ next \in DOMAIN tensors /\ t \in TensorSet /\ t.storage \in Storage
      /\ UNCHANGED <<tensors, size>>
      /\ buckets' = IF fit = {}
                    THEN Append(buckets, AddRef([size |-> 0, refs |-> <<>>], next))
                    ELSE [buckets EXCEPT ![best] = AddRef(buckets[best], next)]
  <2>1. next \in DOMAIN tensors /\ t \in TensorSet
    BY DEF TypeOK, Place
  <2> QED BY <2>1 DEF Place, TensorSet, graph
<1>2. PICK a \in Nat : a = Align(size[t.storage])
  BY <1>1, AlignIsSize, PlanAssumption DEF TypeOK
<1>3. buckets \in Seq(B) /\ DOMAIN buckets = 1 .. m /\ m \in Nat
  <2>1. buckets \in Seq(B)
    BY DEF TypeOK
  <2> HIDE DEF B
  <2> QED BY <2>1
<1>4. CASE fit = {}
  <2>1. PICK new : new = AddRef([size |-> 0, refs |-> <<>>], next)
    OBVIOUS
  <2>2. new.size = a /\ new.refs = <<next>> /\ new = [size |-> a, refs |-> <<next>>]
    <3>1. new = [size |-> Max(0, a), refs |-> Append(<<>>, next)]
      BY <1>2, <2>1 DEF AddRef
    <3>2. Max(0, a) = a
      BY DEF Max
    <3> QED BY <3>1, <3>2
  <2>3. new \in B
    BY <1>1, <2>2
  <2>4. /\ buckets' \in Seq(B) /\ Len(buckets') = m + 1
        /\ \A c \in 1 .. m : buckets'[c] = buckets[c]
        /\ buckets'[m + 1] = new /\ DOMAIN buckets' = 1 .. m + 1
    <3> HIDE DEF B
    <3> QED BY <1>1, <1>3, <1>4, <2>1, <2>3, AppendProperties
  <2>5. \A c \in 1 .. m : Inside(c)' = Inside(c)
    <3> TAKE c \in 1 .. m
    <3>1. buckets'[c] = buckets[c] /\ tensors' = tensors
      BY <1>1, <2>4
    <3> QED BY <3>1, Zenon DEF Inside
  <2>6. PICK b : b = m + 1
    OBVIOUS
  <2>7. Inside(b)' = {t.storage}
    <3>1. Range(<<next>>) = {next}
      BY DEF Range
    <3>2. buckets'[b].refs = <<next>>
      BY <2>2, <2>4, <2>6
    <3>3. Inside(b)' = {tensors[i].storage : i \in {next}}
      BY <1>1, <3>1, <3>2, Zenon DEF Inside
    <3> QED BY <3>3
  <2>8. b \in 1 .. m + 1 /\ b \notin 1 .. m /\ 1 .. m + 1 = (1 .. m) \cup {b}
    BY <1>3, <2>6
  <2>9. buckets'[b].size \in Nat /\ Align(size[t.storage]) <= buckets'[b].size
    BY <1>2, <2>2, <2>4, <2>6
  <2>10. PutInto(b, t.storage)
    BY <1>3, <2>4, <2>5, <2>7, <2>8, <2>9 DEF PutInto
  <2> QED BY <2>10
<1>5. CASE fit # {}
  <2>1. PICK b : b = best
    OBVIOUS
  <2>2. b \in 1 .. m
    <3>1. fit \subseteq 0 .. m /\ fit \subseteq 1 .. m
      BY <1>3 DEF Reusable
    <3>2. \E d \in fit : \A c \in fit : c <= d
      <4> HIDE DEF fit
      <4> QED BY <1>3, <1>5, <3>1, LargestNatural
    <3>3. b \in fit
      BY <2>1, <3>2, Zenon
    <3> QED BY <3>1, <3>3
  <2>3. PICK new : new = AddRef(buckets[b], next)
    OBVIOUS
  <2>4. /\ buckets[b] \in B /\ buckets[b].size \in Nat
        /\ buckets[b].refs \in Seq(DOMAIN tensors)
    <3>1. buckets[b] \in B
      <4> HIDE DEF B
      <4> QED BY <1>3, <2>2
    <3> QED BY <3>1
  <2>5. PICK z \in Nat, refs \in Seq(DOMAIN tensors) : z = buckets[b].size /\ refs = buckets[b].refs
    BY <2>4
  <2>6. new = [size |-> Max(z, a), refs |-> Append(refs, next)]
    BY <1>2, <2>3, <2>5 DEF AddRef
  <2>7. Max(z, a) \in Nat /\ z <= Max(z, a) /\ a <= Max(z, a)
    BY DEF Max
  <2>8. /\ Append(refs, next) \in Seq(DOMAIN tensors)
        /\ Range(Append(refs, next)) = Range(refs) \cup {next}
    BY <1>1, <2>5, PushList
  <2>9. new \in B
    BY <2>6, <2>7, <2>8
  <2>10. /\ buckets' \in Seq(B) /\ DOMAIN buckets' = 1 .. m
         /\ \A c \in 1 .. m : buckets'[c] = IF c = b THEN new ELSE buckets[c]
    <3> HIDE DEF B, best
    <3>1. buckets' = [buckets EXCEPT ![b] = new]
      BY <1>1, <1>5, <2>1, <2>3
    <3> QED BY <1>3, <2>2, <2>9, <3>1, ExceptSeq
  <2>11. \A c \in (1 .. m) \ {b} : Inside(c)' = Inside(c)
    <3> TAKE c \in (1 .. m) \ {b}
    <3>1. buckets'[c] = buckets[c] /\ tensors' = tensors
      BY <1>1, <2>10
    <3> QED BY <3>1, Zenon DEF Inside
  <2>12. Inside(b)' = Inside(b) \cup {t.storage}
    <3>1. Inside(b) = {tensors[i].storage : i \in Range(refs)}
      BY <2>5 DEF Inside
    <3>2. Inside(b)' = {tensors[i].storage : i \in Range(refs) \cup {next}}
      <4>1. buckets'[b].refs = Append(refs, next) /\ tensors' = tensors
        <5>1. buckets'[b] = new
          BY <2>2, <2>10
        <5>2. new.refs = Append(refs, next)
          BY <2>6
        <5> QED BY <1>1, <5>1, <5>2
      <4>2. Range(buckets'[b].refs) = Range(refs) \cup {next}
        BY <2>8, <4>1
      <4> QED BY <4>1, <4>2, Zenon DEF Inside
    <3> QED BY <3>1, <3>2
  <2>13. buckets'[b].size = Max(z, a)
    BY <2>2, <2>6, <2>10
  <2>14. PutInto(b, t.storage)
    <3> HIDE DEF B, fit, best, t
    <3>1. (1 .. m) \cup {b} = 1 .. m /\ b \in 1 .. m + 1
      BY <1>3, <2>2
    <3> QED BY <1>2, <1>3, <2>2, <2>5, <2>7, <2>10, <2>11, <2>12, <2>13, <3>1 DEF PutInto
  <2> QED BY <2>14
<1> QED BY <1>4, <1>5

\* The first loop of MaxAllocator::Allocate keeps what the allocators know.
LEMMA PlaceAllocInv ==
    ASSUME TypeOK, AllocInv, Place
    PROVE  AllocInv'
<1>1. /\ phase = "place" /\ phase' = "place" /\ next' = next + 1
      /\ size' = size /\ tensors' = tensors /\ total' = total
      /\ next \in DOMAIN tensors /\ DOMAIN tensors = 1 .. Len(tensors) /\ next \in Nat
  BY DEF Place, graph, TypeOK
<1>2. PICK st : st = tensors[next].storage
  OBVIOUS
<1>3. st \in Storage /\ \A i \in DOMAIN tensors : tensors[i].storage \in Storage
  <2>1. \A i \in DOMAIN tensors : tensors[i] \in TensorSet
    BY DEF TypeOK
  <2> QED BY <1>1, <1>2, <2>1 DEF TensorSet
<1>4. /\ \A s \in Storage : offset[s] = Placeholder <=> \E b \in DOMAIN buckets : s \in Inside(b)
      /\ total = 0
      /\ \A i \in DOMAIN tensors : i < next => offset[tensors[i].storage] = Placeholder
  BY <1>1 DEF AllocInv, Marked
<1>5. \A i \in DOMAIN tensors : i < next + 1 => i < next \/ i = next
  BY <1>1
<1>6. Stacked' /\ Linear'
  BY <1>1 DEF Stacked, Linear, Laid, Lined
<1>7. CASE offset[st] = Placeholder
  <2>1. buckets' = buckets /\ offset' = offset
    BY <1>2, <1>7 DEF Place
  <2>2. \A b : Inside(b)' = Inside(b)
    BY <1>1, <2>1 DEF Inside
  <2>3. Fitting'
    BY <1>1, <2>1, <2>2 DEF AllocInv, Fitting, Align
  <2>4. Marked'
    BY <1>1, <1>2, <1>4, <1>5, <1>7, <2>1, <2>2 DEF Marked
  <2> QED BY <1>6, <2>3, <2>4 DEF AllocInv
<1>8. CASE offset[st] # Placeholder
  <2>1. PICK b : PutInto(b, st)
    BY <1>2, <1>8, PlacePuts
  <2>2. offset' = [offset EXCEPT ![st] = Placeholder]
    BY <1>2, <1>8 DEF Place
  <2>3. \A s \in Storage : offset'[s] = Placeholder <=> s = st \/ offset[s] = Placeholder
    BY <1>3, <2>2 DEF TypeOK
  <2>4. \A c \in DOMAIN buckets : st \notin Inside(c)
    BY <1>3, <1>4, <1>8
  <2>5. /\ DOMAIN buckets = 1 .. Len(buckets)
        /\ \A c \in DOMAIN buckets : buckets[c].size \in Nat /\ Inside(c) \subseteq Storage
    <3>1. DOMAIN buckets = 1 .. Len(buckets)
      <4> DEFINE B == [size : Nat, refs : Seq(DOMAIN tensors)]
      <4>1. buckets \in Seq(B)
        BY DEF TypeOK
      <4> HIDE DEF B
      <4> QED BY <4>1
    <3> QED BY <3>1, InsideBucket
  <2>6. /\ DOMAIN buckets' = DOMAIN buckets \cup {b}
        /\ \A c \in DOMAIN buckets \ {b} : Inside(c)' = Inside(c) /\ buckets'[c] = buckets[c]
        /\ b \in DOMAIN buckets => Inside(b)' = Inside(b) \cup {st}
        /\ b \notin DOMAIN buckets => Inside(b)' = {st}
    BY <2>1 DEF PutInto
  <2>7. ASSUME NEW c \in DOMAIN buckets', NEW s \in Inside(c)'
        PROVE  Align(size[s]) <= buckets'[c].size
    <3>1. CASE c # b
      BY <2>6, <2>7, <3>1 DEF AllocInv, Fitting
    <3>2. CASE c = b /\ s = st
      BY <2>1, <3>2 DEF PutInto
    <3>3. CASE c = b /\ s # st
      <4>1. b \in DOMAIN buckets /\ s \in Inside(b)
        BY <2>6, <2>7, <3>3
      <4>2. Align(size[s]) <= buckets[b].size
        BY <4>1 DEF AllocInv, Fitting
      <4>3. buckets[b].size <= buckets'[b].size /\ buckets'[b].size \in Nat
        BY <2>1, <4>1 DEF PutInto
      <4>4. Align(size[s]) \in Nat /\ buckets[b].size \in Nat
        BY <2>5, <4>1, AlignIsSize, PlanAssumption DEF TypeOK
      <4> QED BY <3>3, <4>2, <4>3, <4>4
    <3> QED BY <3>1, <3>2, <3>3
  <2>8. ASSUME NEW c \in DOMAIN buckets', NEW d \in DOMAIN buckets',
               NEW s \in Inside(c)' \cap Inside(d)'
        PROVE  c = d
    <3>1. \A e \in DOMAIN buckets : e # b /\ s \in Inside(e)' => s # st /\ s \in Inside(e)
      BY <2>4, <2>6
    <3>2. s \in Inside(b)' /\ s # st => b \in DOMAIN buckets /\ s \in Inside(b)
      BY <2>6
    <3>3. \A e, f \in DOMAIN buckets : s \in Inside(e) /\ s \in Inside(f) => e = f
      BY DEF AllocInv, Fitting
    <3> QED BY <2>6, <2>8, <3>1, <3>2, <3>3
  <2>9. Fitting'
    <3>1. \A s : Align(size[s])' = Align(size[s])
      BY <1>1 DEF Align
    <3> QED BY <2>7, <2>8, <3>1 DEF Fitting
  <2>10. \A s \in Storage : offset'[s] = Placeholder <=> \E c \in DOMAIN buckets' : s \in Inside(c)'
    <3> TAKE s \in Storage
    <3>1. CASE s = st
      BY <2>3, <2>6, <3>1
    <3>2. CASE s # st
      BY <1>4, <2>3, <2>6, <3>2
    <3> QED BY <3>1, <3>2
  <2>11. \A i \in DOMAIN tensors : i < next + 1 => offset'[tensors[i].storage] = Placeholder
    BY <1>2, <1>3, <1>4, <1>5, <2>3
  <2>12. Marked'
    BY <1>1, <1>4, <2>10, <2>11 DEF Marked
  <2> QED BY <1>6, <2>9, <2>12 DEF AllocInv
<1> QED BY <1>7, <1>8

\* The second loop stacks the next bucket on the others.
LEMMA UpdateOffsetAllocInv ==
    ASSUME TypeOK, AllocInv, UpdateOffset
    PROVE  AllocInv'
<1>1. /\ phase = "offset" /\ phase' = "offset" /\ next' = next + 1 /\ next \in Nat
      /\ size' = size /\ tensors' = tensors /\ buckets' = buckets
      /\ total' = total + buckets[next].size /\ total \in Nat
      /\ offset' = [s \in Storage |-> IF s \in Inside(next) THEN total ELSE offset[s]]
  BY DEF UpdateOffset, graph, TypeOK
<1>2. DOMAIN buckets = 1 .. Len(buckets) /\ next \in DOMAIN buckets
  <2> DEFINE B == [size : Nat, refs : Seq(DOMAIN tensors)]
  <2>1. buckets \in Seq(B) /\ next \in Nat \ {0} /\ next <= Len(buckets)
    BY DEF TypeOK, UpdateOffset
  <2> HIDE DEF B
  <2> QED BY <2>1
<1>3. \A b : Inside(b)' = Inside(b)
  BY <1>1 DEF Inside
<1>4. \A b \in DOMAIN buckets : buckets[b].size \in Nat /\ Inside(b) \subseteq Storage
  BY <1>2, InsideBucket
<1>5. Fitting'
  BY <1>1, <1>3 DEF AllocInv, Fitting, Align
<1>6. Marked'
  BY <1>1, <1>3 DEF AllocInv, Marked
<1>7. Linear'
  BY <1>1 DEF Linear, Lined
<1>8. \A b \in DOMAIN buckets : b \in Laid <=> b < next
  BY <1>1 DEF Laid
<1>9. /\ Laid' \subseteq DOMAIN buckets
      /\ \A b \in Laid' : b \in Laid \/ b = next
  BY <1>1, <1>2, <1>8 DEF Laid
<1>10. \A b \in Laid : \A s \in Inside(b) : s \in Storage /\ offset'[s] = offset[s]
  <2> TAKE b \in Laid
  <2> TAKE s \in Inside(b)
  <2>1. b \in DOMAIN buckets /\ b # next
    BY <1>1, <1>2, <1>8 DEF Laid
  <2>2. s \notin Inside(next)
    BY <1>2, <2>1 DEF AllocInv, Fitting
  <2> QED BY <1>1, <1>4, <2>1, <2>2
<1>11. \A s \in Inside(next) : s \in Storage /\ offset'[s] = total
  BY <1>1, <1>2, <1>4
<1>12. \A b \in Laid : \A s \in Inside(b) :
         0 <= offset[s] /\ offset[s] + buckets[b].size <= total
  BY DEF AllocInv, Stacked
<1>13. \A s \in Storage : offset[s] \in Int
  BY DEF TypeOK, Placeholder
<1>14. PICK z \in Nat : z = buckets[next].size
  BY <1>2, <1>4
<1>15. ASSUME NEW b \in Laid', NEW s \in Inside(b)
       PROVE  0 <= offset'[s] /\ offset'[s] + buckets[b].size <= total'
  <2>1. CASE b = next
    BY <1>1, <1>11, <1>14, <1>15, <2>1
  <2>2. CASE b \in Laid
    <3>1. PICK y \in Nat : y = buckets[b].size
      BY <1>4, <1>9
    <3>2. PICK o \in Int : o = offset[s]
      BY <1>10, <1>13, <2>2
    <3>3. 0 <= o /\ o + y <= total /\ offset'[s] = o
      BY <1>10, <1>12, <2>2, <3>1, <3>2
    <3>4. total' = total + z
      BY <1>1, <1>14
    <3> QED BY <1>1, <1>14, <3>1, <3>3, <3>4
  <2> QED BY <1>9, <2>1, <2>2
<1>16. ASSUME NEW b \in Laid', NEW c \in Laid', NEW s \in Inside(b), NEW t \in Inside(c), b < c
       PROVE  offset'[s] + buckets[b].size <= offset'[t]
  <2>1. b \in Laid
    BY <1>1, <1>2, <1>8, <1>9, <1>16
  <2>2. CASE c = next
    BY <1>10, <1>11, <1>12, <2>1, <2>2
  <2>3. CASE c \in Laid
    <3>1. offset[s] + buckets[b].size <= offset[t]
      BY <1>16, <2>1, <2>3 DEF AllocInv, Stacked
    <3> QED BY <1>10, <2>1, <2>3, <3>1
  <2> QED BY <1>9, <2>2, <2>3
<1>17. Stacked'
  BY <1>1, <1>3, <1>15, <1>16 DEF Stacked
<1> QED BY <1>5, <1>6, <1>7, <1>17 DEF AllocInv

\* LinearAllocator gives the next tensor the room behind all the others.
LEMMA PlaceLinearAllocInv ==
    ASSUME TypeOK, Filled, AllocInv, PlaceLinear
    PROVE  AllocInv'
<1>1. /\ phase = "linear" /\ phase' = "linear" /\ next' = next + 1 /\ next \in Nat
      /\ size' = size /\ tensors' = tensors /\ buckets = <<>> /\ buckets' = <<>>
      /\ next \in DOMAIN tensors /\ DOMAIN tensors = 1 .. Len(tensors)
      /\ offset' = [offset EXCEPT ![tensors[next].storage] = total]
      /\ total' = total + Align(size[tensors[next].storage]) /\ total \in Nat
  BY DEF PlaceLinear, graph, TypeOK, Filled
<1>2. PICK st : st = tensors[next].storage
  OBVIOUS
<1>3. \A i \in DOMAIN tensors : tensors[i].storage \in Storage
  <2>1. \A i \in DOMAIN tensors : tensors[i] \in TensorSet
    BY DEF TypeOK
  <2> QED BY <2>1 DEF TensorSet
<1>4. st \in Storage /\ offset' = [offset EXCEPT ![st] = total]
  BY <1>1, <1>2, <1>3
<1>5. Fitting' /\ Marked' /\ Stacked'
  BY <1>1 DEF AllocInv, Fitting, Marked, Stacked, Laid
<1>6. \A s \in Storage : /\ offset[s] \in Int /\ Align(size[s]) \in Nat
                         /\ Align(size[s])' = Align(size[s])
                         /\ offset'[s] = IF s = st THEN total ELSE offset[s]
  <2>1. \A s \in Storage : /\ offset[s] \in Int
                           /\ offset'[s] = IF s = st THEN total ELSE offset[s]
    BY <1>4 DEF TypeOK, Placeholder
  <2>2. \A s \in Storage : Align(size[s]) \in Nat
    BY AlignIsSize, PlanAssumption DEF TypeOK
  <2>3. \A s : Align(size[s])' = Align(size[s])
    BY <1>1 DEF Align
  <2> QED BY <2>1, <2>2, <2>3
<1>7. Lined \subseteq DOMAIN tensors /\ Lined' \subseteq DOMAIN tensors
  BY <1>1 DEF Lined
<1>8. \A i \in Lined' : i \in Lined \/ tensors[i].storage = st
  <2> TAKE i \in Lined'
  <2>1. i \in DOMAIN tensors /\ i < next + 1
    BY <1>1 DEF Lined
  <2>2. i < next \/ i = next
    BY <1>1, <2>1
  <2> QED BY <1>1, <1>2, <2>1, <2>2 DEF Lined
<1>9. PICK z \in Nat : z = Align(size[st])
  BY <1>4, <1>6
<1>10. total' = total + z
  BY <1>1, <1>2, <1>9
<1>11. \A i \in Lined : /\ 0 <= offset[tensors[i].storage]
                        /\ offset[tensors[i].storage] + Align(size[tensors[i].storage]) <= total
  BY DEF AllocInv, Linear
<1>12. \A i, j \in Lined : tensors[i].storage # tensors[j].storage =>
         \/ offset[tensors[i].storage] + Align(size[tensors[i].storage])
              <= offset[tensors[j].storage]
         \/ offset[tensors[j].storage] + Align(size[tensors[j].storage])
              <= offset[tensors[i].storage]
  BY DEF AllocInv, Linear
<1>13. ASSUME NEW i \in Lined'
       PROVE  /\ 0 <= offset'[tensors[i].storage]
              /\ offset'[tensors[i].storage] + Align(size[tensors[i].storage]) <= total'
  <2>1. PICK s \in Storage : s = tensors[i].storage
    BY <1>3, <1>7
  <2>2. CASE s = st
    BY <1>1, <1>6, <1>9, <1>10, <2>1, <2>2
  <2>3. CASE s # st
    <3>1. offset'[s] = offset[s] /\ 0 <= offset[s] /\ offset[s] + Align(size[s]) <= total
      BY <1>6, <1>8, <1>11, <2>1, <2>3
    <3>2. PICK o \in Int, a \in Nat : o = offset[s] /\ a = Align(size[s])
      BY <1>6
    <3>3. 0 <= o /\ o + a <= total'
      BY <1>1, <1>9, <1>10, <3>1, <3>2
    <3> QED BY <2>1, <3>1, <3>2, <3>3
  <2> QED BY <2>2, <2>3
<1>14. ASSUME NEW i \in Lined', NEW j \in Lined', tensors[i].storage # tensors[j].storage
       PROVE  \/ offset'[tensors[i].storage] + Align(size[tensors[i].storage])
                   <= offset'[tensors[j].storage]
              \/ offset'[tensors[j].storage] + Align(size[tensors[j].storage])
                   <= offset'[tensors[i].storage]
  <2>1. PICK s \in Storage, t \in Storage : s = tensors[i].storage /\ t = tensors[j].storage
    BY <1>3, <1>7
  <2>2. CASE s # st /\ t # st
    BY <1>6, <1>8, <1>12, <1>14, <2>1, <2>2
  <2>3. CASE s = st /\ t # st
    BY <1>6, <1>8, <1>11, <2>1, <2>3
  <2>4. CASE s # st /\ t = st
    BY <1>6, <1>8, <1>11, <2>1, <2>4
  <2> QED BY <1>14, <2>1, <2>2, <2>3, <2>4
<1>15. Linear'
  BY <1>1, <1>3, <1>6, <1>7, <1>13, <1>14 DEF Linear
<1> QED BY <1>5, <1>15 DEF AllocInv

\* While the graph is built, and when an allocator starts, nothing is placed.
LEMMA NothingPlaced ==
    ASSUME TypeOK', Filled, AllocInv, phase = "build",
           phase' \in {"build", "place", "linear"}, UNCHANGED plan
    PROVE  AllocInv'
<1>1. /\ UNCHANGED <<next, buckets, offset, total>> /\ buckets = <<>>
      /\ next = 1 /\ total = 0
  BY DEF plan, Filled, AllocInv, Marked
<1>2. \A s \in Storage : offset[s] # Placeholder
  BY <1>1 DEF AllocInv, Marked
<1>3. Fitting' /\ Stacked'
  BY <1>1 DEF Fitting, Stacked, Laid
<1>4. \A i \in DOMAIN tensors' : ~ (i < 1)
  BY DEF TypeOK
<1>5. Linear'
  BY <1>1, <1>4 DEF Linear, Lined
<1>6. Marked'
  BY <1>1, <1>2, <1>4 DEF Marked
<1> QED BY <1>3, <1>5, <1>6 DEF AllocInv

\* At the end of the first loop of MaxAllocator::Allocate every tensor is in
\* a bucket, and no bucket has an offset yet.
LEMMA PlacedAllAllocInv ==
    ASSUME TypeOK, AllocInv, PlacedAll
    PROVE  AllocInv'
<1>1. /\ phase = "place" /\ phase' = "offset" /\ next > Len(tensors) /\ next' = 1
      /\ size' = size /\ tensors' = tensors /\ buckets' = buckets
      /\ offset' = offset /\ total' = total
  BY DEF PlacedAll, graph
<1>2. \A b : Inside(b)' = Inside(b)
  BY <1>1 DEF Inside
<1>3. Fitting'
  BY <1>1, <1>2 DEF AllocInv, Fitting, Align
<1>4. \A i \in DOMAIN tensors : i < next /\ tensors[i].storage \in Storage
  <2>1. /\ DOMAIN tensors = 1 .. Len(tensors) /\ Len(tensors) \in Nat /\ next \in Nat
        /\ \A i \in DOMAIN tensors : tensors[i] \in TensorSet
    BY DEF TypeOK
  <2> QED BY <1>1, <2>1 DEF TensorSet
<1>5. \A i \in DOMAIN tensors : \E b \in DOMAIN buckets : tensors[i].storage \in Inside(b)
  BY <1>1, <1>4 DEF AllocInv, Marked
<1>6. Marked'
  BY <1>1, <1>2, <1>5 DEF Marked
<1>7. \A b \in DOMAIN buckets : ~ (b < 1)
  <2> DEFINE B == [size : Nat, refs : Seq(DOMAIN tensors)]
  <2>1. buckets \in Seq(B)
    BY DEF TypeOK
  <2> HIDE DEF B
  <2> QED BY <2>1
<1>8. Stacked' /\ Linear'
  BY <1>1, <1>7 DEF Stacked, Linear, Laid, Lined
<1> QED BY <1>3, <1>6, <1>8 DEF AllocInv

\* At the end of the second loop every bucket has its offset.
LEMMA OffsetsDoneAllocInv ==
    ASSUME TypeOK, AllocInv, OffsetsDone
    PROVE  AllocInv'
<1>1. /\ phase = "offset" /\ phase' = "done" /\ next > Len(buckets) /\ next' = next
      /\ size' = size /\ tensors' = tensors /\ buckets' = buckets
      /\ offset' = offset /\ total' = total
  BY DEF OffsetsDone, graph, plan
<1>2. \A b : Inside(b)' = Inside(b)
  BY <1>1 DEF Inside
<1>3. Fitting' /\ Marked'
  BY <1>1, <1>2 DEF AllocInv, Fitting, Marked, Align
<1>4. Laid' = Laid
  <2> DEFINE B == [size : Nat, refs : Seq(DOMAIN tensors)]
  <2>1. buckets \in Seq(B) /\ next \in Nat
    BY DEF TypeOK
  <2> HIDE DEF B
  <2>2. \A b \in DOMAIN buckets : b < next
    BY <1>1, <2>1
  <2> QED BY <1>1, <2>2 DEF Laid
<1>5. Stacked'
  BY <1>1, <1>2, <1>4 DEF AllocInv, Stacked
<1>6. Lined' = {}
  <2>1. buckets # <<>> \/ DOMAIN tensors = {}
    BY <1>1 DEF AllocInv, Marked
  <2> QED BY <1>1, <2>1 DEF Lined
<1>7. Linear'
  BY <1>6 DEF Linear
<1> QED BY <1>3, <1>5, <1>7 DEF AllocInv

\* At the end of the loop of LinearAllocator every tensor has its offset.
LEMMA LinearDoneAllocInv ==
    ASSUME TypeOK, Filled, AllocInv, LinearDone
    PROVE  AllocInv'
<1>1. /\ phase = "linear" /\ phase' = "done" /\ next > Len(tensors)
      /\ size' = size /\ tensors' = tensors /\ buckets = <<>> /\ buckets' = <<>>
      /\ offset' = offset /\ total' = total
  BY DEF LinearDone, graph, plan, Filled
<1>2. Fitting' /\ Marked' /\ Stacked'
  BY <1>1 DEF Fitting, Marked, Stacked, Laid
<1>3. Lined' = Lined
  <2>1. \A i \in DOMAIN tensors : i < next
    BY <1>1 DEF TypeOK
  <2> QED BY <1>1, <2>1 DEF Lined
<1>4. Linear'
  BY <1>1, <1>3 DEF AllocInv, Linear, Align
<1> QED BY <1>2, <1>4 DEF AllocInv

\* Every step of graph construction and of the allocators preserves what the
\* allocators know.
LEMMA NextAllocInv == IndInv /\ AllocInv /\ IndInv' /\ [Next]_vars => AllocInv'
<1> SUFFICES ASSUME IndInv, AllocInv, IndInv', [Next]_vars PROVE AllocInv'
  OBVIOUS
<1>1. TypeOK /\ Filled /\ TypeOK'
  BY DEF IndInv
<1>2. CASE \/ \E ins \in SUBSET Storage, out, scratch \in Storage \cup {None} :
                AddNode(ins, out, scratch)
           \/ GetWorkspaceSize \/ GetLinearWorkspaceSize
  <2>1. phase = "build" /\ phase' \in {"build", "place", "linear"} /\ UNCHANGED plan
    BY <1>2 DEF AddNode, GetWorkspaceSize, GetLinearWorkspaceSize
  <2> QED BY <1>1, <2>1, NothingPlaced
<1>3. CASE Place \/ PlacedAll \/ UpdateOffset \/ OffsetsDone
  BY <1>1, <1>3, PlaceAllocInv, PlacedAllAllocInv, UpdateOffsetAllocInv, OffsetsDoneAllocInv
<1>4. CASE PlaceLinear \/ LinearDone
  BY <1>1, <1>4, PlaceLinearAllocInv, LinearDoneAllocInv
<1>5. CASE UNCHANGED vars
  <2>1. UNCHANGED <<size, nodes, tensors, extend, phase, next, buckets, offset, total>>
    BY <1>5 DEF vars, graph, plan
  <2>2. \A b : Inside(b)' = Inside(b)
    BY <2>1 DEF Inside
  <2>3. Fitting' /\ Marked'
    BY <2>1, <2>2 DEF AllocInv, Fitting, Marked, Align
  <2>4. Laid' = Laid /\ Lined' = Lined
    BY <2>1 DEF Laid, Lined
  <2>5. Stacked'
    BY <2>1, <2>2, <2>4 DEF AllocInv, Stacked
  <2>6. Linear'
    BY <2>1, <2>4 DEF AllocInv, Linear, Align
  <2> QED BY <2>3, <2>5, <2>6 DEF AllocInv
<1> QED BY <1>2, <1>3, <1>4, <1>5 DEF Next, Keep

\* The inductive invariant behind the two theorems on the finished plan.
THEOREM MemoryInvariance == Spec => []PlanInv
<1>1. Init => PlanInv
  <2> SUFFICES ASSUME Init PROVE PlanInv
    OBVIOUS
  <2>1. /\ nodes = <<>> /\ tensors = <<>> /\ buckets = <<>> /\ phase = "build"
        /\ next = 1 /\ total = 0 /\ \A s \in Storage : offset[s] # Placeholder
    BY DEF Init, Placeholder
  <2>2. GraphInv
    BY <2>1 DEF GraphInv, Covered, Pointed, Wired, Once, Writers
  <2>3. AllocInv
    BY <2>1 DEF AllocInv, Fitting, Marked, Stacked, Linear, Laid, Lined
  <2> QED BY <2>2, <2>3, InitIndInv DEF PlanInv
<1>2. PlanInv /\ [Next]_vars => PlanInv'
  <2> SUFFICES ASSUME PlanInv, [Next]_vars PROVE PlanInv'
    OBVIOUS
  <2>1. IndInv /\ GraphInv /\ AllocInv /\ TypeOK
    BY DEF PlanInv, IndInv
  <2>2. IndInv'
    BY <2>1, NextIndInv
  <2> QED BY <2>1, <2>2, NextGraphInv, NextAllocInv DEF PlanInv
<1> QED BY <1>1, <1>2, PTL DEF Spec

\* Offsets and sizes are numbers.
LEMMA OffsetAndSize ==
    ASSUME TypeOK, NEW s \in Storage
    PROVE  offset[s] \in Int /\ size[s] \in Nat
<1>1. offset[s] \in Nat \cup {Placeholder}
  BY DEF TypeOK
<1>2. size[s] \in SizeSet /\ SizeSet \subseteq Nat
  BY PlanAssumption DEF TypeOK
<1>3. Placeholder \in Int
  BY DEF Placeholder
<1>4. offset[s] \in Int
  BY <1>1, <1>3
<1> QED BY <1>2, <1>4

\* In a finished plan every tensor lies inside the workspace.
LEMMA TensorInside ==
    ASSUME PlanInv, phase = "done", NEW i \in DOMAIN tensors
    PROVE  /\ 0 <= offset[tensors[i].storage]
           /\ offset[tensors[i].storage] + size[tensors[i].storage] <= total
<1>1. PICK s : s = tensors[i].storage
  OBVIOUS
<1>2. s \in Storage /\ TypeOK
  <2>1. tensors[i] \in TensorSet /\ TypeOK
    BY DEF PlanInv, IndInv, TypeOK
  <2> QED BY <1>1, <2>1 DEF TensorSet
<1>3. PICK o \in Int, z \in Nat : o = offset[s] /\ z = size[s]
  BY <1>2, OffsetAndSize
<1>4. PICK a \in Nat : a = Align(z)
  BY AlignIsSize
<1>5. z <= a /\ total \in Nat
  BY <1>2, <1>4, AlignCovers DEF TypeOK
<1>6. 0 <= o /\ o + a <= total
  <2>1. CASE buckets = <<>>
    BY <1>1, <1>3, <1>4, <2>1 DEF PlanInv, AllocInv, Linear, Lined
  <2>2. CASE buckets # <<>>
    <3>1. PICK b \in DOMAIN buckets : s \in Inside(b)
      BY <1>1, <2>2 DEF PlanInv, AllocInv, Marked
    <3>2. 0 <= o /\ o + buckets[b].size <= total /\ a <= buckets[b].size
      BY <1>3, <1>4, <3>1 DEF PlanInv, AllocInv, Stacked, Laid, Fitting
    <3>3. buckets[b].size \in Nat
      <4> DEFINE B == [size : Nat, refs : Seq(DOMAIN tensors)]
      <4>1. buckets \in Seq(B)
        BY <1>2 DEF TypeOK
      <4>2. \A c \in B : c.size \in Nat
        OBVIOUS
      <4> HIDE DEF B
      <4> QED BY <3>1, <4>1, <4>2
    <3> QED BY <1>5, <3>2, <3>3
  <2> QED BY <2>1, <2>2
<1>7. 0 <= o /\ o + z <= total
  BY <1>5, <1>6
<1> QED BY <1>1, <1>3, <1>7

\* Two tensors of a finished plan that share memory are in one bucket, so
\* that one's lifetime ends before the other one's starts.
LEMMA SharedMemory ==
    ASSUME PlanInv, phase = "done", MaxWrites = 1,
           NEW i \in DOMAIN tensors, NEW j \in DOMAIN tensors,
           tensors[i].storage # tensors[j].storage,
           Overlap(tensors[i].storage, tensors[j].storage)
    PROVE  \/ LifeTimeEnd(tensors[i]) < LifeTimeStart(tensors[j])
           \/ LifeTimeEnd(tensors[j]) < LifeTimeStart(tensors[i])
<1>1. PICK s, t : s = tensors[i].storage /\ t = tensors[j].storage
  OBVIOUS
<1>2. s \in Storage /\ t \in Storage /\ TypeOK /\ s # t
  <2>1. tensors[i] \in TensorSet /\ tensors[j] \in TensorSet /\ TypeOK
    BY DEF PlanInv, IndInv, TypeOK
  <2> QED BY <1>1, <2>1 DEF TensorSet
<1>3. PICK o \in Int, y \in Nat, p \in Int, z \in Nat :
        o = offset[s] /\ y = size[s] /\ p = offset[t] /\ z = size[t]
  <2>1. /\ offset[s] \in Int /\ offset[t] \in Int
        /\ size[s] \in Nat /\ size[t] \in Nat
    BY <1>2, OffsetAndSize
  <2> QED BY <2>1
<1>4. o < p + z /\ p < o + y
  BY <1>1, <1>3 DEF Overlap
<1>5. /\ Align(y) \in Nat /\ y <= Align(y)
      /\ Align(z) \in Nat /\ z <= Align(z)
  BY AlignIsSize, AlignCovers
<1>6. ~ (o + Align(y) <= p) /\ ~ (p + Align(z) <= o)
  BY <1>4, <1>5
<1>7. buckets # <<>>
  <2> SUFFICES ASSUME buckets = <<>> PROVE FALSE
    OBVIOUS
  <2>1. o + Align(y) <= p \/ p + Align(z) <= o
    BY <1>1, <1>2, <1>3 DEF PlanInv, AllocInv, Linear, Lined
  <2> QED BY <1>6, <2>1
<1>8. PICK b \in DOMAIN buckets, c \in DOMAIN buckets : s \in Inside(b) /\ t \in Inside(c)
  BY <1>1, <1>7 DEF PlanInv, AllocInv, Marked
<1>9. DOMAIN buckets = 1 .. Len(buckets)
  <2> DEFINE B == [size : Nat, refs : Seq(DOMAIN tensors)]
  <2>1. buckets \in Seq(B)
    BY <1>2 DEF TypeOK
  <2> HIDE DEF B
  <2> QED BY <2>1
<1>10. PICK k \in Nat, l \in Nat : k = buckets[b].size /\ l = buckets[c].size
  BY <1>2, <1>8, <1>9, InsideBucket
<1>11. b = c
  <2>1. Align(y) <= k /\ Align(z) <= l
    BY <1>3, <1>8, <1>10 DEF PlanInv, AllocInv, Fitting
  <2>2. b < c => o + k <= p
    BY <1>3, <1>8, <1>10 DEF PlanInv, AllocInv, Stacked, Laid
  <2>3. c < b => p + l <= o
    BY <1>3, <1>8, <1>10 DEF PlanInv, AllocInv, Stacked, Laid
  <2>4. ~ (b < c) /\ ~ (c < b)
    BY <1>5, <1>6, <2>1, <2>2, <2>3
  <2> QED BY <1>9, <2>4
<1>12. PICK x \in 1 .. Len(buckets[b].refs), w \in 1 .. Len(buckets[b].refs) :
         /\ tensors[buckets[b].refs[x]].storage = s
         /\ tensors[buckets[b].refs[w]].storage = t
  <2>1. \A r : r \in Inside(b) => \E x \in 1 .. Len(buckets[b].refs) :
                                    tensors[buckets[b].refs[x]].storage = r
    BY <1>2, <1>9, InsideBucket
  <2> QED BY <1>8, <1>11, <2>1
<1>13. /\ DOMAIN buckets[b].refs = 1 .. Len(buckets[b].refs)
       /\ buckets[b].refs[x] \in DOMAIN tensors /\ buckets[b].refs[w] \in DOMAIN tensors
  BY <1>2, <1>9, <1>12, InsideBucket
<1>14. buckets[b].refs[x] = i /\ buckets[b].refs[w] = j
  BY <1>1, <1>12, <1>13 DEF PlanInv, GraphInv, Once
<1>15. x < w \/ w < x
  BY <1>1, <1>2, <1>12
<1> QED BY <1>13, <1>14, <1>15 DEF PlanInv, IndInv, BucketsDisjoint

\* What a kernel writes lives while the kernel runs.
LEMMA WrittenTensor ==
    ASSUME PlanInv, NEW k \in DOMAIN nodes, NEW s \in Written(k)
    PROVE  \E i \in DOMAIN tensors :
             /\ tensors[i].storage = s /\ tensors[i] \in TensorSet
             /\ LifeTimeStart(tensors[i]) = k
             /\ k <= LifeTimeEnd(tensors[i]) /\ LifeTimeEnd(tensors[i]) \in Nat
<1>1. PICK i \in DOMAIN tensors : tensors[i].storage = s /\ tensors[i].node = k
  BY DEF PlanInv, GraphInv, Covered
<1>2. tensors[i] \in TensorSet
  BY DEF PlanInv, IndInv, TypeOK
<1>3. LifeTimeStart(tensors[i]) = k
  BY <1>1 DEF LifeTimeStart
<1> QED BY <1>1, <1>2, <1>3, LifeTime

\* Without in-place kernels, for every graph, both allocators keep every
\* tensor inside the workspace they ask for, and a kernel's output apart from
\* its scratch memory.
THEOREM PlanInsideWorkspace ==
    ASSUME MaxWrites = 1
    PROVE  Spec => []InsideWorkspace
<1>1. PlanInv => InsideWorkspace
  <2> SUFFICES ASSUME PlanInv, phase = "done"
               PROVE  /\ \A t \in Range(tensors) : /\ 0 <= offset[t.storage]
                                                   /\ offset[t.storage] + size[t.storage] <= total
                      /\ \A k \in DOMAIN nodes : \A s, t \in Written(k) : s # t => ~ Overlap(s, t)
    BY DEF InsideWorkspace
  <2>1. \A t \in Range(tensors) : \E i \in DOMAIN tensors : t = tensors[i]
    BY DEF Range
  <2>2. ASSUME NEW k \in DOMAIN nodes, NEW s \in Written(k), NEW t \in Written(k), s # t
        PROVE  ~ Overlap(s, t)
    <3>1. PICK i \in DOMAIN tensors :
            /\ tensors[i].storage = s
            /\ LifeTimeStart(tensors[i]) = k
            /\ k <= LifeTimeEnd(tensors[i]) /\ LifeTimeEnd(tensors[i]) \in Nat
      BY WrittenTensor
    <3>2. PICK j \in DOMAIN tensors :
            /\ tensors[j].storage = t
            /\ LifeTimeStart(tensors[j]) = k
            /\ k <= LifeTimeEnd(tensors[j]) /\ LifeTimeEnd(tensors[j]) \in Nat
      BY WrittenTensor
    <3>3. k \in Nat
      <4> DEFINE N == [ins : SUBSET Storage, out : Storage \cup {None},
                       scratch : Storage \cup {None}]
      <4>1. nodes \in Seq(N)
        BY DEF PlanInv, IndInv, TypeOK
      <4> HIDE DEF N
      <4> QED BY <4>1
    <3>4. /\ ~ (LifeTimeEnd(tensors[i]) < LifeTimeStart(tensors[j]))
          /\ ~ (LifeTimeEnd(tensors[j]) < LifeTimeStart(tensors[i]))
      BY <3>1, <3>2, <3>3
    <3> QED BY <2>2, <3>1, <3>2, <3>4, SharedMemory
  <2>3. \A t \in Range(tensors) : /\ 0 <= offset[t.storage]
                                  /\ offset[t.storage] + size[t.storage] <= total
    BY <2>1, TensorInside
  <2> QED BY <2>2, <2>3
<1> QED BY <1>1, MemoryInvariance, PTL

\* Without in-place kernels, for every graph, no kernel that runs between the
\* kernel that wrote a tensor and a kernel that reads it, both included,
\* writes to the memory of that tensor.
THEOREM InputsStay ==
    ASSUME MaxWrites = 1
    PROVE  Spec => []InputsKept
<1>1. PlanInv => InputsKept
  <2> SUFFICES ASSUME PlanInv, phase = "done", NEW j \in DOMAIN nodes, NEW s \in nodes[j].ins,
                      NEW k \in LastWriter(s, j) .. j, NEW t \in Written(k) \ {s}
               PROVE  ~ Overlap(s, t)
    BY DEF InputsKept
  <2>1. DOMAIN nodes = 1 .. Len(nodes) /\ Len(nodes) \in Nat
    <3> DEFINE N == [ins : SUBSET Storage, out : Storage \cup {None},
                     scratch : Storage \cup {None}]
    <3>1. nodes \in Seq(N)
      BY DEF PlanInv, IndInv, TypeOK
    <3> HIDE DEF N
    <3> QED BY <3>1
  <2>2. PICK w : w = LastWriter(s, j)
    OBVIOUS
  <2>3. w \in Writers(s)
    <3> DEFINE before == {i \in Writers(s) : i < j}
    <3>1. before # {} /\ before \subseteq 0 .. Len(nodes)
      BY <2>1 DEF PlanInv, GraphInv, Wired, Writers
    <3>2. \E i \in before : \A h \in before : h <= i
      <4> HIDE DEF before
      <4> QED BY <2>1, <3>1, LargestNatural
    <3>3. w \in before
      BY <2>2, <3>2, Zenon DEF LastWriter
    <3> QED BY <3>3
  <2>4. w \in DOMAIN nodes /\ s \in Written(w)
    <3>1. w \in DOMAIN nodes /\ nodes[w].out = s
      BY <2>3 DEF Writers
    <3>2. s # None
      <4>1. PICK i \in DOMAIN tensors : tensors[i].storage = s
        BY DEF PlanInv, GraphInv, Wired
      <4>2. tensors[i] \in TensorSet
        BY DEF PlanInv, IndInv, TypeOK
      <4> QED BY <4>1, <4>2, PlanAssumption DEF TensorSet
    <3> QED BY <3>1, <3>2 DEF Written, Some
  <2>5. k \in DOMAIN nodes /\ w <= k /\ k <= j /\ k \in Nat /\ j \in Nat /\ w \in Nat
    BY <2>1, <2>2, <2>4
  <2>6. PICK a \in DOMAIN tensors :
          /\ tensors[a].storage = s /\ tensors[a] \in TensorSet
          /\ LifeTimeStart(tensors[a]) = w
          /\ w <= LifeTimeEnd(tensors[a]) /\ LifeTimeEnd(tensors[a]) \in Nat
    BY <2>4, WrittenTensor
  <2>7. PICK c \in DOMAIN tensors :
          /\ tensors[c].storage = t
          /\ LifeTimeStart(tensors[c]) = k
          /\ k <= LifeTimeEnd(tensors[c]) /\ LifeTimeEnd(tensors[c]) \in Nat
    BY <2>5, WrittenTensor
  <2>8. j <= LifeTimeEnd(tensors[a])
    <3>1. PICK i \in DOMAIN tensors : tensors[i].storage = s /\ j \in tensors[i].peers
      BY DEF PlanInv, GraphInv, Wired
    <3>2. i = a
      BY <2>6, <3>1 DEF PlanInv, GraphInv, Once
    <3> QED BY <2>6, <3>1, <3>2, LifeTime
  <2>9. /\ ~ (LifeTimeEnd(tensors[a]) < LifeTimeStart(tensors[c]))
        /\ ~ (LifeTimeEnd(tensors[c]) < LifeTimeStart(tensors[a]))
    BY <2>5, <2>6, <2>7, <2>8
  <2> QED BY <2>6, <2>7, <2>9, SharedMemory
<1> QED BY <1>1, MemoryInvariance, PTL
=============================================================================
