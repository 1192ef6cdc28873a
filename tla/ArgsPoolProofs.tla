--------------------------- MODULE ArgsPoolProofs ---------------------------
(***************************************************************************)
(* For every number of executors, keys and cached arguments, with or       *)
(* without repeatable executors and whatever the profiling switch does:    *)
(* arguments in use are allocated, belong to one executor, and hold the    *)
(* tiling of the key that was asked for.                                   *)
(***************************************************************************)
EXTENDS ArgsPoolCallers, BasicFacts, SequenceTheorems, TLAPS

USE ArgsPoolAssumption

\* The eviction loop of Put ends, and where it ends it has looked at every entry
\* behind that place and found none that must stay.
LEMMA StopAtFound ==
    ASSUME cacheList \in Seq(Args)
    PROVE  /\ StopAt \in 0 .. Len(cacheList)
           /\ \A m \in StopAt + 1 .. Len(cacheList) : ~StopsAt(m)
<1> DEFINE S == {n \in 0 .. Len(cacheList) : StopsAt(n)}
<1>1. Len(cacheList) \in Nat
  OBVIOUS
<1>2. 0 \in S
  BY <1>1 DEF StopsAt
<1>3. PICK n \in S : \A k \in S : k <= n
  <2>1. S \subseteq 0 .. Len(cacheList) /\ S # {}
    BY <1>2
  <2> HIDE DEF S
  <2> QED BY <1>1, <2>1, LargestNatural
<1>4. \A m \in n + 1 .. Len(cacheList) : ~StopsAt(m)
  <2> SUFFICES ASSUME NEW m \in n + 1 .. Len(cacheList), StopsAt(m) PROVE FALSE
    OBVIOUS
  <2>1. n \in 0 .. Len(cacheList)
    OBVIOUS
  <2>2. m \in S
    BY <1>1, <2>1
  <2> QED BY <1>1, <1>3, <2>1, <2>2
<1> QED BY <1>4 DEF StopAt

\* Put deletes no entry that is in use.
LEMMA ErasedUnpinned ==
    ASSUME cacheList \in Seq(Args)
    PROVE  /\ Erased \subseteq Args
           /\ \A b \in Erased : ~isVist[b]
<1>1. /\ StopAt \in 0 .. Len(cacheList)
      /\ \A m \in StopAt + 1 .. Len(cacheList) : ~StopsAt(m)
  BY StopAtFound
<1>2. \A b \in Erased : \E m \in StopAt + 1 .. Len(cacheList) : b = cacheList[m]
  BY <1>1 DEF Erased, Range
<1>3. \A m \in StopAt + 1 .. Len(cacheList) : cacheList[m] \in Args
  BY <1>1
<1>4. \A m \in StopAt + 1 .. Len(cacheList) : ~isVist[cacheList[m]]
  BY <1>1 DEF StopsAt
<1> QED BY <1>2, <1>3, <1>4

\* Put keeps the LRU list a list of arguments that argsCache knows about.
LEMMA PutListed ==
    ASSUME cacheList \in Seq(Args), argsCache \in SUBSET Args, Listed,
           NEW a \in Args, Put(a)
    PROVE  cacheList' \in Seq(Args) /\ argsCache' \in SUBSET Args /\ Listed'
<1> DEFINE front == SubSeq(cacheList, 1, StopAt)
<1>1. StopAt \in 0 .. Len(cacheList)
  BY StopAtFound
<1>2. /\ front \in Seq(Args) /\ Len(front) = StopAt
      /\ \A i \in 1 .. StopAt : front[i] = cacheList[i]
  BY <1>1
<1>3. cacheList' = <<a>> \o front /\ argsCache' = (argsCache \ Erased) \cup {a}
  BY DEF Put
<1>4. cacheList' \in Seq(Args)
  BY <1>2, <1>3
<1>5. \A b \in argsCache \ Erased : \E i \in 1 .. StopAt : front[i] = b
  <2> TAKE b \in argsCache \ Erased
  <2>1. PICK i \in 1 .. Len(cacheList) : cacheList[i] = b
    BY DEF Listed, Range
  <2>2. i <= StopAt
    <3> SUFFICES ASSUME i > StopAt PROVE b \in Erased
      BY <1>1, <2>1
    <3>1. /\ i - StopAt \in DOMAIN SubSeq(cacheList, StopAt + 1, Len(cacheList))
          /\ SubSeq(cacheList, StopAt + 1, Len(cacheList))[i - StopAt] = cacheList[i]
      BY <1>1, <2>1
    <3> QED BY <2>1, <3>1 DEF Erased, Range
  <2> QED BY <1>1, <1>2, <2>1, <2>2
<1>6. Listed'
  <2>1. 1 \in DOMAIN cacheList' /\ cacheList'[1] = a
    BY <1>2, <1>3
  <2>2. \A i \in 1 .. StopAt : i + 1 \in DOMAIN cacheList' /\ cacheList'[i + 1] = front[i]
    BY <1>1, <1>2, <1>3
  <2> HIDE DEF front
  <2>3. \A b \in argsCache' : \E i \in DOMAIN cacheList' : cacheList'[i] = b
    <3> SUFFICES ASSUME NEW b \in argsCache'
                 PROVE  \E i \in DOMAIN cacheList' : cacheList'[i] = b
      OBVIOUS
    <3>1. CASE b = a
      BY <2>1, <3>1
    <3>2. CASE b \in argsCache \ Erased
      <4>1. PICK i \in 1 .. StopAt : front[i] = b
        BY <1>5, <3>2
      <4> QED BY <2>2, <4>1
    <3> QED BY <1>3, <3>1, <3>2
  <2> QED BY <2>3 DEF Listed, Range
<1>7. argsCache' \in SUBSET Args
  BY <1>3
<1> QED BY <1>4, <1>6, <1>7

\* Taking one entry out of the LRU list, as Get and FixCache do.
LEMMA WithoutListed ==
    ASSUME cacheList \in Seq(Args), Listed, NEW a \in argsCache
    PROVE  /\ Without(a) \in Seq(Args)
           /\ argsCache \ {a} \subseteq Range(Without(a))
<1> DEFINE p == Position(a)
           l == SubSeq(cacheList, 1, p - 1)
           r == SubSeq(cacheList, p + 1, Len(cacheList))
<1>1. p \in 1 .. Len(cacheList) /\ cacheList[p] = a
  <2>1. \E i \in DOMAIN cacheList : cacheList[i] = a
    BY DEF Listed, Range
  <2> QED BY <2>1 DEF Position
<1> HIDE DEF p
<1>2. /\ l \in Seq(Args) /\ Len(l) = p - 1
      /\ \A i \in 1 .. p - 1 : l[i] = cacheList[i]
  BY <1>1
<1>3. /\ r \in Seq(Args) /\ Len(r) = Len(cacheList) - p
      /\ \A i \in 1 .. Len(cacheList) - p : r[i] = cacheList[p + i]
  BY <1>1
<1>4. Without(a) = l \o r
  BY DEF Without, p
<1>5. Without(a) \in Seq(Args)
  BY <1>2, <1>3, <1>4
<1>6. \A b \in argsCache \ {a} : b \in Range(Without(a))
  <2> TAKE b \in argsCache \ {a}
  <2>1. PICK i \in 1 .. Len(cacheList) : cacheList[i] = b
    BY DEF Listed, Range
  <2>2. CASE i < p
    <3>1. i \in 1 .. Len(l) /\ l[i] = b
      BY <1>1, <1>2, <2>1, <2>2
    <3>2. i \in DOMAIN (l \o r) /\ (l \o r)[i] = l[i]
      <4> HIDE DEF l, r
      <4> QED BY <1>1, <1>2, <1>3, <3>1
    <3> QED BY <1>4, <3>1, <3>2 DEF Range
  <2>3. CASE i > p
    <3>1. i - p \in 1 .. Len(r) /\ r[i - p] = b
      BY <1>1, <1>3, <2>1, <2>3
    <3>2. Len(l) + (i - p) \in DOMAIN (l \o r) /\ (l \o r)[Len(l) + (i - p)] = r[i - p]
      <4> HIDE DEF l, r
      <4> QED BY <1>1, <1>2, <1>3, <3>1
    <3> QED BY <1>4, <3>1, <3>2 DEF Range
  <2> QED BY <1>1, <2>1, <2>2, <2>3
<1> QED BY <1>5, <1>6

\* A match moves its entry to the front of the LRU list.
LEMMA MoveToFrontListed ==
    ASSUME cacheList \in Seq(Args), Listed, NEW a \in Args
    PROVE  MoveToFront(a) \in Seq(Args) /\ argsCache \subseteq Range(MoveToFront(a))
<1>1. CASE a \notin argsCache
  BY <1>1 DEF MoveToFront, Listed
<1>2. CASE a \in argsCache
  <2> DEFINE w == Without(a)
  <2>1. w \in Seq(Args) /\ argsCache \ {a} \subseteq Range(w)
    BY <1>2, WithoutListed
  <2>2. MoveToFront(a) = <<a>> \o w
    BY <1>2 DEF MoveToFront
  <2> HIDE DEF w
  <2>3. /\ <<a>> \o w \in Seq(Args)
        /\ 1 \in DOMAIN (<<a>> \o w) /\ (<<a>> \o w)[1] = a
        /\ \A i \in DOMAIN w : i + 1 \in DOMAIN (<<a>> \o w) /\ (<<a>> \o w)[i + 1] = w[i]
    BY <2>1
  <2>4. \A b \in argsCache : \E i \in DOMAIN (<<a>> \o w) : (<<a>> \o w)[i] = b
    <3> TAKE b \in argsCache
    <3>1. CASE b = a
      BY <2>3, <3>1
    <3>2. CASE b # a
      <4>1. PICK i \in DOMAIN w : w[i] = b
        BY <2>1, <3>2 DEF Range
      <4> QED BY <2>3, <4>1
    <3> QED BY <3>1, <3>2
  <2> QED BY <2>2, <2>3, <2>4 DEF Range
<1> QED BY <1>1, <1>2
-----------------------------------------------------------------------------
(* The inductive invariant.                                                *)

\* What Asked says of one executor.
AskedOf(e) ==
    /\ args[e] \in Heap \cup {e, None}
    /\ phase[e] \in {"idle", "adding", "sealed", "bypassed", "released"} =>
          ~isCachedArgs[e]
    /\ Holds(e) => args[e] # None
    /\ phase[e] = "created" /\ args[e] \in Heap => key[args[e]] = None
    /\ HasTiling(e) =>
          /\ key[args[e]] = text[e]
          /\ ~Cut(e) \/ args[e] = e => tiled[args[e]] = wanted[e]

\* A text that gets one more part.
LEMMA TextGrows ==
    ASSUME NEW t \in Text, NEW x \in Part, Len(t) < PartNum
    PROVE  /\ t \in Seq(Part) /\ Append(t, x) \in Text
           /\ Len(Append(t, x)) = Len(t) + 1 /\ Append(t, x)[Len(t) + 1] = x
           /\ \A i \in 1 .. Len(t) : Append(t, x)[i] = t[i]
<1>1. PICK n \in 0 .. PartNum : t \in [1 .. n -> Part]
  BY DEF Text
<1>2. n \in Nat /\ t \in Seq(Part) /\ Len(t) = n
  BY <1>1
<1>3. /\ Append(t, x) \in [1 .. n + 1 -> Part]
      /\ Len(Append(t, x)) = n + 1 /\ Append(t, x)[n + 1] = x
      /\ \A i \in 1 .. n : Append(t, x)[i] = t[i]
  <2>1. /\ Append(t, x) \in Seq(Part) /\ Len(Append(t, x)) = n + 1
        /\ Append(t, x)[n + 1] = x /\ \A i \in 1 .. n : Append(t, x)[i] = t[i]
    BY <1>2
  <2>2. \A q \in Seq(Part) : q \in [1 .. Len(q) -> Part]
    OBVIOUS
  <2> QED BY <2>1, <2>2
<1>4. n + 1 \in 0 .. PartNum
  BY <1>2, KeyAssumption
<1> QED BY <1>2, <1>3, <1>4 DEF Text

\* A key is a text, and has all its parts.
LEMMA KeyText ==
    /\ Key \subseteq Text /\ <<>> \in Text /\ None \notin Text
    /\ \A k \in Key : Len(k) = PartNum /\ \A i \in 1 .. PartNum : k[i] \in Part
<1>1. PartNum \in Nat /\ PartNum \in 0 .. PartNum /\ 0 \in 0 .. PartNum
  BY KeyAssumption
<1>2. Key \subseteq Text /\ None \notin Text
  BY <1>1, KeyAssumption DEF Text
<1>3. <<>> \in [1 .. 0 -> Part]
  OBVIOUS
<1>4. \A k \in Key : k \in [1 .. PartNum -> Part]
  BY KeyAssumption
<1>5. \A k \in [1 .. PartNum -> Part] :
        k \in Seq(Part) /\ Len(k) = PartNum /\ \A i \in 1 .. PartNum : k[i] \in Part
  BY <1>1
<1> QED BY <1>1, <1>2, <1>3, <1>4, <1>5 DEF Text

\* Steps that write no key keep what is known of it.
LEMMA SpelledKept ==
    ASSUME Spelled, phase \in [Executor -> Phases], UNCHANGED asks,
           NEW e \in Executor, NEW p \in Phases, phase' = [phase EXCEPT ![e] = p],
           p \notin {"idle", "released"} => phase[e] \notin {"idle", "released", "adding"},
           p # "adding"
    PROVE  Spelled'
BY DEF Spelled, Cut, asks

\* GetExecutor writes nothing yet, or all of the key.
LEMMA GetSpelled ==
    ASSUME TypeOK, Spelled, NEW e \in Executor, NEW k \in Key,
           NEW matchArgsV2 \in BOOLEAN, GetExecutor(e, k, matchArgsV2)
    PROVE  /\ Spelled'
           /\ wanted' \in [Executor -> Key \cup {None}] /\ text' \in [Executor -> Text]
           /\ added' \in [Executor -> 0 .. PartNum - 1]
<1>1. /\ wanted' = [wanted EXCEPT ![e] = k] /\ added' = [added EXCEPT ![e] = 0]
      /\ text' = [text EXCEPT ![e] = IF matchArgsV2 THEN <<>> ELSE k]
      /\ phase' = [phase EXCEPT ![e] = IF matchArgsV2 THEN "adding" ELSE "open"]
  BY DEF GetExecutor
<1>2. /\ wanted' \in [Executor -> Key \cup {None}] /\ text' \in [Executor -> Text]
      /\ added' \in [Executor -> 0 .. PartNum - 1]
  BY <1>1, KeyText DEF TypeOK
<1>3. \A f \in Executor : f # e => /\ phase'[f] = phase[f] /\ wanted'[f] = wanted[f]
                                  /\ text'[f] = text[f] /\ added'[f] = added[f]
  BY <1>1 DEF TypeOK
<1>4. /\ wanted'[e] = k /\ added'[e] = 0
      /\ \/ phase'[e] = "adding" /\ text'[e] = <<>>
         \/ phase'[e] = "open" /\ text'[e] = k
  BY <1>1 DEF TypeOK
<1>5. Len(<<>>) = 0
  OBVIOUS
<1> QED BY <1>2, <1>3, <1>4, <1>5 DEF Spelled, Cut

\* A part is added, or is not.
LEMMA AddSpelled ==
    ASSUME TypeOK, Spelled, NEW e \in Executor, AddPart(e)
    PROVE  /\ Spelled' /\ text' \in [Executor -> Text]
           /\ added' \in [Executor -> 0 .. PartNum - 1]
<1> DEFINE n == added[e]
           x == NextPart(e)
<1>1. /\ phase[e] = "adding" /\ n + 1 < PartNum /\ UNCHANGED <<phase, wanted>>
      /\ added' = [added EXCEPT ![e] = n + 1]
      /\ text' = [text EXCEPT ![e] = Adds(e)]
  BY DEF AddPart
<1>2. /\ n \in 0 .. PartNum - 1 /\ text[e] \in Text /\ wanted[e] \in Key
      /\ Len(text[e]) <= n
      /\ Len(text[e]) = n => \A i \in 1 .. n : text[e][i] = wanted[e][i]
  BY <1>1 DEF TypeOK, Spelled
<1>3. x \in Part /\ x = wanted[e][n + 1]
  BY <1>1, <1>2, KeyText DEF NextPart
<1>4. /\ text[e] \in Seq(Part) /\ Append(text[e], x) \in Text
      /\ Len(Append(text[e], x)) = Len(text[e]) + 1
      /\ Append(text[e], x)[Len(text[e]) + 1] = x
      /\ \A i \in 1 .. Len(text[e]) : Append(text[e], x)[i] = text[e][i]
  <2>1. Len(text[e]) < PartNum
    <3>1. text[e] \in Seq(Part)
      BY <1>2 DEF Text
    <3>2. Len(text[e]) \in Nat
      BY <3>1
    <3> QED BY <1>1, <1>2, <3>2, KeyAssumption
  <2> HIDE DEF x
  <2> QED BY <1>2, <1>3, <2>1, TextGrows
<1>5. Adds(e) = text[e] \/ Adds(e) = Append(text[e], x)
  BY DEF Adds
<1> HIDE DEF x, n
<1>6. PICK t \in Text : t = Adds(e)
  BY <1>2, <1>4, <1>5
<1>7. /\ Len(t) <= n + 1
      /\ Len(t) = n + 1 => \A i \in 1 .. n + 1 : t[i] = wanted[e][i]
  <2>1. Len(text[e]) \in Nat
    BY <1>4
  <2>2. CASE t = text[e]
    BY <1>2, <2>1, <2>2
  <2>3. CASE t = Append(text[e], x)
    BY <1>2, <1>3, <1>4, <2>1, <2>3
  <2> QED BY <1>5, <1>6, <2>2, <2>3
<1>8. /\ text' \in [Executor -> Text] /\ text'[e] = t
      /\ added' \in [Executor -> 0 .. PartNum - 1] /\ added'[e] = n + 1
      /\ \A f \in Executor : f # e => text'[f] = text[f] /\ added'[f] = added[f]
  <2>1. n + 1 \in 0 .. PartNum - 1
    BY <1>1, <1>2, KeyAssumption
  <2> QED BY <1>1, <1>6, <2>1 DEF TypeOK
<1> QED BY <1>1, <1>2, <1>7, <1>8 DEF Spelled, Cut

\* The last part makes a key of a text that lacks no other.
LEMMA SealSpelled ==
    ASSUME TypeOK, Spelled, NEW e \in Executor, SealKey(e)
    PROVE  /\ Spelled' /\ text' \in [Executor -> Text]
           /\ added' \in [Executor -> 0 .. PartNum - 1]
<1> DEFINE x == NextPart(e)
           t == Append(text[e], x)
<1>1. /\ phase[e] = "adding" /\ added[e] + 1 = PartNum /\ wanted' = wanted
      /\ phase' = [phase EXCEPT ![e] = "sealed"]
      /\ added' = [added EXCEPT ![e] = 0] /\ text' = [text EXCEPT ![e] = t]
  BY DEF SealKey
<1>2. /\ added[e] \in 0 .. PartNum - 1 /\ text[e] \in Text /\ wanted[e] \in Key
      /\ Len(text[e]) <= added[e]
      /\ Len(text[e]) = added[e] => \A i \in 1 .. added[e] : text[e][i] = wanted[e][i]
  BY <1>1 DEF TypeOK, Spelled
<1>3. x \in Part /\ x = wanted[e][PartNum]
  BY <1>1, <1>2, KeyText DEF NextPart
<1>4. text[e] \in Seq(Part) /\ Len(text[e]) \in Nat
  BY <1>2 DEF Text
<1> HIDE DEF x
<1>5. /\ t \in Text /\ Len(t) = Len(text[e]) + 1 /\ t[Len(text[e]) + 1] = x
      /\ \A i \in 1 .. Len(text[e]) : t[i] = text[e][i]
  <2>1. Len(text[e]) < PartNum
    BY <1>1, <1>2, <1>4
  <2> QED BY <1>2, <1>3, <2>1, TextGrows
<1> HIDE DEF t
<1>6. t \in Key => t = wanted[e]
  <2> SUFFICES ASSUME t \in Key PROVE t = wanted[e]
    OBVIOUS
  <2>1. Len(t) = PartNum /\ t \in [1 .. PartNum -> Part] /\ wanted[e] \in [1 .. PartNum -> Part]
    BY <1>2, KeyText, KeyAssumption
  <2>2. Len(text[e]) = added[e]
    BY <1>1, <1>2, <1>4, <1>5, <2>1
  <2>3. \A i \in 1 .. PartNum : t[i] = wanted[e][i]
    <3> TAKE i \in 1 .. PartNum
    <3>1. PartNum \in Nat /\ added[e] \in Nat /\ (i \in 1 .. added[e] \/ i = added[e] + 1)
      BY <1>1, <1>2, KeyAssumption
    <3>2. t[added[e] + 1] = wanted[e][added[e] + 1]
      BY <1>1, <1>3, <1>5, <2>2
    <3>3. \A j \in 1 .. added[e] : t[j] = wanted[e][j]
      BY <1>2, <1>5, <2>2
    <3> QED BY <3>1, <3>2, <3>3
  <2> QED BY <2>1, <2>3
<1>7. /\ text' \in [Executor -> Text] /\ text'[e] = t
      /\ added' \in [Executor -> 0 .. PartNum - 1]
      /\ phase'[e] = "sealed"
      /\ \A f \in Executor : f # e => /\ text'[f] = text[f] /\ added'[f] = added[f]
                                      /\ phase'[f] = phase[f]
  BY <1>1, <1>5 DEF TypeOK
<1> QED BY <1>1, <1>2, <1>6, <1>7 DEF Spelled, Cut

\* A text without the last part is too short for a key.
LEMMA BypassSpelled ==
    ASSUME TypeOK, Spelled, NEW e \in Executor, BypassCache(e)
    PROVE  Spelled' /\ added' \in [Executor -> 0 .. PartNum - 1]
<1>1. /\ phase[e] = "adding" /\ added[e] + 1 = PartNum /\ UNCHANGED <<wanted, text>>
      /\ phase' = [phase EXCEPT ![e] = "bypassed"]
      /\ added' = [added EXCEPT ![e] = 0]
  BY DEF BypassCache
<1>2. /\ added[e] \in 0 .. PartNum - 1 /\ text[e] \in Text /\ wanted[e] \in Key
      /\ Len(text[e]) <= added[e]
  BY <1>1 DEF TypeOK, Spelled
<1>3. text[e] \notin Key
  <2>1. text[e] \in Seq(Part) /\ Len(text[e]) \in Nat
    BY <1>2 DEF Text
  <2>2. Len(text[e]) # PartNum
    BY <1>1, <1>2, <2>1
  <2> QED BY <2>2, KeyText
<1>4. /\ added' \in [Executor -> 0 .. PartNum - 1] /\ phase'[e] = "bypassed"
      /\ \A f \in Executor : f # e => added'[f] = added[f] /\ phase'[f] = phase[f]
  BY <1>1 DEF TypeOK
<1> QED BY <1>1, <1>2, <1>3, <1>4 DEF Spelled, Cut

\* Nothing is pinned, filed or in use at the start.
LEMMA InitIndInv == Init => IndInv
<1> SUFFICES ASSUME Init PROVE IndInv
  OBVIOUS
<1>1. TypeOK
  <2>1. cacheList \in Seq(Args)
    BY DEF Init
  <2>2. phase \in [Executor -> Phases] /\ args \in [Executor -> Args \cup {None}]
    BY DEF Init, Phases
  <2>3. 0 \in 0 .. PartNum - 1
    BY KeyAssumption
  <2> QED BY <2>1, <2>2, <2>3, KeyText DEF Init, TypeOK
<1>2. HeldAlive /\ Exclusive /\ Asked /\ Spelled
  BY DEF Init, HeldAlive, Exclusive, Asked, Spelled, Holds, HasTiling, Args
<1>3. Mapped /\ Listed
  BY DEF Init, Mapped, Listed
<1> QED BY <1>1, <1>2, <1>3 DEF IndInv

\* A match, early or late: an executor that held nothing takes arguments that
\* were not pinned.
LEMMA MatchIndInv ==
    ASSUME IndInv, NEW e \in Executor, NEW a \in Heap,
           phase[e] \in {"sealed", "open"}, ~isCachedArgs[e], MatchArgs(e, a),
           NEW p \in {"ready", "open"}, phase' = [phase EXCEPT ![e] = p]
    PROVE  IndInv'
<1> USE DEF IndInv
<1>1. /\ a \in argsMap[Seed[text[e]]] /\ ~isVist[a] /\ key[a] = text[e]
      /\ args' = [args EXCEPT ![e] = a]
      /\ isCachedArgs' = [isCachedArgs EXCEPT ![e] = TRUE]
      /\ isVist' = [isVist EXCEPT ![a] = TRUE]
      /\ cacheList' = MoveToFront(a)
      /\ UNCHANGED <<asks, enableCache, repeatable, alive, key, tiled, argsCache,
                     argsMap, fixedCacheMap, recording>>
  BY DEF MatchArgs, IsArgsMatch
<1>2. text[e] \in Text /\ Seed[text[e]] \in Seeds /\ (text[e] \in Key => text[e] = wanted[e])
  BY DEF TypeOK, Seeds, Spelled, Cut
<1>3. a \in alive /\ (text[e] \in Key => tiled[a] = wanted[e])
  BY <1>1, <1>2 DEF Mapped
<1>4. cacheList' \in Seq(Args) /\ Listed'
  BY <1>1, MoveToFrontListed DEF TypeOK, Listed, Range, Args
<1>5. TypeOK' /\ Spelled'
  <2>1. TypeOK'
    BY <1>1, <1>4 DEF TypeOK, Phases, Args, asks
  <2> QED BY <1>1, <2>1, SpelledKept DEF TypeOK, Phases
<1>6. \A f \in Executor : f # e => (Holds(f)' <=> Holds(f)) /\ args'[f] = args[f]
  BY <1>1 DEF Holds, TypeOK
<1>7. \A f \in Executor : Holds(f) => args[f] # a
  BY <1>1 DEF HeldAlive
<1>8. args'[e] = a
  BY <1>1 DEF TypeOK
<1>9. HeldAlive'
  BY <1>1, <1>3, <1>6, <1>8 DEF HeldAlive, TypeOK, Args
<1>10. Exclusive'
  BY <1>6, <1>7, <1>8 DEF Exclusive
<1>11. Asked'
  <2> SUFFICES ASSUME NEW f \in Executor PROVE AskedOf(f)'
    BY DEF Asked, AskedOf
  <2>1. CASE f = e
    BY <1>1, <1>2, <1>3, <1>8, <2>1 DEF AskedOf, Cut, HasTiling, TypeOK, Phases, Args, asks
  <2>2. CASE f # e
    <3>1. /\ phase'[f] = phase[f] /\ isCachedArgs'[f] = isCachedArgs[f] /\ text'[f] = text[f]
          /\ wanted'[f] = wanted[f] /\ args'[f] = args[f] /\ key' = key /\ tiled' = tiled
      BY <1>1, <2>2 DEF TypeOK, asks
    <3>2. AskedOf(f)
      BY DEF Asked, AskedOf
    <3> QED BY <3>1, <3>2 DEF AskedOf, Holds, HasTiling, Cut
  <2> QED BY <2>1, <2>2
<1>12. Mapped'
  <2>1. \A f \in Executor : phase[f] = "created" => phase'[f] = "created" /\ args'[f] = args[f]
    BY <1>1 DEF TypeOK
  <2>2. UNCHANGED <<alive, key, tiled, argsMap, text>>
    BY <1>1 DEF asks
  <2>3. \A b \in Args : ~isVist'[b] => ~isVist[b]
    BY <1>1 DEF TypeOK, Args
  <2>4. \A s \in Seeds : argsMap[s] \subseteq Args
    BY DEF TypeOK, Args
  <2> QED BY <2>1, <2>2, <2>3, <2>4 DEF Mapped
<1> QED BY <1>4, <1>5, <1>9, <1>10, <1>11, <1>12

\* CreateArgs: the new arguments were not allocated, and Put frees nothing that
\* is pinned.
LEMMA CreateIndInv ==
    ASSUME IndInv, NEW e \in Executor, NEW a \in Heap, CreateArgs(e, a)
    PROVE  IndInv'
<1> USE DEF IndInv
<1>1. /\ phase[e] = "missed" /\ a \notin alive /\ Put(a)
      /\ alive' = (alive \ Erased) \cup {a}
      /\ argsMap' = Filed(e, a)
      /\ key' = [key EXCEPT ![a] = None]
      /\ tiled' = [tiled EXCEPT ![a] = None]
      /\ isVist' = [isVist EXCEPT ![a] = TRUE]
      /\ args' = [args EXCEPT ![e] = a]
      /\ phase' = [phase EXCEPT ![e] = "created"]
      /\ UNCHANGED <<asks, isCachedArgs, enableCache, repeatable, fixedCacheMap,
                     recording>>
  BY DEF CreateArgs
<1>2. text[e] \in Text /\ Seed[text[e]] \in Seeds
  BY DEF TypeOK, Seeds
<1>3. Erased \subseteq Args /\ \A b \in Erased : ~isVist[b]
  BY ErasedUnpinned DEF TypeOK
<1>4. cacheList' \in Seq(Args) /\ argsCache' \in SUBSET Args /\ Listed'
  BY <1>1, PutListed DEF TypeOK, Args
<1>5. \A s \in Seeds : argsMap'[s] \subseteq argsMap[s] \cup {a}
  BY <1>1 DEF Filed, Unmapped
<1>6. \A s \in Seeds : a \in argsMap'[s] => s = Seed[text[e]]
  BY <1>1 DEF Filed, Unmapped, Mapped
<1>7. TypeOK'
  <2>1. argsMap' \in [Seeds -> SUBSET Heap]
    BY <1>1, <1>5 DEF TypeOK, Filed
  <2> QED BY <1>1, <1>4, <2>1 DEF TypeOK, Phases, Args, asks
<1>8. args'[e] = a /\ phase'[e] = "created" /\ isVist'[a] /\ key'[a] = None
  BY <1>1 DEF TypeOK, Args
<1>9. \A f \in Executor : f # e =>
        (Holds(f)' <=> Holds(f)) /\ args'[f] = args[f] /\ phase'[f] = phase[f]
  BY <1>1 DEF Holds, TypeOK
<1>10. \A f \in Executor : Holds(f) => args[f] # a
  BY <1>1 DEF HeldAlive
<1>11. HeldAlive'
  BY <1>1, <1>3, <1>8, <1>9 DEF HeldAlive, TypeOK, Args
<1>12. Exclusive'
  BY <1>8, <1>9, <1>10 DEF Exclusive
<1>13. Asked'
  <2> SUFFICES ASSUME NEW f \in Executor PROVE AskedOf(f)'
    BY DEF Asked, AskedOf
  <2>1. CASE f = e
    BY <1>8, <1>1, <2>1 DEF HasTiling, AskedOf
  <2>2. CASE f # e
    <3>1. HasTiling(f)' => HasTiling(f) /\ Holds(f)
      BY <1>1, <2>2 DEF HasTiling, Holds, TypeOK
    <3>2. phase[f] = "created" => Holds(f)
      BY DEF Holds
    <3>3. \A b \in Args : b # a => key'[b] = key[b] /\ tiled'[b] = tiled[b]
      BY <1>1 DEF TypeOK
    <3>4. Holds(f) => args[f] \in Args
      BY DEF Asked, Args
    <3>5. /\ phase'[f] = phase[f] /\ isCachedArgs'[f] = isCachedArgs[f] /\ text'[f] = text[f]
          /\ wanted'[f] = wanted[f] /\ args'[f] = args[f] /\ (Holds(f)' <=> Holds(f))
      BY <1>1, <1>9, <2>2 DEF asks
    <3>6. AskedOf(f)
      BY DEF Asked, AskedOf
    <3> QED BY <1>10, <3>1, <3>2, <3>3, <3>4, <3>5, <3>6 DEF AskedOf, Cut
  <2> QED BY <2>1, <2>2
<1>14. Mapped'
  <2> SUFFICES ASSUME NEW s \in Seeds, NEW b \in argsMap'[s]
               PROVE  /\ b \in alive'
                      /\ \/ key'[b] \in Text /\ Seed[key'[b]] = s
                         \/ \E f \in Executor :
                               phase'[f] = "created" /\ args'[f] = b /\ Seed[text'[f]] = s
                      /\ ~isVist'[b] /\ key'[b] \in Key => tiled'[b] = key'[b]
    BY DEF Mapped
  <2>1. CASE b = a
    BY <1>1, <1>6, <1>8, <2>1 DEF asks
  <2>2. CASE b # a
    <3>1. b \in argsMap[s] /\ b \in Args
      BY <1>5, <2>2 DEF TypeOK, Args
    <3>2. b \in Unmapped(s)
      BY <1>1, <2>2 DEF Filed
    <3>3. b \notin Erased
      <4> SUFFICES ASSUME b \in Erased PROVE FALSE
        OBVIOUS
      <4>1. ~isVist[b]
        BY <1>3
      <4>2. \A f \in Executor : phase[f] = "created" => args[f] # b
        BY <4>1, <3>1 DEF HeldAlive, Holds, TypeOK
      <4>3. key[b] \in Text /\ Seed[key[b]] = s
        BY <3>1, <4>2 DEF Mapped
      <4> QED BY <3>2, <4>3 DEF Unmapped
    <3>4. key'[b] = key[b] /\ tiled'[b] = tiled[b] /\ isVist'[b] = isVist[b]
      BY <1>1, <2>2, <3>1 DEF TypeOK
    <3>5. \A f \in Executor : phase[f] = "created" =>
             phase'[f] = "created" /\ args'[f] = args[f] /\ text'[f] = text[f]
      BY <1>1, <1>9 DEF asks
    <3> QED BY <1>1, <3>1, <3>3, <3>4, <3>5 DEF Mapped
  <2> QED BY <2>1, <2>2
<1>15. Spelled'
  BY <1>1, SpelledKept DEF TypeOK, Phases
<1> QED BY <1>4, <1>7, <1>11, <1>12, <1>13, <1>14, <1>15

\* ReleaseArgs: only the holder takes the pin away, its arguments have their
\* tiling, and Put frees nothing that is pinned.
LEMMA ReleaseIndInv ==
    ASSUME IndInv, NEW e \in Executor, ReleaseArgs(e)
    PROVE  IndInv'
<1> USE DEF IndInv
<1> DEFINE a == args[e]
           s0 == Seed[key[a]]
<1>1. /\ phase[e] = "clearing"
      /\ isVist' = [isVist EXCEPT ![a] = FALSE]
      /\ isCachedArgs' = [isCachedArgs EXCEPT ![e] = FALSE]
      /\ enableCache' = [enableCache EXCEPT ![e] = TRUE]
      /\ repeatable' = [repeatable EXCEPT ![e] = FALSE]
      /\ phase' = [phase EXCEPT ![e] = "released"]
      /\ UNCHANGED <<args, asks, key, tiled, recording>>
  BY DEF ReleaseArgs, Unpinned
<1>2. \/ /\ Put(a)
         /\ alive' = alive \ Erased
         /\ argsMap' = [t \in Seeds |-> Unmapped(t)]
         /\ fixedCacheMap' = [fixedCacheMap EXCEPT ![s0] = @ \ {a}]
      \/ UNCHANGED <<cacheList, argsCache, argsMap, fixedCacheMap, alive>>
  BY DEF ReleaseArgs, poolVars
<1>3. Holds(e) /\ HasTiling(e) /\ a \in Args
  BY <1>1 DEF Holds, HasTiling, Asked, Args
<1>4. key[a] \in Text /\ s0 \in Seeds /\ (key[a] \in Key => tiled[a] = key[a])
  <2>1. key[a] = text[e] /\ (text[e] \in Key => tiled[a] = wanted[e])
    BY <1>3 DEF Asked, Cut
  <2>2. text[e] \in Text /\ (text[e] \in Key => text[e] = wanted[e])
    BY <1>1 DEF TypeOK, Spelled, Cut
  <2> QED BY <2>1, <2>2 DEF Seeds
<1>5. Erased \subseteq Args /\ \A b \in Erased : ~isVist[b]
  BY ErasedUnpinned DEF TypeOK
<1> HIDE DEF a, s0
<1>6. cacheList' \in Seq(Args) /\ argsCache' \in SUBSET Args /\ Listed'
  <2>1. CASE Put(a)
    BY <1>3, <2>1, PutListed DEF TypeOK
  <2>2. CASE UNCHANGED <<cacheList, argsCache, argsMap, fixedCacheMap, alive>>
    BY <2>2 DEF TypeOK, Listed, Range
  <2> QED BY <1>2, <2>1, <2>2
<1>7. /\ alive' \subseteq alive
      /\ \A b \in alive : isVist[b] => b \in alive'
  BY <1>2, <1>5
<1>8. /\ argsMap' \in [Seeds -> SUBSET Heap]
      /\ \A t \in Seeds : argsMap'[t] \subseteq argsMap[t]
  BY <1>2 DEF TypeOK, Unmapped
<1>9. TypeOK'
  <2>1. fixedCacheMap' \in [Seeds -> SUBSET Args]
    <3>1. fixedCacheMap \in [Seeds -> SUBSET Args] /\ s0 \in Seeds
      BY <1>4 DEF TypeOK
    <3> QED BY <1>2, <3>1
  <2> QED BY <1>1, <1>3, <1>6, <1>7, <1>8, <2>1 DEF TypeOK, Phases, asks
<1>10. /\ \A f \in Executor : f # e => (Holds(f)' <=> Holds(f)) /\ (HasTiling(f)' <=> HasTiling(f))
       /\ ~Holds(e)' /\ ~HasTiling(e)'
  BY <1>1 DEF Holds, HasTiling, TypeOK
<1>11. HeldAlive'
  <2> SUFFICES ASSUME NEW f \in Executor, Holds(f)', args'[f] \in Heap
               PROVE  args'[f] \in alive' /\ isVist'[args'[f]]
    BY DEF HeldAlive
  <2>1. f # e /\ Holds(f) /\ args[f] # a
    BY <1>3, <1>10 DEF Exclusive, a
  <2>2. args[f] \in alive /\ isVist[args[f]]
    BY <1>1, <2>1 DEF HeldAlive
  <2> QED BY <1>1, <1>7, <2>1, <2>2 DEF TypeOK, Args
<1>12. Exclusive'
  BY <1>1, <1>10 DEF Exclusive
<1>13. Asked'
  BY <1>1, <1>10 DEF Asked, TypeOK, Phases, Cut, asks
<1>14. Mapped'
  <2> SUFFICES ASSUME NEW s \in Seeds, NEW b \in argsMap'[s]
               PROVE  /\ b \in alive'
                      /\ \/ key'[b] \in Text /\ Seed[key'[b]] = s
                         \/ \E f \in Executor :
                               phase'[f] = "created" /\ args'[f] = b /\ Seed[text'[f]] = s
                      /\ ~isVist'[b] /\ key'[b] \in Key => tiled'[b] = key'[b]
    BY DEF Mapped
  <2>1. b \in argsMap[s] /\ b \in Args
    BY <1>8 DEF TypeOK, Args
  <2>2. b \in alive'
    <3>1. CASE alive' = alive
      BY <2>1, <3>1 DEF Mapped
    <3>2. CASE alive' = alive \ Erased /\ argsMap' = [t \in Seeds |-> Unmapped(t)]
      <4> SUFFICES ASSUME b \in Erased PROVE FALSE
        BY <2>1, <3>2 DEF Mapped
      <4>1. ~isVist[b]
        BY <1>5
      <4>2. \A f \in Executor : phase[f] = "created" => args[f] # b
        BY <4>1, <2>1 DEF HeldAlive, Holds, TypeOK
      <4>3. key[b] \in Text /\ Seed[key[b]] = s
        BY <2>1, <4>2 DEF Mapped
      <4> QED BY <3>2, <4>3 DEF Unmapped
    <3> QED BY <1>2, <3>1, <3>2
  <2>3. ~isVist'[b] /\ key'[b] \in Key => tiled'[b] = key'[b]
    BY <1>1, <1>4, <2>1 DEF Mapped, TypeOK
  <2>4. \A f \in Executor : phase[f] = "created" => phase'[f] = "created"
    BY <1>1 DEF TypeOK
  <2> QED BY <1>1, <2>1, <2>2, <2>3, <2>4 DEF Mapped, asks
<1>15. Spelled'
  BY <1>1, SpelledKept DEF TypeOK, Phases
<1> QED BY <1>6, <1>9, <1>11, <1>12, <1>13, <1>14, <1>15

\* Steps that touch no arguments and no pool: they move one executor on, to a
\* phase in which it holds no more than before.
LEMMA QuietIndInv ==
    ASSUME IndInv, NEW e \in Executor, NEW p \in Phases,
           phase' = [phase EXCEPT ![e] = p],
           enableCache' \in [Executor -> BOOLEAN],
           wanted' \in [Executor -> Key \cup {None}], text' \in [Executor -> Text],
           added' \in [Executor -> 0 .. PartNum - 1], Spelled',
           \A f \in Executor : f # e => wanted'[f] = wanted[f] /\ text'[f] = text[f],
           p \in {"idle", "adding", "sealed", "bypassed", "released"} => ~isCachedArgs[e],
           p # "created", Holds(e)' => Holds(e),
           HasTiling(e)' => HasTiling(e) /\ wanted'[e] = wanted[e] /\ text'[e] = text[e],
           phase[e] # "created",
           UNCHANGED <<args, isCachedArgs, repeatable, argVars, poolVars, recording>>
    PROVE  IndInv'
<1> USE DEF IndInv
<1>1. UNCHANGED <<args, isCachedArgs, repeatable, alive, key, tiled, isVist, cacheList,
                  argsCache, argsMap, fixedCacheMap, recording>>
  BY DEF argVars, poolVars
<1>2. \A f \in Executor : /\ Holds(f)' => Holds(f)
                          /\ HasTiling(f)' => HasTiling(f)
                          /\ phase'[f] = "created" <=> phase[f] = "created"
  BY <1>1 DEF Holds, HasTiling, TypeOK
<1>3. TypeOK'
  BY <1>1 DEF TypeOK
<1>4. HeldAlive' /\ Exclusive'
  BY <1>1, <1>2 DEF HeldAlive, Exclusive
<1>5. Asked'
  <2> SUFFICES ASSUME NEW f \in Executor PROVE AskedOf(f)'
    BY DEF Asked, AskedOf
  <2>1. AskedOf(f)
    BY DEF Asked, AskedOf
  <2>2. HasTiling(f)' => wanted'[f] = wanted[f] /\ text'[f] = text[f]
    OBVIOUS
  <2>3. phase'[f] \in {"idle", "adding", "sealed", "bypassed", "released"} => ~isCachedArgs[f]
    BY <2>1 DEF AskedOf, TypeOK
  <2> QED BY <1>1, <1>2, <2>1, <2>2, <2>3 DEF AskedOf, Cut
<1>6. Mapped'
  <2>1. \A f \in Executor : phase[f] = "created" =>
           phase'[f] = "created" /\ text'[f] = text[f]
    BY <1>2
  <2> QED BY <1>1, <2>1 DEF Mapped
<1>7. Listed'
  BY <1>1 DEF Listed, Range
<1> QED BY <1>3, <1>4, <1>5, <1>6, <1>7

\* UseOwnArgs: the embedded arguments of an executor belong to nobody else.
LEMMA OwnIndInv ==
    ASSUME IndInv, NEW e \in Executor, UseOwnArgs(e)
    PROVE  IndInv'
<1> USE DEF IndInv
<1>1. /\ phase[e] = "missed"
      /\ args' = [args EXCEPT ![e] = e]
      /\ key' = [key EXCEPT ![e] = text[e]]
      /\ phase' = [phase EXCEPT ![e] = "created"]
      /\ UNCHANGED <<asks, isCachedArgs, enableCache, repeatable, alive, tiled,
                     isVist, cacheList, argsCache, argsMap, fixedCacheMap, recording>>
  BY DEF UseOwnArgs, poolVars
<1>2. /\ args'[e] = e /\ phase'[e] = "created" /\ e \in Args /\ e \notin Heap
      /\ \A f \in Executor : f # e =>
            /\ args'[f] = args[f] /\ phase'[f] = phase[f] /\ args[f] # e
            /\ Holds(f)' <=> Holds(f)
            /\ HasTiling(f)' <=> HasTiling(f)
      /\ \A b \in Args : b # e => key'[b] = key[b]
  BY <1>1 DEF TypeOK, Args, Asked, Holds, HasTiling
<1>3. TypeOK' /\ Listed' /\ Spelled'
  <2>1. TypeOK' /\ Listed'
    BY <1>1, <1>2 DEF TypeOK, Phases, Listed, Range, asks
  <2> QED BY <1>1, <2>1, SpelledKept DEF TypeOK, Phases
<1>4. HeldAlive' /\ Exclusive'
  BY <1>1, <1>2 DEF HeldAlive, Exclusive
<1>5. Asked'
  <2>1. HasTiling(e)' <=> FALSE
    BY <1>2 DEF HasTiling
  <2>2. \A f \in Executor : f # e => (Holds(f) => args[f] \in Args \ {e})
    BY <1>2 DEF Asked, Args
  <2>3. \A f \in Executor : HasTiling(f) => Holds(f)
    BY DEF HasTiling, Holds
  <2>4. \A f \in Executor : phase[f] = "created" => Holds(f)
    BY DEF Holds
  <2> SUFFICES ASSUME NEW f \in Executor PROVE AskedOf(f)'
    BY DEF Asked, AskedOf
  <2>5. CASE f = e
    BY <1>1, <1>2, <2>1, <2>5 DEF AskedOf
  <2>6. CASE f # e
    <3>1. AskedOf(f) /\ UNCHANGED <<wanted, text, isCachedArgs, tiled>>
      BY <1>1 DEF Asked, AskedOf, asks
    <3> QED BY <1>2, <2>2, <2>3, <2>4, <2>6, <3>1 DEF AskedOf, Cut
  <2> QED BY <2>5, <2>6
<1>6. Mapped'
  <2>1. \A s \in Seeds : \A b \in argsMap[s] : b \in Args /\ b # e
    BY <1>2 DEF TypeOK, Args
  <2>2. \A f \in Executor : phase[f] = "created" => phase'[f] = "created" /\ args'[f] = args[f]
    BY <1>1, <1>2
  <2> QED BY <1>1, <1>2, <2>1, <2>2 DEF Mapped, asks
<1> QED BY <1>3, <1>4, <1>5, <1>6

\* Tiling, and its failure: the creator writes the key of its arguments, which
\* are still pinned.
LEMMA TilingIndInv ==
    ASSUME IndInv, NEW e \in Executor, Tiling(e) \/ TilingFails(e)
    PROVE  IndInv'
<1> USE DEF IndInv
<1> DEFINE a == args[e]
<1>1. /\ phase[e] = "created"
      /\ key' = [key EXCEPT ![a] = text[e]]
      /\ \/ /\ tiled' = [tiled EXCEPT ![a] = wanted[e]]
            /\ phase' = [phase EXCEPT ![e] = "ready"]
         \/ /\ tiled' = tiled
            /\ phase' = [phase EXCEPT ![e] = "failed"]
      /\ UNCHANGED <<args, asks, isCachedArgs, enableCache, repeatable, alive,
                     isVist, cacheList, argsCache, argsMap, fixedCacheMap, recording>>
  BY DEF Tiling, TilingFails, poolVars
<1>2. Holds(e) /\ a \in Args /\ wanted[e] \in Key /\ text[e] \in Text
  BY <1>1 DEF Holds, Asked, Args, Spelled, TypeOK
<1>3. \A f \in Executor : f # e =>
        /\ phase'[f] = phase[f] /\ (Holds(f)' <=> Holds(f)) /\ (HasTiling(f)' <=> HasTiling(f))
        /\ Holds(f) => args[f] # a
  BY <1>1, <1>2 DEF Holds, HasTiling, TypeOK, Exclusive
<1>4. /\ key'[a] = text[e]
      /\ \A b \in Args : b # a => key'[b] = key[b] /\ tiled'[b] = tiled[b]
      /\ HasTiling(e)' => tiled'[a] = wanted[e]
      /\ Holds(e)' /\ phase'[e] \in {"ready", "failed"}
  BY <1>1, <1>2 DEF TypeOK, HasTiling, Holds
<1>5. TypeOK' /\ Listed' /\ Spelled'
  <2>1. key' \in [Args -> Text \cup {None}] /\ tiled' \in [Args -> Key \cup {None}]
    BY <1>1, <1>2 DEF TypeOK
  <2>2. phase' \in [Executor -> Phases]
    BY <1>1 DEF TypeOK, Phases
  <2>3. TypeOK' /\ Listed'
    BY <1>1, <2>1, <2>2 DEF TypeOK, Listed, Range, asks
  <2>4. PICK p \in {"ready", "failed"} : phase' = [phase EXCEPT ![e] = p]
    BY <1>1
  <2> QED BY <1>1, <2>3, <2>4, SpelledKept DEF TypeOK, Phases
<1>6. HeldAlive' /\ Exclusive'
  BY <1>1, <1>2, <1>3 DEF HeldAlive, Exclusive
<1>7. Asked'
  <2> SUFFICES ASSUME NEW f \in Executor PROVE AskedOf(f)'
    BY DEF Asked, AskedOf
  <2>1. CASE f = e
    <3>1. AskedOf(f)
      BY DEF Asked, AskedOf
    <3> QED BY <1>1, <1>2, <1>4, <2>1, <3>1 DEF AskedOf, Args, asks
  <2>2. CASE f # e
    <3>1. HasTiling(f) => Holds(f)
      BY DEF HasTiling, Holds
    <3>2. phase[f] = "created" => Holds(f)
      BY DEF Holds
    <3>3. Holds(f) => args[f] \in Args /\ args[f] # a
      BY <1>3, <2>2 DEF Asked, Args
    <3> HIDE DEF a
    <3>4. AskedOf(f) /\ UNCHANGED <<args, wanted, text, isCachedArgs>>
      BY <1>1 DEF Asked, AskedOf, asks
    <3> QED BY <1>3, <1>4, <2>2, <3>1, <3>2, <3>3, <3>4 DEF AskedOf, Cut
  <2> QED BY <2>1, <2>2
<1>8. Mapped'
  <2> SUFFICES ASSUME NEW s \in Seeds, NEW b \in argsMap[s]
               PROVE  /\ b \in alive
                      /\ \/ key'[b] \in Text /\ Seed[key'[b]] = s
                         \/ \E f \in Executor :
                               phase'[f] = "created" /\ args'[f] = b /\ Seed[text'[f]] = s
                      /\ ~isVist[b] /\ key'[b] \in Key => tiled'[b] = key'[b]
    BY <1>1 DEF Mapped
  <2>1. b \in alive /\ b \in Heap /\ b \in Args
    BY DEF Mapped, TypeOK, Args
  <2>2. CASE b = a
    <3>1. isVist[b] /\ key[b] = None
      BY <1>1, <1>2, <2>1, <2>2 DEF HeldAlive, Asked
    <3>2. PICK f \in Executor : phase[f] = "created" /\ args[f] = b /\ Seed[text[f]] = s
      BY <3>1, KeyText DEF Mapped
    <3>3. Holds(f)
      BY <3>2 DEF Holds
    <3>4. f = e
      BY <1>3, <2>2, <3>2, <3>3
    <3> QED BY <1>2, <1>4, <2>1, <2>2, <3>1, <3>2, <3>4
  <2>3. CASE b # a
    <3>1. \A f \in Executor : phase[f] = "created" /\ args[f] = b =>
             phase'[f] = "created" /\ args'[f] = b /\ text'[f] = text[f]
      BY <1>1, <1>3, <2>3 DEF asks
    <3>2. key'[b] = key[b] /\ tiled'[b] = tiled[b]
      BY <1>4, <2>1, <2>3
    <3> HIDE DEF a
    <3> QED BY <2>1, <3>1, <3>2 DEF Mapped
  <2> QED BY <2>2, <2>3
<1> QED BY <1>5, <1>6, <1>7, <1>8

\* SetRepeatable: FixCache only takes entries away from the list and the map.
LEMMA FixIndInv ==
    ASSUME IndInv, NEW e \in Executor, SetRepeatable(e)
    PROVE  IndInv'
<1> USE DEF IndInv
<1> DEFINE a == args[e]
           s0 == Seed[key[a]]
<1>1. /\ phase[e] = "ready"
      /\ cacheList' = IF a \in argsMap[s0] /\ a \in argsCache THEN Without(a) ELSE cacheList
      /\ argsMap' = [argsMap EXCEPT ![s0] = @ \ {a}]
      /\ argsCache' = argsCache \ {a}
      /\ fixedCacheMap' = [fixedCacheMap EXCEPT ![s0] = @ \cup {a}]
      /\ repeatable' = [repeatable EXCEPT ![e] = TRUE]
      /\ UNCHANGED <<phase, args, asks, isCachedArgs, enableCache, alive, key, tiled,
                     isVist, recording>>
  BY DEF SetRepeatable, argVars
<1>2. Holds(e) /\ a \in Args
  BY <1>1 DEF Holds, Asked, Args
<1>3. s0 \in Seeds
  BY <1>1 DEF Asked, HasTiling, Seeds, TypeOK
<1> HIDE DEF a, s0
<1>4. cacheList' \in Seq(Args) /\ Listed'
  <2>1. CASE a \in argsCache /\ cacheList' = Without(a)
    BY <1>1, <2>1, WithoutListed DEF TypeOK, Listed, Range
  <2>2. CASE cacheList' = cacheList
    BY <1>1, <2>2 DEF TypeOK, Listed, Range
  <2> QED BY <1>1, <2>1, <2>2
<1>5. TypeOK'
  BY <1>1, <1>2, <1>3, <1>4 DEF TypeOK, asks
<1>6. HeldAlive' /\ Exclusive' /\ Asked' /\ Spelled'
  BY <1>1 DEF HeldAlive, Exclusive, Asked, Spelled, Holds, HasTiling, Cut, asks
<1>7. Mapped'
  <2>1. \A s \in Seeds : argsMap'[s] \subseteq argsMap[s]
    BY <1>1, <1>3 DEF TypeOK
  <2> QED BY <1>1, <2>1 DEF Mapped, asks
<1> QED BY <1>4, <1>5, <1>6, <1>7

\* Reload: nobody holds anything, and argsMap becomes empty.
LEMMA ReloadIndInv == IndInv /\ Reload => IndInv'
<1> SUFFICES ASSUME IndInv, Reload PROVE IndInv'
  OBVIOUS
<1> USE DEF IndInv, Reload
<1>1. TypeOK'
  <2>1. cacheList' \in Seq(Args)
    OBVIOUS
  <2> QED BY <2>1, KeyText DEF TypeOK, Phases, Args
<1>2. \A e \in Executor : ~Holds(e)' /\ ~HasTiling(e)'
  BY DEF Holds, HasTiling
<1>3. HeldAlive' /\ Exclusive'
  BY <1>2 DEF HeldAlive, Exclusive
<1>4. Asked' /\ Spelled'
  BY <1>2 DEF Asked, Spelled
<1>5. Mapped' /\ Listed'
  BY DEF Mapped, Listed
<1> QED BY <1>1, <1>3, <1>4, <1>5

\* Every step preserves the invariant.
LEMMA NextIndInv == IndInv /\ [Next]_vars => IndInv'
<1> SUFFICES ASSUME IndInv, [Next]_vars PROVE IndInv'
  OBVIOUS
<1>1. CASE \E e \in Executor : \E k \in Key, matchArgsV2 \in BOOLEAN :
              GetExecutor(e, k, matchArgsV2)
  <2>1. PICK e \in Executor, k \in Key, matchArgsV2 \in BOOLEAN :
           GetExecutor(e, k, matchArgsV2)
    BY <1>1
  <2>2. PICK p \in {"adding", "open"} : phase' = [phase EXCEPT ![e] = p]
    BY <2>1 DEF GetExecutor
  <2>3. ~isCachedArgs[e] /\ phase[e] = "idle"
    BY <2>1 DEF GetExecutor, IndInv, Asked
  <2>4. ~Holds(e)' /\ ~HasTiling(e)'
    BY <2>1, <2>2, <2>3 DEF GetExecutor, Holds, HasTiling, IndInv, TypeOK
  <2>5. /\ Spelled'
        /\ wanted' \in [Executor -> Key \cup {None}] /\ text' \in [Executor -> Text]
        /\ added' \in [Executor -> 0 .. PartNum - 1]
    BY <2>1, GetSpelled DEF IndInv
  <2>6. /\ \A f \in Executor : f # e => wanted'[f] = wanted[f] /\ text'[f] = text[f]
        /\ enableCache' \in [Executor -> BOOLEAN]
        /\ UNCHANGED <<args, isCachedArgs, repeatable, argVars, poolVars, recording>>
    BY <2>1 DEF GetExecutor, IndInv, TypeOK
  <2>7. p \in Phases
    BY DEF Phases
  <2> QED BY <2>2, <2>3, <2>4, <2>5, <2>6, <2>7, QuietIndInv
<1>13. CASE \E e \in Executor : AddPart(e) \/ SealKey(e) \/ BypassCache(e)
  <2>1. PICK e \in Executor : AddPart(e) \/ SealKey(e) \/ BypassCache(e)
    BY <1>13
  <2>2. /\ phase[e] = "adding" /\ ~isCachedArgs[e]
        /\ UNCHANGED <<args, wanted, isCachedArgs, repeatable, argVars, poolVars, recording>>
        /\ enableCache' \in [Executor -> BOOLEAN]
    BY <2>1 DEF AddPart, SealKey, BypassCache, IndInv, TypeOK, Asked
  <2>3. PICK p \in {"adding", "sealed", "bypassed"} : phase' = [phase EXCEPT ![e] = p]
    BY <2>1, <2>2 DEF AddPart, SealKey, BypassCache, IndInv, TypeOK
  <2>4. ~Holds(e)' /\ ~HasTiling(e)'
    BY <2>2, <2>3 DEF Holds, HasTiling, IndInv, TypeOK
  <2>5. /\ Spelled' /\ text' \in [Executor -> Text]
        /\ added' \in [Executor -> 0 .. PartNum - 1]
    <3>1. CASE AddPart(e)
      BY <3>1, AddSpelled DEF IndInv
    <3>2. CASE SealKey(e)
      BY <3>2, SealSpelled DEF IndInv
    <3>3. CASE BypassCache(e)
      <4>1. text' = text
        BY <3>3 DEF BypassCache
      <4> QED BY <3>3, <4>1, BypassSpelled DEF IndInv, TypeOK
    <3> QED BY <2>1, <3>1, <3>2, <3>3
  <2>6. \A f \in Executor : f # e => text'[f] = text[f]
    BY <2>1 DEF AddPart, SealKey, BypassCache, IndInv, TypeOK
  <2>7. p \in Phases /\ wanted' \in [Executor -> Key \cup {None}]
    BY <2>2 DEF Phases, IndInv, TypeOK
  <2> QED BY <2>2, <2>3, <2>4, <2>5, <2>6, <2>7, QuietIndInv
<1>2. CASE \E e \in Executor : \E a \in Heap : EarlyMatch(e, a) \/ LateMatch(e, a)
  <2>1. PICK e \in Executor, a \in Heap : EarlyMatch(e, a) \/ LateMatch(e, a)
    BY <1>2
  <2>2. /\ phase[e] \in {"sealed", "open"} /\ ~isCachedArgs[e] /\ MatchArgs(e, a)
        /\ \E p \in {"ready", "open"} : phase' = [phase EXCEPT ![e] = p]
    BY <2>1 DEF EarlyMatch, LateMatch, IndInv, Asked
  <2> QED BY <2>2, MatchIndInv
<1>3. CASE \E e \in Executor : \E a \in Heap : CreateArgs(e, a)
  BY <1>3, CreateIndInv
<1>4. CASE \E e \in Executor : EarlyMiss(e) \/ KeepMatch(e) \/ LateMiss(e)
  <2>1. PICK e \in Executor : EarlyMiss(e) \/ KeepMatch(e) \/ LateMiss(e)
    BY <1>4
  <2>2. /\ phase[e] \in {"sealed", "bypassed", "open"}
        /\ UNCHANGED <<args, asks, isCachedArgs, repeatable, argVars, poolVars, recording>>
        /\ enableCache' \in [Executor -> BOOLEAN]
    BY <2>1 DEF EarlyMiss, KeepMatch, LateMiss, MissArgs, IndInv, TypeOK
  <2>3. PICK p \in {"open", "ready", "missed"} :
           /\ phase' = [phase EXCEPT ![e] = p]
           /\ p = "ready" => isCachedArgs[e] /\ phase[e] = "open"
    BY <2>1, <2>2 DEF EarlyMiss, KeepMatch, LateMiss, IndInv, TypeOK
  <2>4. (Holds(e)' => Holds(e)) /\ (HasTiling(e)' => HasTiling(e))
    BY <2>2, <2>3 DEF Holds, HasTiling, IndInv, TypeOK, Asked
  <2>5. /\ wanted' \in [Executor -> Key \cup {None}] /\ text' \in [Executor -> Text]
        /\ added' \in [Executor -> 0 .. PartNum - 1] /\ p \in Phases
        /\ UNCHANGED <<wanted, text>>
    BY <2>2 DEF IndInv, TypeOK, Phases, asks
  <2>6. Spelled'
    BY <2>2, <2>3, <2>5, SpelledKept DEF IndInv, TypeOK
  <2> QED BY <2>2, <2>3, <2>4, <2>5, <2>6, QuietIndInv
<1>5. CASE \E e \in Executor : UseOwnArgs(e)
  BY <1>5, OwnIndInv
<1>6. CASE \E e \in Executor : Tiling(e) \/ TilingFails(e)
  BY <1>6, TilingIndInv
<1>7. CASE \E e \in Executor : SetRepeatable(e)
  BY <1>7, FixIndInv
<1>8. CASE \E e \in Executor : RunWithWorkspace(e) \/ ResetExecutor(e)
  <2>1. PICK e \in Executor : RunWithWorkspace(e) \/ ResetExecutor(e)
    BY <1>8
  <2>2. /\ phase[e] = "ready"
        /\ UNCHANGED <<args, asks, isCachedArgs, enableCache, repeatable, argVars,
                       poolVars, recording>>
    BY <2>1 DEF RunWithWorkspace, ResetExecutor
  <2>3. PICK p \in {"ready", "clearing"} : phase' = [phase EXCEPT ![e] = p]
    BY <2>1 DEF RunWithWorkspace, ResetExecutor
  <2>4. Holds(e) /\ HasTiling(e)
    BY <2>2 DEF Holds, HasTiling
  <2>5. /\ wanted' \in [Executor -> Key \cup {None}] /\ text' \in [Executor -> Text]
        /\ added' \in [Executor -> 0 .. PartNum - 1] /\ p \in Phases
        /\ UNCHANGED <<wanted, text>> /\ enableCache' \in [Executor -> BOOLEAN]
    BY <2>2 DEF IndInv, TypeOK, Phases, asks
  <2>6. Spelled'
    BY <2>2, <2>3, <2>5, SpelledKept DEF IndInv, TypeOK
  <2> QED BY <2>2, <2>3, <2>4, <2>5, <2>6, QuietIndInv
<1>9. CASE \E e \in Executor : ReleaseArgs(e)
  BY <1>9, ReleaseIndInv
<1>10. CASE \E e \in Executor : ClearDone(e)
  <2>1. PICK e \in Executor : ClearDone(e)
    BY <1>10
  <2>2. /\ phase[e] = "released" /\ phase' = [phase EXCEPT ![e] = "idle"]
        /\ UNCHANGED <<args, asks, isCachedArgs, enableCache, repeatable, argVars,
                       poolVars, recording>>
    BY <2>1 DEF ClearDone
  <2>3. ~Holds(e)' /\ ~HasTiling(e)' /\ ~isCachedArgs[e]
    BY <2>2 DEF Holds, HasTiling, IndInv, TypeOK, Asked
  <2>4. /\ wanted' \in [Executor -> Key \cup {None}] /\ text' \in [Executor -> Text]
        /\ added' \in [Executor -> 0 .. PartNum - 1] /\ "idle" \in Phases
        /\ UNCHANGED <<wanted, text>> /\ enableCache' \in [Executor -> BOOLEAN]
    BY <2>2 DEF IndInv, TypeOK, Phases, asks
  <2>5. Spelled'
    BY <2>2, <2>4, SpelledKept DEF IndInv, TypeOK
  <2> QED BY <2>2, <2>3, <2>4, <2>5, QuietIndInv
<1>11. CASE Reload
  BY <1>11, ReloadIndInv
<1>12. CASE SwitchRecording \/ UNCHANGED vars
  <2>1. UNCHANGED <<execVars, argVars, poolVars>> /\ recording' \in BOOLEAN
    BY <1>12 DEF SwitchRecording, vars, IndInv, TypeOK
  <2> QED BY <2>1 DEF execVars, argVars, poolVars, IndInv, TypeOK, HeldAlive, Exclusive,
             Asked, Spelled, Mapped, Listed, Holds, HasTiling, Range, Cut, asks
<1> QED BY <1>1, <1>2, <1>3, <1>4, <1>5, <1>6, <1>7, <1>8, <1>9, <1>10, <1>11, <1>12, <1>13
        DEF Next

\* The invariant holds in every reachable state.
THEOREM ArgsPoolInvariance == Spec => []IndInv
BY InitIndInv, NextIndInv, PTL DEF Spec

\* What an executor works with is allocated, pinned, and no other executor's,
\* for every number of executors and every cache limit (ArgsPool::Put,
\* ArgsPool::IsArgsMatch).
THEOREM ArgsHeldExclusively == Spec => [](HeldAlive /\ Exclusive)
<1>1. IndInv => HeldAlive /\ Exclusive
  BY DEF IndInv
<1> QED BY <1>1, ArgsPoolInvariance, PTL

\* Every launch uses the binary and the tiling of its own key, whatever the
\* hash function and however addresses are reused, unless its own key lacks a
\* part because the switch was turned while it was written (NnopbaseAddInput,
\* NnopbaseMatchArgs); what is filed under such a key reaches no other call.
THEOREM LaunchesOwnTiling == Spec => []TiledForKey
<1>1. IndInv => TiledForKey
  BY DEF IndInv, Asked, HasTiling, TiledForKey, Holds
<1> QED BY <1>1, ArgsPoolInvariance, PTL
-----------------------------------------------------------------------------
(* The LRU list, entry by entry.                                           *)

\* No entry is in the list twice.
NoRepeat(l) == \A i, j \in DOMAIN l : i # j => l[i] # l[j]

\* Put takes the entries it erases out of list and index alike.
LEMMA PutRange ==
    ASSUME cacheList \in Seq(Args), NoRepeat(cacheList), argsCache = Range(cacheList),
           NEW a \in Args, a \notin argsCache, Put(a)
    PROVE  /\ argsCache' = Range(cacheList') /\ NoRepeat(cacheList')
           /\ argsCache' = (argsCache \ Erased) \cup {a} /\ Erased \subseteq argsCache
<1>1. PICK n, m : n = StopAt /\ m = Len(cacheList)
  OBVIOUS
<1>2. m \in Nat /\ n \in 0 .. m
  BY <1>1, StopAtFound
<1>3. PICK front : front = SubSeq(cacheList, 1, n)
  OBVIOUS
<1>4. front \in Seq(Args) /\ Len(front) = n /\ \A i \in 1 .. n : front[i] = cacheList[i]
  BY <1>1, <1>2, <1>3
<1>5. cacheList' = <<a>> \o front /\ argsCache' = (argsCache \ Erased) \cup {a}
  BY <1>1, <1>3 DEF Put
<1>6. PICK back : back = SubSeq(cacheList, n + 1, m)
  OBVIOUS
<1>7. back \in Seq(Args) /\ Len(back) = m - n /\ \A i \in 1 .. m - n : back[i] = cacheList[n + i]
  BY <1>1, <1>2, <1>6
<1>8. \A b : b \in Erased <=> \E i \in n + 1 .. m : cacheList[i] = b
  <2>1. Erased = Range(back)
    BY <1>1, <1>6 DEF Erased
  <2>2. \A b : b \in Erased <=> \E i \in 1 .. m - n : cacheList[n + i] = b
    <3>1. \A b : b \in Range(back) <=> \E i \in 1 .. Len(back) : back[i] = b
      BY <1>7, RangeOfList
    <3>2. \A b : b \in Erased <=> \E i \in 1 .. m - n : back[i] = b
      BY <1>7, <2>1, <3>1
    <3> QED BY <1>7, <3>2
  <2>3. \A i \in n + 1 .. m : i - n \in 1 .. m - n /\ n + (i - n) = i
    BY <1>2
  <2>4. \A i \in 1 .. m - n : n + i \in n + 1 .. m
    BY <1>2
  <2> QED BY <2>2, <2>3, <2>4
<1>9. \A b : b \in argsCache <=> \E i \in 1 .. m : cacheList[i] = b
  BY <1>1, RangeOfList
<1>10. /\ cacheList' \in Seq(Args) /\ Len(cacheList') = n + 1 /\ cacheList'[1] = a
       /\ \A i \in 1 .. n : cacheList'[i + 1] = cacheList[i]
  BY <1>2, <1>4, <1>5
<1>11. \A b : b \in Range(cacheList') <=> b = a \/ \E i \in 1 .. n : cacheList[i] = b
  <2>1. \A b : b \in Range(cacheList') <=> \E i \in 1 .. n + 1 : cacheList'[i] = b
    BY <1>10, RangeOfList
  <2>2. \A i \in 1 .. n + 1 : i = 1 \/ (i - 1 \in 1 .. n /\ cacheList'[i] = cacheList[i - 1])
    BY <1>2, <1>10
  <2>3. 1 \in 1 .. n + 1 /\ \A i \in 1 .. n : i + 1 \in 1 .. n + 1
    BY <1>2
  <2> QED BY <1>10, <2>1, <2>2, <2>3
<1>12. \A i, j \in 1 .. m : i # j => cacheList[i] # cacheList[j]
  BY <1>1 DEF NoRepeat
<1>13. \A b : (\E i \in 1 .. n : cacheList[i] = b) <=> b \in argsCache /\ b \notin Erased
  <2>1. \A i \in 1 .. m : i \in 1 .. n \/ i \in n + 1 .. m
    BY <1>2
  <2>2. \A i \in 1 .. n : i \in 1 .. m /\ i \notin n + 1 .. m
    BY <1>2
  <2>3. \A i \in n + 1 .. m : i \in 1 .. m
    BY <1>2
  <2> QED BY <1>8, <1>9, <1>12, <2>1, <2>2, <2>3
<1>14. argsCache' = Range(cacheList')
  BY <1>5, <1>11, <1>13
<1>15. NoRepeat(cacheList')
  <2> SUFFICES ASSUME NEW i \in 1 .. n + 1, NEW j \in 1 .. n + 1, i < j
               PROVE  cacheList'[i] # cacheList'[j]
    BY <1>2, <1>10 DEF NoRepeat
  <2>1. j - 1 \in 1 .. n /\ cacheList'[j] = cacheList[j - 1] /\ j - 1 \in 1 .. m
    BY <1>2, <1>10
  <2>2. CASE i = 1
    BY <1>9, <1>10, <2>1, <2>2
  <2>3. CASE i # 1
    <3>1. i - 1 \in 1 .. m /\ cacheList'[i] = cacheList[i - 1] /\ i - 1 # j - 1
      BY <1>2, <1>10, <2>3
    <3> QED BY <1>12, <2>1, <3>1
  <2> QED BY <2>2, <2>3
<1>16. Erased \subseteq argsCache
  BY <1>2, <1>8, <1>9
<1> QED BY <1>5, <1>14, <1>15, <1>16

\* Erasing at the position of an entry takes that entry out of the list.
LEMMA WithoutRange ==
    ASSUME cacheList \in Seq(Args), NoRepeat(cacheList), NEW a \in Range(cacheList)
    PROVE  /\ Without(a) \in Seq(Args) /\ NoRepeat(Without(a))
           /\ Range(Without(a)) = Range(cacheList) \ {a}
<1>1. PICK p, m : p = Position(a) /\ m = Len(cacheList)
  OBVIOUS
<1>2. m \in Nat /\ p \in 1 .. m /\ cacheList[p] = a
  <2>1. \E i \in DOMAIN cacheList : cacheList[i] = a
    BY DEF Range
  <2> QED BY <1>1, <2>1 DEF Position
<1>3. PICK l, r : l = SubSeq(cacheList, 1, p - 1) /\ r = SubSeq(cacheList, p + 1, m)
  OBVIOUS
<1>4. l \in Seq(Args) /\ Len(l) = p - 1 /\ \A i \in 1 .. p - 1 : l[i] = cacheList[i]
  BY <1>1, <1>2, <1>3
<1>5. r \in Seq(Args) /\ Len(r) = m - p /\ \A i \in 1 .. m - p : r[i] = cacheList[p + i]
  BY <1>1, <1>2, <1>3
<1>6. Without(a) = l \o r
  BY <1>1, <1>3 DEF Without
<1>7. PICK w : w = Without(a)
  OBVIOUS
<1>8. w \in Seq(Args) /\ Len(w) = m - 1
  <2>1. l \o r \in Seq(Args) /\ Len(l \o r) = Len(l) + Len(r)
    BY <1>4, <1>5, JoinPlaces
  <2>2. Len(l) + Len(r) = m - 1
    BY <1>2, <1>4, <1>5
  <2> QED BY <1>6, <1>7, <2>1, <2>2
<1>9. \A i \in 1 .. m - 1 : w[i] = IF i < p THEN cacheList[i] ELSE cacheList[i + 1]
  <2> TAKE i \in 1 .. m - 1
  <2>1. CASE i < p
    <3>1. i \in 1 .. Len(l) /\ i \in 1 .. p - 1
      BY <1>2, <1>4, <2>1
    <3>2. (l \o r)[i] = l[i]
      BY <1>4, <1>5, <3>1, JoinPlaces
    <3> QED BY <1>4, <1>6, <1>7, <2>1, <3>1, <3>2
  <2>2. CASE ~ (i < p)
    <3>1. PICK k \in 1 .. m - p : k = i - (p - 1)
      BY <1>2, <2>2
    <3>2. (l \o r)[Len(l) + k] = r[k]
      BY <1>4, <1>5, <3>1, JoinPlaces
    <3>3. Len(l) + k = i /\ p + k = i + 1
      BY <1>2, <1>4, <3>1
    <3>4. r[k] = cacheList[p + k]
      BY <1>5
    <3> QED BY <1>6, <1>7, <2>2, <3>2, <3>3, <3>4
  <2> QED BY <2>1, <2>2
<1>10. \A i, j \in 1 .. m : i # j => cacheList[i] # cacheList[j]
  BY <1>1 DEF NoRepeat
<1>11. PICK f : f = [i \in 1 .. m - 1 |-> IF i < p THEN i ELSE i + 1]
  OBVIOUS
<1>12. /\ \A i \in 1 .. m - 1 : f[i] \in 1 .. m /\ f[i] # p /\ w[i] = cacheList[f[i]]
       /\ \A i, j \in 1 .. m - 1 : i # j => f[i] # f[j]
       /\ \A k \in 1 .. m : k # p => \E i \in 1 .. m - 1 : f[i] = k
  <2>1. \A i \in 1 .. m - 1 : f[i] = IF i < p THEN i ELSE i + 1
    BY <1>11
  <2>2. \A i \in 1 .. m - 1 : f[i] \in 1 .. m /\ f[i] # p
    BY <1>2, <2>1
  <2>3. \A i, j \in 1 .. m - 1 : i # j => f[i] # f[j]
    BY <1>2, <2>1
  <2>4. \A k \in 1 .. m : k < p => k \in 1 .. m - 1 /\ f[k] = k
    BY <1>2, <2>1
  <2>5. \A k \in 1 .. m : k > p => k - 1 \in 1 .. m - 1 /\ f[k - 1] = k
    BY <1>2, <2>1
  <2>6. \A k \in 1 .. m : k < p \/ k = p \/ k > p
    BY <1>2
  <2> QED BY <1>9, <2>1, <2>2, <2>3, <2>4, <2>5, <2>6
<1>13. NoRepeat(w)
  <2>1. DOMAIN w = 1 .. m - 1
    BY <1>8
  <2> SUFFICES ASSUME NEW i \in 1 .. m - 1, NEW j \in 1 .. m - 1, i # j
               PROVE  w[i] # w[j]
    BY <2>1 DEF NoRepeat
  <2>2. f[i] \in 1 .. m /\ f[j] \in 1 .. m /\ f[i] # f[j]
    BY <1>12
  <2>3. w[i] = cacheList[f[i]] /\ w[j] = cacheList[f[j]]
    BY <1>12
  <2> QED BY <1>10, <2>2, <2>3
<1>14. Range(w) = Range(cacheList) \ {a}
  <2>1. \A b : b \in Range(w) <=> \E i \in 1 .. m - 1 : w[i] = b
    BY <1>8, RangeOfList
  <2>2. \A b : b \in Range(cacheList) <=> \E i \in 1 .. m : cacheList[i] = b
    BY <1>1, RangeOfList
  <2>3. ASSUME NEW b \in Range(w) PROVE b \in Range(cacheList) /\ b # a
    <3>1. PICK i \in 1 .. m - 1 : w[i] = b
      BY <2>1
    <3>2. f[i] \in 1 .. m /\ f[i] # p /\ b = cacheList[f[i]]
      BY <1>12, <3>1
    <3> QED BY <1>2, <1>10, <2>2, <3>2
  <2>4. ASSUME NEW b \in Range(cacheList), b # a PROVE b \in Range(w)
    <3>1. PICK k \in 1 .. m : cacheList[k] = b
      BY <2>2
    <3>2. PICK i \in 1 .. m - 1 : f[i] = k
      BY <1>2, <1>12, <2>4, <3>1
    <3> QED BY <1>12, <2>1, <3>1, <3>2
  <2> QED BY <2>3, <2>4
<1> QED BY <1>7, <1>8, <1>13, <1>14

\* A match changes the order of the list only.
LEMMA MoveToFrontRange ==
    ASSUME cacheList \in Seq(Args), NoRepeat(cacheList), argsCache = Range(cacheList),
           NEW a \in Args
    PROVE  NoRepeat(MoveToFront(a)) /\ Range(MoveToFront(a)) = argsCache
<1>1. CASE a \notin argsCache
  BY <1>1 DEF MoveToFront
<1>2. CASE a \in argsCache
  <2>1. PICK w : w = Without(a)
    OBVIOUS
  <2>2. w \in Seq(Args) /\ NoRepeat(w) /\ Range(w) = argsCache \ {a}
    BY <1>2, <2>1, WithoutRange
  <2>3. PICK l : l = <<a>> \o w
    OBVIOUS
  <2>4. MoveToFront(a) = l
    BY <1>2, <2>1, <2>3 DEF MoveToFront
  <2>5. /\ l \in Seq(Args) /\ Len(w) \in Nat /\ Len(l) = Len(w) + 1 /\ l[1] = a
        /\ \A i \in 1 .. Len(w) : l[i + 1] = w[i]
    BY <2>2, <2>3
  <2>6. \A b : b \in Range(w) <=> \E i \in 1 .. Len(w) : w[i] = b
    BY <2>2, RangeOfList
  <2>7. \A b : b \in Range(l) <=> \E i \in 1 .. Len(w) + 1 : l[i] = b
    <3>1. \A b : b \in Range(l) <=> \E i \in 1 .. Len(l) : l[i] = b
      BY <2>5, RangeOfList
    <3> QED BY <2>5, <3>1
  <2>8. \A i \in 1 .. Len(w) + 1 : i = 1 \/ (i - 1 \in 1 .. Len(w) /\ l[i] = w[i - 1])
    BY <2>5
  <2>9. 1 \in 1 .. Len(w) + 1 /\ \A i \in 1 .. Len(w) : i + 1 \in 1 .. Len(w) + 1
    BY <2>5
  <2>10. Range(l) = argsCache
    <3>1. ASSUME NEW b \in Range(l) PROVE b \in argsCache
      <4>1. PICK i \in 1 .. Len(w) + 1 : l[i] = b
        BY <2>7
      <4> QED BY <1>2, <2>2, <2>5, <2>6, <2>8, <4>1
    <3>2. ASSUME NEW b \in argsCache PROVE b \in Range(l)
      <4>1. CASE b = a
        BY <2>5, <2>7, <2>9, <4>1
      <4>2. CASE b # a
        <5>1. PICK i \in 1 .. Len(w) : w[i] = b
          BY <2>2, <2>6, <4>2
        <5> QED BY <2>5, <2>7, <2>9, <5>1
      <4> QED BY <4>1, <4>2
    <3> QED BY <3>1, <3>2
  <2>11. NoRepeat(l)
    <3> SUFFICES ASSUME NEW i \in 1 .. Len(w) + 1, NEW j \in 1 .. Len(w) + 1, i < j
                 PROVE  l[i] # l[j]
      BY <2>5 DEF NoRepeat
    <3>1. j - 1 \in 1 .. Len(w) /\ l[j] = w[j - 1]
      BY <2>5, <2>8
    <3>2. CASE i = 1
      BY <2>2, <2>5, <2>6, <3>1, <3>2
    <3>3. CASE i # 1
      <4>1. i - 1 \in 1 .. Len(w) /\ l[i] = w[i - 1] /\ i - 1 # j - 1
        BY <2>5, <2>8, <3>3
      <4>2. DOMAIN w = 1 .. Len(w)
        BY <2>2
      <4> QED BY <2>2, <3>1, <4>1, <4>2 DEF NoRepeat
    <3> QED BY <3>2, <3>3
  <2> QED BY <2>4, <2>10, <2>11
<1> QED BY <1>1, <1>2
-----------------------------------------------------------------------------
(* The four containers of the pool.                                        *)

\* The steps of a match.
LEMMA MatchTidy ==
    ASSUME IndInv, Tidy, NEW e \in Executor, NEW a \in Heap,
           phase[e] \in {"sealed", "open"}, ~isCachedArgs[e], MatchArgs(e, a),
           NEW p \in {"ready", "open"}, phase' = [phase EXCEPT ![e] = p]
    PROVE  Tidy'
<1> USE DEF IndInv, Tidy
<1>1. /\ a \in argsMap[Seed[text[e]]]
      /\ args' = [args EXCEPT ![e] = a]
      /\ isCachedArgs' = [isCachedArgs EXCEPT ![e] = TRUE]
      /\ cacheList' = MoveToFront(a)
      /\ UNCHANGED <<asks, alive, key, argsCache, argsMap, fixedCacheMap>>
  BY DEF MatchArgs
<1>2. NoRepeat(cacheList) /\ argsCache = Range(cacheList) /\ a \in Args
  BY DEF Consistent, NoRepeat, Args
<1>3. NoRepeat(cacheList') /\ argsCache = Range(cacheList')
  BY <1>1, <1>2, MoveToFrontRange DEF TypeOK
<1>4. Consistent'
  BY <1>1, <1>3 DEF Consistent, NoRepeat
<1>5. Fixed'
  BY <1>1 DEF Fixed
<1>6. \A f \in Executor : f # e => (Holds(f)' <=> Holds(f)) /\ args'[f] = args[f]
  BY <1>1 DEF Holds, TypeOK
<1>7. args'[e] = a
  BY <1>1 DEF TypeOK
<1>8. HeldMapped'
  BY <1>1, <1>6, <1>7 DEF HeldMapped, asks
<1> QED BY <1>4, <1>5, <1>8

\* What Put erases is in no argsMap any more: it was filed under the seed of
\* its key.
LEMMA UnmappedErased ==
    ASSUME IndInv, NEW s \in Seeds
    PROVE  Unmapped(s) = argsMap[s] \ Erased
<1> USE DEF IndInv
<1>1. \A b \in Erased : ~isVist[b]
  BY ErasedUnpinned DEF TypeOK
<1>2. ASSUME NEW b \in argsMap[s], b \in Erased PROVE key[b] \in Text /\ Seed[key[b]] = s
  <2>1. ~isVist[b] /\ b \in Heap
    BY <1>1, <1>2 DEF TypeOK
  <2>2. \A f \in Executor : phase[f] = "created" => args[f] # b
    BY <2>1 DEF HeldAlive, Holds
  <2> QED BY <2>2 DEF Mapped
<1> QED BY <1>2 DEF Unmapped

\* CreateArgs files the new arguments in list, index and map.
LEMMA CreateTidy ==
    ASSUME IndInv, Tidy, NEW e \in Executor, NEW a \in Heap, CreateArgs(e, a)
    PROVE  Tidy'
<1> USE DEF IndInv, Tidy
<1>1. /\ phase[e] = "missed" /\ a \notin alive /\ Put(a)
      /\ alive' = (alive \ Erased) \cup {a}
      /\ argsMap' = Filed(e, a)
      /\ key' = [key EXCEPT ![a] = None]
      /\ args' = [args EXCEPT ![e] = a]
      /\ phase' = [phase EXCEPT ![e] = "created"]
      /\ UNCHANGED <<asks, isCachedArgs, fixedCacheMap>>
  BY DEF CreateArgs
<1>2. /\ NoRepeat(cacheList) /\ argsCache = Range(cacheList) /\ a \in Args
      /\ a \notin argsCache
  BY <1>1 DEF Consistent, NoRepeat, Args
<1>3. /\ argsCache' = Range(cacheList') /\ NoRepeat(cacheList')
      /\ argsCache' = (argsCache \ Erased) \cup {a} /\ Erased \subseteq argsCache
  BY <1>1, <1>2, PutRange DEF TypeOK
<1>4. text[e] \in Text /\ Seed[text[e]] \in Seeds
  BY <1>1 DEF IndInv, TypeOK, Seeds
<1>5. \A s \in Seeds : argsMap'[s] = IF s = Seed[text[e]] THEN (argsMap[s] \ Erased) \cup {a}
                                     ELSE argsMap[s] \ Erased
  BY <1>1, UnmappedErased DEF Filed
<1>6. \A s \in Seeds : fixedCacheMap[s] \subseteq alive /\ fixedCacheMap[s] \cap argsCache = {}
  BY DEF Fixed, Consistent
<1>7. Consistent'
  <2>1. \A s \in Seeds : argsMap[s] \subseteq argsCache /\ argsMap[s] \subseteq alive
    BY DEF Consistent
  <2>2. argsCache \subseteq alive
    BY DEF Consistent
  <2>3. \A s \in Seeds : argsMap'[s] \subseteq argsCache' /\ argsMap'[s] \subseteq alive'
    <3> TAKE s \in Seeds
    <3>1. argsMap'[s] \subseteq (argsMap[s] \ Erased) \cup {a}
      BY <1>5
    <3> QED BY <1>1, <1>3, <2>1, <3>1
  <2>4. argsCache' \subseteq alive'
    BY <1>1, <1>3, <2>2
  <2>5. \A s \in Seeds : fixedCacheMap'[s] \cap argsCache' = {}
    BY <1>1, <1>3, <1>6
  <2> QED BY <1>3, <2>3, <2>4, <2>5 DEF Consistent, NoRepeat
<1>8. Fixed'
  <2> SUFFICES ASSUME NEW s \in Seeds, NEW b \in fixedCacheMap[s]
               PROVE  b \in alive' /\ key'[b] \in Text /\ Seed[key'[b]] = s
    BY <1>1 DEF Fixed
  <2>1. b \in alive /\ b \notin argsCache /\ b # a /\ b \in Args
    BY <1>1, <1>6 DEF TypeOK
  <2>2. key'[b] = key[b]
    BY <1>1, <2>1 DEF TypeOK
  <2> QED BY <1>1, <1>3, <2>1, <2>2 DEF Fixed
<1>9. HeldMapped'
  <2> SUFFICES ASSUME NEW f \in Executor, Holds(f)', args'[f] \in argsCache'
               PROVE  args'[f] \in argsMap'[Seed[text[f]]]
    BY <1>1 DEF HeldMapped, asks
  <2>1. CASE f = e
    BY <1>1, <1>4, <1>5, <2>1 DEF TypeOK
  <2>2. CASE f # e
    <3>1. Holds(f) /\ args'[f] = args[f]
      BY <1>1, <2>2 DEF Holds, TypeOK
    <3>2. args[f] # a
      BY <1>1, <3>1 DEF HeldAlive
    <3>3. args[f] \in argsCache /\ args[f] \notin Erased
      BY <1>3, <3>1, <3>2
    <3>4. args[f] \in argsMap[Seed[text[f]]]
      BY <3>1, <3>3 DEF HeldMapped
    <3>5. Seed[text[f]] \in Seeds
      BY <3>1 DEF TypeOK, Seeds
    <3> QED BY <1>5, <3>1, <3>3, <3>4, <3>5
  <2> QED BY <2>1, <2>2
<1> QED BY <1>7, <1>8, <1>9

\* ReleaseFixedCache puts fixed arguments back into list and index.
LEMMA ReleaseTidy ==
    ASSUME IndInv, Tidy, NEW e \in Executor, ReleaseArgs(e)
    PROVE  Tidy'
<1> USE DEF IndInv, Tidy
<1>1. PICK a, s0 : a = args[e] /\ s0 = Seed[key[a]]
  OBVIOUS
<1>2. /\ phase[e] = "clearing"
      /\ isCachedArgs' = [isCachedArgs EXCEPT ![e] = FALSE]
      /\ phase' = [phase EXCEPT ![e] = "released"]
      /\ UNCHANGED <<args, asks, key>>
  BY DEF ReleaseArgs
<1>3. \A f \in Executor : Holds(f)' => Holds(f) /\ f # e
  BY <1>2 DEF Holds, TypeOK
<1>4. Holds(e) /\ HasTiling(e) /\ key[a] \in Text /\ s0 \in Seeds
  BY <1>1, <1>2 DEF Holds, HasTiling, Asked, Seeds, TypeOK
<1>5. CASE a \notin fixedCacheMap[s0]
  <2>1. UNCHANGED <<cacheList, argsCache, argsMap, fixedCacheMap, alive>>
    BY <1>1, <1>5 DEF ReleaseArgs, poolVars
  <2>2. Consistent' /\ Fixed'
    BY <1>2, <2>1 DEF Consistent, Fixed
  <2>3. HeldMapped'
    BY <1>2, <1>3, <2>1 DEF HeldMapped, asks
  <2> QED BY <2>2, <2>3
<1>6. CASE a \in fixedCacheMap[s0]
  <2>1. /\ Put(a)
        /\ alive' = alive \ Erased
        /\ argsMap' = [t \in Seeds |-> Unmapped(t)]
        /\ fixedCacheMap' = [fixedCacheMap EXCEPT ![s0] = @ \ {a}]
    BY <1>1, <1>6 DEF ReleaseArgs
  <2>2. \A s \in Seeds : /\ fixedCacheMap[s] \subseteq alive
                         /\ fixedCacheMap[s] \cap argsCache = {}
                         /\ \A b \in fixedCacheMap[s] : Seed[key[b]] = s
    BY DEF Fixed, Consistent
  <2>3. a \in alive /\ a \in Args /\ a \notin argsCache
    BY <1>4, <1>6, <2>2 DEF TypeOK, Args
  <2>4. NoRepeat(cacheList) /\ argsCache = Range(cacheList)
    BY DEF Consistent, NoRepeat
  <2>5. /\ argsCache' = Range(cacheList') /\ NoRepeat(cacheList')
        /\ argsCache' = (argsCache \ Erased) \cup {a} /\ Erased \subseteq argsCache
    BY <2>1, <2>3, <2>4, PutRange DEF TypeOK
  <2>6. \A s \in Seeds : argsMap'[s] = argsMap[s] \ Erased
    BY <2>1, UnmappedErased
  <2>7. \A s \in Seeds : fixedCacheMap'[s] = fixedCacheMap[s] \ {a}
    <3> TAKE s \in Seeds
    <3>1. CASE s = s0
      BY <1>4, <2>1, <3>1 DEF TypeOK
    <3>2. CASE s # s0
      <4>1. a \notin fixedCacheMap[s]
        BY <1>1, <2>2, <3>2
      <4>2. fixedCacheMap'[s] = fixedCacheMap[s]
        BY <2>1, <3>2 DEF TypeOK
      <4> QED BY <4>1, <4>2
    <3> QED BY <3>1, <3>2
  <2>8. Consistent'
    <3>1. \A s \in Seeds : argsMap[s] \subseteq argsCache /\ argsMap[s] \subseteq alive
      BY DEF Consistent
    <3>2. argsCache \subseteq alive
      BY DEF Consistent
    <3>3. \A s \in Seeds : argsMap'[s] \subseteq argsCache' /\ argsMap'[s] \subseteq alive'
      BY <2>1, <2>5, <2>6, <3>1
    <3>4. argsCache' \subseteq alive'
      BY <2>1, <2>3, <2>5, <3>2
    <3>5. \A s \in Seeds : fixedCacheMap'[s] \cap argsCache' = {}
      BY <2>2, <2>5, <2>7
    <3> QED BY <2>5, <3>3, <3>4, <3>5 DEF Consistent, NoRepeat
  <2>9. Fixed'
    <3> SUFFICES ASSUME NEW s \in Seeds, NEW b \in fixedCacheMap[s], b # a
                 PROVE  b \in alive' /\ key[b] \in Text /\ Seed[key[b]] = s
      BY <1>2, <2>7 DEF Fixed
    <3>1. b \in alive /\ b \notin argsCache
      BY <2>2
    <3> QED BY <2>1, <2>5, <3>1 DEF Fixed
  <2>10. HeldMapped'
    <3> SUFFICES ASSUME NEW f \in Executor, Holds(f)', args[f] \in argsCache'
                 PROVE  args[f] \in argsMap'[Seed[text[f]]]
      BY <1>2 DEF HeldMapped, asks
    <3>1. Holds(f) /\ f # e
      BY <1>3
    <3>2. args[f] # a
      BY <1>1, <1>4, <3>1 DEF Exclusive
    <3>3. args[f] \in argsCache /\ args[f] \notin Erased
      BY <2>5, <3>2
    <3>4. args[f] \in argsMap[Seed[text[f]]] /\ Seed[text[f]] \in Seeds
      BY <3>1, <3>3 DEF HeldMapped, TypeOK, Seeds
    <3> QED BY <2>6, <3>3, <3>4
  <2> QED BY <2>8, <2>9, <2>10
<1> QED BY <1>5, <1>6

\* FixCache takes arguments that were allocated out of list, index and map.
LEMMA FixTidy ==
    ASSUME IndInv, Tidy, NEW e \in Executor, SetRepeatable(e), args[e] # e
    PROVE  Tidy'
<1> USE DEF IndInv, Tidy
<1>1. PICK a, s0 : a = args[e] /\ s0 = Seed[key[a]]
  OBVIOUS
<1>2. /\ phase[e] = "ready"
      /\ cacheList' = IF a \in argsMap[s0] /\ a \in argsCache THEN Without(a) ELSE cacheList
      /\ argsMap' = [argsMap EXCEPT ![s0] = @ \ {a}]
      /\ argsCache' = argsCache \ {a}
      /\ fixedCacheMap' = [fixedCacheMap EXCEPT ![s0] = @ \cup {a}]
      /\ UNCHANGED <<phase, args, asks, isCachedArgs, alive, key>>
  BY <1>1 DEF SetRepeatable, argVars
<1>3. Holds(e) /\ HasTiling(e)
  BY <1>2 DEF Holds, HasTiling
<1>4. /\ a \in Heap /\ a \in alive /\ a \in Args
      /\ key[a] = text[e] /\ key[a] \in Text /\ s0 \in Seeds
  BY <1>1, <1>2, <1>3 DEF TypeOK, Asked, HeldAlive, Args, Seeds
<1>5. a \in argsCache => a \in argsMap[s0]
  BY <1>1, <1>3, <1>4 DEF HeldMapped
<1>6. \A s \in Seeds : a \in argsMap[s] => s = s0
  <2> SUFFICES ASSUME NEW s \in Seeds, a \in argsMap[s] PROVE s = s0
    OBVIOUS
  <2>1. \A f \in Executor : phase[f] = "created" => args[f] # a
    BY <1>1, <1>2, <1>3 DEF Exclusive, Holds
  <2> QED BY <1>1, <2>1 DEF Mapped
<1>7. /\ NoRepeat(cacheList) /\ argsCache = Range(cacheList) /\ argsCache \subseteq alive
      /\ \A s \in Seeds : argsMap[s] \subseteq argsCache /\ argsMap[s] \subseteq alive
      /\ \A s \in Seeds : fixedCacheMap[s] \cap argsCache = {}
  BY DEF Consistent, NoRepeat
<1>8. NoRepeat(cacheList') /\ argsCache' = Range(cacheList')
  <2>1. CASE a \in argsCache
    BY <1>2, <1>5, <1>7, <2>1, WithoutRange DEF TypeOK
  <2>2. CASE a \notin argsCache
    BY <1>2, <1>7, <2>2
  <2> QED BY <2>1, <2>2
<1>9. \A s \in Seeds : argsMap'[s] = argsMap[s] \ {a}
  <2> TAKE s \in Seeds
  <2>1. CASE s = s0
    BY <1>2, <1>4, <2>1 DEF TypeOK
  <2>2. CASE s # s0
    BY <1>2, <1>6, <2>2 DEF TypeOK
  <2> QED BY <2>1, <2>2
<1>10. \A s \in Seeds : fixedCacheMap'[s] = IF s = s0 THEN fixedCacheMap[s] \cup {a}
                                            ELSE fixedCacheMap[s]
  BY <1>2 DEF TypeOK
<1>11. Consistent'
  <2>1. \A s \in Seeds : argsMap'[s] \subseteq argsCache' /\ argsMap'[s] \subseteq alive'
    BY <1>2, <1>7, <1>9
  <2>2. \A s \in Seeds : fixedCacheMap'[s] \cap argsCache' = {}
    BY <1>2, <1>7, <1>10
  <2> QED BY <1>2, <1>7, <1>8, <2>1, <2>2 DEF Consistent, NoRepeat
<1>12. Fixed'
  BY <1>1, <1>2, <1>4, <1>10 DEF Fixed
<1>13. HeldMapped'
  <2> SUFFICES ASSUME NEW f \in Executor, Holds(f), args[f] \in argsCache, args[f] # a
               PROVE  args[f] \in argsMap'[Seed[text[f]]]
    BY <1>2 DEF HeldMapped, Holds, asks
  <2>1. args[f] \in argsMap[Seed[text[f]]] /\ Seed[text[f]] \in Seeds
    BY DEF HeldMapped, TypeOK, Seeds
  <2> QED BY <1>9, <2>1
<1> QED BY <1>11, <1>12, <1>13

\* Tiling and UseOwnArgs write the key of arguments that are not fixed.
LEMMA KeyTidy ==
    ASSUME IndInv, Tidy, NEW e \in Executor, Tiling(e) \/ TilingFails(e) \/ UseOwnArgs(e)
    PROVE  Tidy'
<1> USE DEF IndInv, Tidy
<1>1. /\ phase[e] \in {"created", "missed"} /\ phase'[e] \in {"created", "failed", "ready"}
      /\ \A f \in Executor : f # e => phase'[f] = phase[f] /\ args'[f] = args[f]
      /\ args'[e] \in {args[e], e}
      /\ UNCHANGED <<asks, isCachedArgs, alive, cacheList, argsCache, argsMap, fixedCacheMap>>
  BY DEF Tiling, TilingFails, UseOwnArgs, poolVars, TypeOK
<1>2. Consistent'
  BY <1>1 DEF Consistent
<1>3. \A f \in Executor : f # e => (Holds(f)' <=> Holds(f))
  BY <1>1 DEF Holds
<1>4. argsCache \subseteq Heap
  BY DEF Consistent, TypeOK
<1>5. args'[e] # e => Holds(e)
  BY DEF Tiling, TilingFails, UseOwnArgs, Holds, TypeOK
<1>6. HeldMapped'
  <2> SUFFICES ASSUME NEW f \in Executor, Holds(f)', args'[f] \in argsCache
               PROVE  args'[f] \in argsMap[Seed[text[f]]]
    BY <1>1 DEF HeldMapped, asks
  <2>1. args'[f] # f
    BY <1>4
  <2>2. Holds(f) /\ args'[f] = args[f]
    BY <1>1, <1>3, <1>5, <2>1
  <2> QED BY <2>2 DEF HeldMapped
<1>7. Fixed'
  <2> SUFFICES ASSUME NEW s \in Seeds, NEW b \in fixedCacheMap[s]
               PROVE  b \in alive /\ key'[b] \in Text /\ Seed[key'[b]] = s
    BY <1>1 DEF Fixed
  <2>1. b \in alive /\ key[b] \in Text /\ Seed[key[b]] = s /\ b \in Heap /\ b \in Args /\ b # e
    BY DEF Fixed, TypeOK, Args
  <2>2. CASE UseOwnArgs(e)
    BY <2>1, <2>2 DEF UseOwnArgs, TypeOK
  <2>3. CASE Tiling(e) \/ TilingFails(e)
    <3>1. phase[e] = "created" /\ key' = [key EXCEPT ![args[e]] = text[e]]
      BY <2>3 DEF Tiling, TilingFails
    <3>2. args[e] # b
      BY <2>1, <3>1, KeyText DEF Asked
    <3>3. key'[b] = key[b]
      BY <2>1, <3>1, <3>2 DEF TypeOK
    <3> QED BY <2>1, <3>3
  <2> QED BY <2>2, <2>3
<1> QED BY <1>2, <1>6, <1>7

\* Steps that change neither the pool nor keys keep it tidy.
LEMMA QuietTidy ==
    ASSUME Tidy, UNCHANGED <<args, alive, key, poolVars>>,
           \A f \in Executor : Holds(f)' => Holds(f) /\ text'[f] = text[f]
    PROVE  Tidy'
<1>1. UNCHANGED <<args, alive, key, cacheList, argsCache, argsMap, fixedCacheMap>>
  BY DEF poolVars
<1>2. Consistent' /\ Fixed'
  BY <1>1 DEF Tidy, Consistent, Fixed
<1>3. HeldMapped'
  BY <1>1 DEF Tidy, HeldMapped
<1> QED BY <1>2, <1>3 DEF Tidy

\* The steps of one executor that touch neither arguments nor pool.
Quiet(e) == \/ \E k \in Key, matchArgsV2 \in BOOLEAN : GetExecutor(e, k, matchArgsV2)
            \/ AddPart(e) \/ SealKey(e) \/ BypassCache(e)
            \/ EarlyMiss(e) \/ KeepMatch(e) \/ LateMiss(e)
            \/ RunWithWorkspace(e) \/ ResetExecutor(e) \/ ClearDone(e)

\* They let an executor hold no more than before.
LEMMA QuietHolds ==
    ASSUME IndInv, NEW e \in Executor, Quiet(e)
    PROVE  /\ UNCHANGED <<args, isCachedArgs, repeatable, alive, key, tiled, isVist, poolVars,
                          recording>>
           /\ \A f \in Executor : Holds(f)' => Holds(f) /\ text'[f] = text[f]
           /\ \A f \in Executor : Holds(f) => Holds(f)'
<1>1. UNCHANGED <<args, isCachedArgs, repeatable, alive, key, tiled, isVist, poolVars, recording>>
  BY DEF Quiet, GetExecutor, AddPart, SealKey, BypassCache, EarlyMiss, KeepMatch, LateMiss, RunWithWorkspace, ResetExecutor,
         ClearDone, argVars
<1>2. CASE \E k \in Key, matchArgsV2 \in BOOLEAN : GetExecutor(e, k, matchArgsV2)
  <2>1. ~isCachedArgs[e] /\ phase[e] = "idle"
    BY <1>2 DEF GetExecutor, IndInv, Asked
  <2>2. \A f \in Executor : f # e => phase'[f] = phase[f] /\ text'[f] = text[f]
    BY <1>2 DEF GetExecutor, IndInv, TypeOK
  <2>3. ~Holds(e) /\ ~Holds(e)'
    BY <1>1, <1>2, <2>1 DEF GetExecutor, Holds, IndInv, TypeOK
  <2>4. \A f \in Executor : f # e => (Holds(f)' <=> Holds(f))
    BY <1>1, <2>2 DEF Holds
  <2> QED BY <1>1, <2>2, <2>3, <2>4
<1>6. CASE AddPart(e) \/ SealKey(e) \/ BypassCache(e)
  <2>1. /\ phase[e] = "adding" /\ phase'[e] \in {"adding", "sealed", "bypassed"}
        /\ \A f \in Executor : f # e => phase'[f] = phase[f] /\ text'[f] = text[f]
    BY <1>6 DEF AddPart, SealKey, BypassCache, IndInv, TypeOK
  <2> QED BY <1>1, <2>1 DEF Holds
<1>3. CASE EarlyMiss(e) \/ KeepMatch(e) \/ LateMiss(e)
  <2>1. /\ text' = text /\ phase'[e] \in {"open", "ready", "missed"}
        /\ \/ phase[e] = "open"
           \/ phase[e] \in {"sealed", "bypassed"} /\ ~isCachedArgs[e] /\ phase'[e] # "ready"
        /\ phase'[e] = "ready" => isCachedArgs[e]
        /\ \A f \in Executor : f # e => phase'[f] = phase[f]
    BY <1>3 DEF EarlyMiss, KeepMatch, LateMiss, IndInv, TypeOK, Asked, asks
  <2> QED BY <1>1, <2>1 DEF Holds
<1>4. CASE RunWithWorkspace(e) \/ ResetExecutor(e)
  <2>1. /\ phase[e] = "ready" /\ text' = text /\ phase'[e] \in {"ready", "clearing"}
        /\ \A f \in Executor : f # e => phase'[f] = phase[f]
    BY <1>4 DEF RunWithWorkspace, ResetExecutor, IndInv, TypeOK, asks
  <2> QED BY <1>1, <2>1 DEF Holds
<1>5. CASE ClearDone(e)
  <2>1. /\ phase[e] = "released" /\ text' = text /\ phase'[e] = "idle"
        /\ \A f \in Executor : f # e => phase'[f] = phase[f]
    BY <1>5 DEF ClearDone, IndInv, TypeOK, asks
  <2> QED BY <1>1, <2>1 DEF Holds
<1> QED BY <1>2, <1>3, <1>4, <1>5, <1>6 DEF Quiet

\* The steps of the pool and its callers, by what they may change.
LEMMA StepKinds ==
    ASSUME IndInv, [Next]_vars
    PROVE  \/ \E e \in Executor : Quiet(e)
           \/ \E e \in Executor, a \in Heap :
                /\ phase[e] \in {"sealed", "open"} /\ ~isCachedArgs[e] /\ MatchArgs(e, a)
                /\ \E p \in {"ready", "open"} : phase' = [phase EXCEPT ![e] = p]
           \/ \E e \in Executor, a \in Heap : CreateArgs(e, a)
           \/ \E e \in Executor : Tiling(e) \/ TilingFails(e) \/ UseOwnArgs(e)
           \/ \E e \in Executor : SetRepeatable(e)
           \/ \E e \in Executor : ReleaseArgs(e)
           \/ Reload
           \/ SwitchRecording \/ UNCHANGED vars
<1>1. \A e \in Executor, a \in Heap : EarlyMatch(e, a) \/ LateMatch(e, a) =>
        /\ phase[e] \in {"sealed", "open"} /\ ~isCachedArgs[e] /\ MatchArgs(e, a)
        /\ \E p \in {"ready", "open"} : phase' = [phase EXCEPT ![e] = p]
  BY DEF EarlyMatch, LateMatch, IndInv, Asked
<1> QED BY <1>1 DEF Next, Quiet

\* What the callers of the two kinds of processes keep to.
LEMMA NextHabits ==
    ASSUME IndInv, Habits, [CallerNext]_<<vars, caller>>
    PROVE  Habits'
<1> USE DEF IndInv
<1>1. /\ [Next]_vars /\ caller' = caller
      /\ caller = "repeats" => recording' = recording
      /\ caller = "records" => repeatable' = repeatable
  <2>1. CASE CallerNext
    BY <2>1 DEF CallerNext
  <2>2. CASE UNCHANGED <<vars, caller>>
    BY <2>2 DEF vars, execVars
  <2> QED BY <2>1, <2>2
<1>2. CASE caller = "repeats"
  <2>1. ~recording /\ ~recording'
    BY <1>1, <1>2 DEF Habits
  <2> SUFFICES ASSUME NEW f \in Executor
               PROVE  /\ phase'[f] = "missed" => ~isCachedArgs'[f]
                      /\ MaxCacheNum > 0 => enableCache'[f] /\ args'[f] # f
    BY <1>1, <1>2, <2>1 DEF Habits
  <2>2. /\ phase[f] = "missed" => ~isCachedArgs[f]
        /\ MaxCacheNum > 0 => enableCache[f] /\ args[f] # f
    BY <1>2 DEF Habits
  <2>3. CASE \E e \in Executor : Quiet(e)
    <3>1. PICK e \in Executor : Quiet(e)
      BY <2>3
    <3>2. UNCHANGED <<args, isCachedArgs>>
      BY <3>1, QuietHolds
    <3>3. CASE LateMiss(e) \/ EarlyMiss(e)
      BY <2>1, <2>2, <3>2, <3>3 DEF LateMiss, EarlyMiss, MissArgs, TypeOK, Asked
    <3>4. CASE KeepMatch(e) \/ RunWithWorkspace(e) \/ ResetExecutor(e) \/ ClearDone(e)
      BY <2>2, <3>2, <3>4 DEF KeepMatch, RunWithWorkspace, ResetExecutor, ClearDone, TypeOK
    <3>5. CASE \/ \E k \in Key, matchArgsV2 \in BOOLEAN : GetExecutor(e, k, matchArgsV2)
               \/ AddPart(e) \/ SealKey(e)
      BY <2>2, <3>2, <3>5 DEF GetExecutor, AddPart, SealKey, TypeOK
    <3>6. ~BypassCache(e)
      BY <2>1 DEF BypassCache
    <3> QED BY <3>1, <3>3, <3>4, <3>5, <3>6 DEF Quiet
  <2>4. CASE \E e \in Executor, a \in Heap :
                /\ phase[e] \in {"sealed", "open"} /\ ~isCachedArgs[e] /\ MatchArgs(e, a)
                /\ \E p \in {"ready", "open"} : phase' = [phase EXCEPT ![e] = p]
    BY <2>2, <2>4 DEF MatchArgs, TypeOK
  <2>5. CASE \E e \in Executor, a \in Heap : CreateArgs(e, a)
    BY <2>2, <2>5 DEF CreateArgs, TypeOK
  <2>6. CASE \E e \in Executor : Tiling(e) \/ TilingFails(e)
    BY <2>2, <2>6 DEF Tiling, TilingFails, TypeOK
  <2>7. CASE \E e \in Executor : UseOwnArgs(e)
    <3>1. PICK e \in Executor : UseOwnArgs(e)
      BY <2>7
    <3>2. ~ (MaxCacheNum > 0)
      BY <1>2, <3>1 DEF UseOwnArgs, Habits
    <3> QED BY <2>2, <3>1, <3>2 DEF UseOwnArgs, TypeOK
  <2>8. CASE \E e \in Executor : SetRepeatable(e)
    BY <2>2, <2>8 DEF SetRepeatable
  <2>9. CASE \E e \in Executor : ReleaseArgs(e)
    BY <2>2, <2>9 DEF ReleaseArgs, TypeOK
  <2>10. CASE Reload
    BY <2>2, <2>10 DEF Reload
  <2>11. CASE SwitchRecording \/ UNCHANGED vars
    BY <2>2, <2>11 DEF SwitchRecording, vars, execVars
  <2> QED BY <1>1, <2>3, <2>4, <2>5, <2>6, <2>7, <2>8, <2>9, <2>10, <2>11, StepKinds
<1>3. CASE caller = "records"
  <2>1. repeatable' = repeatable /\ \A e \in Executor : ~repeatable[e]
    BY <1>1, <1>3 DEF Habits
  <2>2. \A s \in Seeds : fixedCacheMap[s] = {}
    BY <1>3 DEF Habits
  <2>3. \A e \in Executor : ~SetRepeatable(e)
    BY <2>1 DEF SetRepeatable, TypeOK
  <2>4. \A s \in Seeds : fixedCacheMap'[s] = {}
    <3>1. CASE \E e \in Executor : Quiet(e)
      <4>1. UNCHANGED poolVars
        BY <3>1, QuietHolds
      <4> QED BY <2>2, <4>1 DEF poolVars
    <3>2. CASE \E e \in Executor : ReleaseArgs(e)
      <4>1. PICK e \in Executor : ReleaseArgs(e)
        BY <3>2
      <4>2. Seed[key[args[e]]] \in Seeds
        BY <4>1 DEF ReleaseArgs, Asked, HasTiling, Seeds, TypeOK
      <4>3. UNCHANGED poolVars
        BY <2>2, <4>1, <4>2 DEF ReleaseArgs
      <4> QED BY <2>2, <4>3 DEF poolVars
    <3>3. CASE \/ \E e \in Executor, a \in Heap : MatchArgs(e, a) \/ CreateArgs(e, a)
               \/ \E e \in Executor : Tiling(e) \/ TilingFails(e) \/ UseOwnArgs(e)
               \/ SwitchRecording \/ UNCHANGED vars
      BY <2>2, <3>3 DEF MatchArgs, CreateArgs, Tiling, TilingFails, UseOwnArgs,
                        SwitchRecording, vars, poolVars
    <3>4. CASE Reload
      BY <3>4 DEF Reload
    <3> QED BY <1>1, <2>3, <3>1, <3>2, <3>3, <3>4, StepKinds
  <2> QED BY <1>1, <1>3, <2>1, <2>4 DEF Habits
<1> QED BY <1>2, <1>3 DEF Habits

\* A step of the process is one of the pool.
LEMMA CallerStep ==
    ASSUME [CallerNext]_<<vars, caller>>
    PROVE  /\ [Next]_vars /\ caller' = caller
           /\ caller = "records" => repeatable' = repeatable
<1>1. CASE CallerNext
  BY <1>1 DEF CallerNext
<1>2. CASE UNCHANGED <<vars, caller>>
  BY <1>2 DEF vars, execVars
<1> QED BY <1>1, <1>2

\* Every step keeps the containers of the pool in agreement.
LEMMA NextTidy ==
    ASSUME IndInv, Habits, Managed, Tidy, [CallerNext]_<<vars, caller>>
    PROVE  Tidy'
<1>1. [Next]_vars /\ (caller = "records" => repeatable' = repeatable)
  BY CallerStep
<1>2. CASE \E e \in Executor : Quiet(e)
  <2>1. /\ UNCHANGED <<args, alive, key, poolVars>>
        /\ \A f \in Executor : Holds(f)' => Holds(f) /\ text'[f] = text[f]
    BY <1>2, QuietHolds
  <2> QED BY <2>1, QuietTidy
<1>3. CASE \E e \in Executor, a \in Heap :
              /\ phase[e] \in {"sealed", "open"} /\ ~isCachedArgs[e] /\ MatchArgs(e, a)
              /\ \E p \in {"ready", "open"} : phase' = [phase EXCEPT ![e] = p]
  BY <1>3, MatchTidy
<1>4. CASE \E e \in Executor, a \in Heap : CreateArgs(e, a)
  BY <1>4, CreateTidy
<1>5. CASE \E e \in Executor : Tiling(e) \/ TilingFails(e) \/ UseOwnArgs(e)
  BY <1>5, KeyTidy
<1>6. CASE \E e \in Executor : SetRepeatable(e)
  <2>1. PICK e \in Executor : SetRepeatable(e)
    BY <1>6
  <2>2. caller # "records"
    BY <1>1, <2>1 DEF SetRepeatable, IndInv, TypeOK
  <2>3. args[e] # e
    BY <2>2 DEF Habits, Managed
  <2> QED BY <2>1, <2>3, FixTidy
<1>7. CASE \E e \in Executor : ReleaseArgs(e)
  BY <1>7, ReleaseTidy
<1>8. CASE Reload
  <2>1. \A e \in Executor : ~Holds(e)'
    BY <1>8 DEF Reload, Holds, IndInv, Asked
  <2>2. HeldMapped'
    BY <2>1 DEF HeldMapped
  <2>3. Consistent' /\ Fixed'
    BY <1>8 DEF Reload, Consistent, Fixed, Range
  <2> QED BY <2>2, <2>3 DEF Tidy
<1>9. CASE SwitchRecording \/ UNCHANGED vars
  <2>1. UNCHANGED <<execVars, argVars, poolVars>>
    BY <1>9 DEF SwitchRecording, vars
  <2>2. UNCHANGED <<phase, args, asks, isCachedArgs, alive, key, poolVars>>
    BY <2>1 DEF execVars, argVars
  <2>3. \A f \in Executor : Holds(f)' => Holds(f) /\ text'[f] = text[f]
    BY <2>2 DEF Holds, asks
  <2> QED BY <2>2, <2>3, QuietTidy
<1> QED BY <1>1, <1>2, <1>3, <1>4, <1>5, <1>6, <1>7, <1>8, <1>9, StepKinds

\* Where callers repeat, a pin always has a holder.
LEMMA NextPinsHeld ==
    ASSUME IndInv, Habits, caller = "repeats", PinsHeld, [CallerNext]_<<vars, caller>>
    PROVE  PinsHeld'
<1> USE DEF IndInv
<1>1. [Next]_vars /\ caller' = caller
  BY CallerStep
<1>2. \A e \in Executor : phase[e] = "missed" => ~Holds(e)
  BY DEF Habits, Holds
<1>3. ASSUME alive' \subseteq alive, isVist' = isVist, args' = args,
             \A f \in Executor : Holds(f) => Holds(f)'
      PROVE  PinsHeld'
  BY <1>3 DEF PinsHeld
<1>4. CASE \E e \in Executor : Quiet(e)
  <2>1. /\ UNCHANGED <<args, alive, isVist>>
        /\ \A f \in Executor : Holds(f) => Holds(f)'
    BY <1>4, QuietHolds
  <2> QED BY <1>3, <2>1
<1>5. CASE \E e \in Executor, a \in Heap :
              /\ phase[e] \in {"sealed", "open"} /\ ~isCachedArgs[e] /\ MatchArgs(e, a)
              /\ \E p \in {"ready", "open"} : phase' = [phase EXCEPT ![e] = p]
  <2>1. PICK e \in Executor, a \in Heap :
              /\ phase[e] \in {"sealed", "open"} /\ ~isCachedArgs[e] /\ MatchArgs(e, a)
              /\ \E p \in {"ready", "open"} : phase' = [phase EXCEPT ![e] = p]
    BY <1>5
  <2>2. /\ args' = [args EXCEPT ![e] = a] /\ alive' = alive
        /\ isCachedArgs' = [isCachedArgs EXCEPT ![e] = TRUE]
        /\ isVist' = [isVist EXCEPT ![a] = TRUE]
    BY <2>1 DEF MatchArgs
  <2>3. ~Holds(e)
    BY <2>1 DEF Holds
  <2>4. Holds(e)' /\ args'[e] = a
    BY <2>1, <2>2 DEF Holds, TypeOK
  <2>5. \A f \in Executor : f # e => (Holds(f)' <=> Holds(f)) /\ args'[f] = args[f]
    BY <2>1, <2>2 DEF Holds, TypeOK
  <2>6. \A b \in alive : b # a => isVist'[b] = isVist[b]
    BY <2>2 DEF TypeOK, Args
  <2> QED BY <2>2, <2>3, <2>4, <2>5, <2>6 DEF PinsHeld
<1>6. CASE \E e \in Executor, a \in Heap : CreateArgs(e, a)
  <2>1. PICK e \in Executor, a \in Heap : CreateArgs(e, a)
    BY <1>6
  <2>2. /\ phase[e] = "missed" /\ phase' = [phase EXCEPT ![e] = "created"]
        /\ args' = [args EXCEPT ![e] = a] /\ alive' \subseteq alive \cup {a}
        /\ isVist' = [isVist EXCEPT ![a] = TRUE] /\ isCachedArgs' = isCachedArgs
    BY <2>1 DEF CreateArgs
  <2>3. ~Holds(e)
    BY <1>2, <2>2
  <2>4. Holds(e)' /\ args'[e] = a
    BY <2>2 DEF Holds, TypeOK
  <2>5. \A f \in Executor : f # e => (Holds(f)' <=> Holds(f)) /\ args'[f] = args[f]
    BY <2>2 DEF Holds, TypeOK
  <2>6. \A b \in alive : b # a => isVist'[b] = isVist[b]
    BY <2>2 DEF TypeOK, Args
  <2> QED BY <2>2, <2>3, <2>4, <2>5, <2>6 DEF PinsHeld
<1>7. CASE \E e \in Executor : UseOwnArgs(e)
  <2>1. PICK e \in Executor : UseOwnArgs(e)
    BY <1>7
  <2>2. /\ phase[e] = "missed" /\ phase' = [phase EXCEPT ![e] = "created"]
        /\ args' = [args EXCEPT ![e] = e]
        /\ UNCHANGED <<alive, isVist, isCachedArgs>>
    BY <2>1 DEF UseOwnArgs
  <2>3. ~Holds(e)
    BY <1>2, <2>2
  <2>4. \A f \in Executor : f # e => (Holds(f)' <=> Holds(f)) /\ args'[f] = args[f]
    BY <2>2 DEF Holds, TypeOK
  <2> QED BY <2>2, <2>3, <2>4 DEF PinsHeld
<1>8. CASE \E e \in Executor : Tiling(e) \/ TilingFails(e) \/ SetRepeatable(e)
  <2>1. PICK e \in Executor : Tiling(e) \/ TilingFails(e) \/ SetRepeatable(e)
    BY <1>8
  <2>2. /\ UNCHANGED <<args, alive, isVist, isCachedArgs>>
        /\ phase'[e] \in {"ready", "failed"}
        /\ \A f \in Executor : f # e => phase'[f] = phase[f]
    BY <2>1 DEF Tiling, TilingFails, SetRepeatable, argVars, TypeOK
  <2>3. \A f \in Executor : Holds(f) => Holds(f)'
    BY <2>2 DEF Holds
  <2> QED BY <1>3, <2>2, <2>3
<1>9. CASE \E e \in Executor : ReleaseArgs(e)
  <2>1. PICK e \in Executor : ReleaseArgs(e)
    BY <1>9
  <2>2. PICK a : a = args[e]
    OBVIOUS
  <2>3. /\ isVist' = [isVist EXCEPT ![a] = FALSE] /\ args' = args
        /\ phase' = [phase EXCEPT ![e] = "released"]
        /\ isCachedArgs' = [isCachedArgs EXCEPT ![e] = FALSE]
        /\ alive' \subseteq alive
    BY <2>1, <2>2 DEF ReleaseArgs, Unpinned
  <2>4. \A f \in Executor : f # e => (Holds(f)' <=> Holds(f))
    BY <2>3 DEF Holds, TypeOK
  <2>5. \A b \in alive : IF b = a THEN ~isVist'[b] ELSE isVist'[b] = isVist[b]
    BY <2>3 DEF TypeOK, Args
  <2> QED BY <2>2, <2>3, <2>4, <2>5 DEF PinsHeld
<1>10. CASE Reload
  <2>1. \A e \in Executor : ~Holds(e)
    BY <1>10 DEF Reload, Holds, Asked
  <2>2. alive' \subseteq alive /\ isVist' = isVist
    BY <1>10 DEF Reload
  <2> QED BY <2>1, <2>2 DEF PinsHeld
<1>11. CASE SwitchRecording \/ UNCHANGED vars
  <2>1. UNCHANGED <<execVars, argVars>>
    BY <1>11 DEF SwitchRecording, vars
  <2>2. UNCHANGED <<phase, args, isCachedArgs, alive, isVist>>
    BY <2>1 DEF execVars, argVars
  <2>3. \A f \in Executor : Holds(f) => Holds(f)'
    BY <2>2 DEF Holds
  <2> QED BY <1>3, <2>2, <2>3
<1> QED BY <1>1, <1>4, <1>5, <1>6, <1>7, <1>8, <1>9, <1>10, <1>11, StepKinds

\* Where callers do not repeat, whatever is allocated is filed.
LEMMA NextNothingLost ==
    ASSUME IndInv, Habits, caller = "records", Tidy, Tidy', NothingLost,
           [CallerNext]_<<vars, caller>>
    PROVE  NothingLost'
<1> USE DEF IndInv
<1>1. [Next]_vars /\ caller' = caller /\ repeatable' = repeatable
  BY CallerStep
<1>2. ASSUME alive' = alive, argsMap' = argsMap, argsCache' = argsCache
      PROVE  NothingLost'
  BY <1>2 DEF NothingLost, Tidy, Consistent
<1>3. CASE \E e \in Executor : Quiet(e)
  <2>1. UNCHANGED <<alive, poolVars>>
    BY <1>3, QuietHolds
  <2> QED BY <1>2, <2>1 DEF poolVars
<1>4. CASE \E e \in Executor, a \in Heap : MatchArgs(e, a)
  BY <1>2, <1>4 DEF MatchArgs
<1>5. CASE \E e \in Executor, a \in Heap : CreateArgs(e, a)
  <2>1. PICK e \in Executor, a \in Heap : CreateArgs(e, a)
    BY <1>5
  <2>2. /\ phase[e] = "missed" /\ a \notin alive /\ Put(a)
        /\ alive' = (alive \ Erased) \cup {a}
        /\ argsMap' = Filed(e, a)
    BY <2>1 DEF CreateArgs
  <2>3. argsCache' = (argsCache \ Erased) \cup {a}
    BY <2>2 DEF Put
  <2>4. alive = argsCache /\ alive' = Range(cacheList')
    BY <2>2, <2>3 DEF NothingLost, Tidy, Consistent
  <2>5. Seed[text[e]] \in Seeds
    BY DEF TypeOK, Seeds
  <2>6. \A s \in Seeds : argsMap'[s] = IF s = Seed[text[e]]
                                       THEN (argsMap[s] \ Erased) \cup {a}
                                       ELSE argsMap[s] \ Erased
    BY <2>2, UnmappedErased DEF Filed
  <2>7. alive' = UNION {argsMap'[s] : s \in Seeds}
    <3>1. \A b : b \in alive <=> \E s \in Seeds : b \in argsMap[s]
      BY DEF NothingLost
    <3>2. \A b \in alive' : \E s \in Seeds : b \in argsMap'[s]
      <4> TAKE b \in alive'
      <4>1. CASE b = a
        BY <2>5, <2>6, <4>1
      <4>2. CASE b # a
        <5>1. PICK s \in Seeds : b \in argsMap[s] /\ b \notin Erased
          BY <2>2, <3>1, <4>2
        <5> QED BY <2>6, <5>1
      <4> QED BY <4>1, <4>2
    <3>3. \A s \in Seeds : \A b \in argsMap'[s] : b \in alive'
      <4> TAKE s \in Seeds
      <4> TAKE b \in argsMap'[s]
      <4>1. b = a \/ (b \in argsMap[s] /\ b \notin Erased)
        <5>1. CASE s = Seed[text[e]]
          <6>1. argsMap'[s] = (argsMap[s] \ Erased) \cup {a}
            BY ONLY <2>6, <5>1, s \in Seeds
          <6> QED BY <6>1
        <5>2. CASE s # Seed[text[e]]
          <6>1. argsMap'[s] = argsMap[s] \ Erased
            BY ONLY <2>6, <5>2, s \in Seeds
          <6> QED BY <6>1
        <5> QED BY <5>1, <5>2
      <4> QED BY <2>2, <3>1, <4>1
    <3> QED BY <3>2, <3>3
  <2> QED BY <2>4, <2>7 DEF NothingLost
<1>6. CASE \E e \in Executor : Tiling(e) \/ TilingFails(e) \/ UseOwnArgs(e)
  BY <1>2, <1>6 DEF Tiling, TilingFails, UseOwnArgs, poolVars
<1>7. CASE \E e \in Executor : SetRepeatable(e)
  <2>1. PICK e \in Executor : SetRepeatable(e)
    BY <1>7
  <2>2. FALSE
    BY <1>1, <2>1 DEF SetRepeatable, TypeOK
  <2> QED BY <2>2
<1>8. CASE \E e \in Executor : ReleaseArgs(e)
  <2>1. PICK e \in Executor : ReleaseArgs(e)
    BY <1>8
  <2>2. Seed[key[args[e]]] \in Seeds
    BY <2>1 DEF ReleaseArgs, Asked, HasTiling, Seeds, TypeOK
  <2>3. UNCHANGED <<poolVars, alive>>
    BY <2>1, <2>2 DEF ReleaseArgs, Habits
  <2> QED BY <1>2, <2>3 DEF poolVars
<1>9. CASE Reload
  <2>1. alive' = {} /\ cacheList' = <<>> /\ argsMap' = [s \in Seeds |-> {}]
    BY <1>9 DEF Reload, NothingLost
  <2> QED BY <2>1 DEF NothingLost, Range
<1>10. CASE SwitchRecording \/ UNCHANGED vars
  BY <1>2, <1>10 DEF SwitchRecording, vars, argVars, poolVars
<1> QED BY <1>1, <1>3, <1>4, <1>5, <1>6, <1>7, <1>8, <1>9, <1>10, StepKinds

\* The invariant of the two kinds of processes.
THEOREM CallerInvariance == CallerSpec => []CallerInv
<1>1. CallerInit => CallerInv
  <2> SUFFICES ASSUME CallerInit PROVE CallerInv
    OBVIOUS
  <2>1. Init /\ caller \in {"repeats", "records"}
    BY DEF CallerInit
  <2>2. IndInv
    BY <2>1, InitIndInv
  <2>3. Habits
    BY <2>1 DEF Init, Habits
  <2>4. /\ cacheList = <<>> /\ argsCache = {} /\ alive = {}
        /\ \A s \in Seeds : argsMap[s] = {} /\ fixedCacheMap[s] = {}
        /\ \A e \in Executor : phase[e] = "idle"
    BY <2>1 DEF Init
  <2>5. Consistent /\ Fixed
    BY <2>4 DEF Consistent, Fixed, Range
  <2>6. HeldMapped
    BY <2>4 DEF HeldMapped, Holds
  <2>7. KeepsTrack
    BY <2>4 DEF KeepsTrack, PinsHeld, NothingLost, Range
  <2> QED BY <2>2, <2>3, <2>5, <2>6, <2>7 DEF CallerInv, Tidy
<1>2. CallerInv /\ [CallerNext]_<<vars, caller>> => CallerInv'
  <2> SUFFICES ASSUME CallerInv, [CallerNext]_<<vars, caller>> PROVE CallerInv'
    OBVIOUS
  <2>1. IndInv /\ Habits /\ KeepsTrack /\ (Managed => Tidy)
    BY DEF CallerInv
  <2>2. [Next]_vars /\ caller' = caller
    BY CallerStep
  <2>3. IndInv'
    BY <2>1, <2>2, NextIndInv
  <2>4. Habits'
    BY <2>1, NextHabits
  <2>5. Managed' => Tidy'
    BY <2>1, <2>2, NextTidy DEF Managed
  <2>6. KeepsTrack'
    <3>1. CASE caller = "repeats"
      <4>1. PinsHeld
        BY <2>1, <3>1 DEF KeepsTrack
      <4>2. PinsHeld'
        BY <2>1, <3>1, <4>1, NextPinsHeld
      <4> QED BY <2>2, <3>1, <4>2 DEF KeepsTrack
    <3>2. CASE caller = "records"
      <4>1. NothingLost /\ Tidy /\ Tidy'
        BY <2>1, <2>2, <2>5, <3>2 DEF KeepsTrack, Managed
      <4>2. NothingLost'
        BY <2>1, <3>2, <4>1, NextNothingLost
      <4> QED BY <2>2, <3>2, <4>2 DEF KeepsTrack
    <3> QED BY <2>1, <3>1, <3>2 DEF Habits
  <2> QED BY <2>3, <2>4, <2>5, <2>6 DEF CallerInv
<1> QED BY <1>1, <1>2, PTL DEF CallerSpec

\* Nothing is lost to the pool: no pin without a holder where executors are
\* repeatable, nothing allocated that cannot be matched and evicted where the
\* profiling switch is turned (ReleaseArgs, EraseArgs, ArgsPool::Put).
THEOREM PoolKeepsTrack == CallerSpec => []KeepsTrack
<1>1. CallerInv => KeepsTrack
  BY DEF CallerInv
<1> QED BY <1>1, CallerInvariance, PTL

\* With a cache, cacheList, argsCache, argsMap and fixedCacheMap agree at
\* every unlock of the pool's mutex, whatever is matched, evicted, fixed and
\* put back.
THEOREM PoolConsistent ==
    ASSUME MaxCacheNum > 0
    PROVE  CallerSpec => []Consistent
<1>1. CallerInv => Consistent
  BY DEF CallerInv, Managed, Tidy
<1> QED BY <1>1, CallerInvariance, PTL

\* No two executors work with the same arguments (IsArgsMatch, CreateArgs).
THEOREM ArgsExclusive == Spec => []Exclusive
<1>1. IndInv => Exclusive
  BY DEF IndInv
<1> QED BY <1>1, ArgsPoolInvariance, PTL
=============================================================================
