------------------------- MODULE OpExecCacheProofs -------------------------
(***************************************************************************)
(* For every cache limit, shrink number, number of pending calls and size  *)
(* of the garbage queues: no handle refers to a deleted recording, every   *)
(* recording has one owner, and the containers stay within their limit.    *)
(*                                                                         *)
(* Two arguments carry the proof.  Own(c, k, u) says that object c will be *)
(* deleted by place k of u; every step leaves an object where it is or     *)
(* moves it from its one place to one other.  And a recording that a       *)
(* handle waits for is so near the front of cache2_ that ShrinkCache does  *)
(* not reach it (Recent).                                                  *)
(*                                                                         *)
(* The last section is about the ring through which a thread hands evicted *)
(* entries to its garbage collector (LockFreeQueue).                       *)
(***************************************************************************)
EXTENDS OpExecCache, LockFreeQueue, BasicFacts, FiniteSetTheorems, SequenceTheorems, TLAPS

USE LimitAssumption
-----------------------------------------------------------------------------
(* The lists of cache2_.                                                   *)

\* What is ahead of an entry, place by place.
LEMMA AheadOf ==
    ASSUME NEW s \in Seq(Cache)
    PROVE  /\ \A x, y : y \in Ahead(s, x) <=>
                 \E j, k \in 1 .. Len(s) : j < k /\ s[j] = y /\ s[k] = x
           /\ \A x : Ahead(s, x) \subseteq Range(s)
           /\ \A x : x \notin Range(s) => Ahead(s, x) = {}
<1>1. DOMAIN s = 1 .. Len(s)
  OBVIOUS
<1>2. \A x, y : y \in Ahead(s, x) <=>
                 \E j, k \in 1 .. Len(s) : j < k /\ s[j] = y /\ s[k] = x
  BY <1>1, Zenon DEF Ahead
<1>3. \A x : x \in Range(s) <=> \E i \in 1 .. Len(s) : s[i] = x
  BY RangeOfList
<1>4. ASSUME NEW x, NEW y \in Ahead(s, x) PROVE y \in Range(s) /\ x \in Range(s)
  BY <1>2, <1>3
<1> QED BY <1>2, <1>4

\* A list whose entries come from another one, in the same order.
LEMMA SameOrder ==
    ASSUME NEW s \in Seq(Cache), NEW r \in Seq(Cache), IsInjective(s),
           NEW f \in [1 .. Len(r) -> 1 .. Len(s)],
           \A i \in 1 .. Len(r) : r[i] = s[f[i]],
           \A i, j \in 1 .. Len(r) : i < j => f[i] < f[j]
    PROVE  /\ IsInjective(r)
           /\ \A x : Ahead(r, x) \subseteq Ahead(s, x)
<1>1. \A i, j \in 1 .. Len(s) : s[i] = s[j] => i = j
  BY RangeOfList
<1>2. IsInjective(r)
  <2> SUFFICES ASSUME NEW i \in 1 .. Len(r), NEW j \in 1 .. Len(r), r[i] = r[j]
               PROVE  i = j
    BY RangeOfList
  <2>1. f[i] = f[j] /\ f[i] \in 1 .. Len(s) /\ f[j] \in 1 .. Len(s)
    BY <1>1
  <2>2. i \in Int /\ j \in Int /\ f[i] \in Int /\ f[j] \in Int
    BY <2>1
  <2> QED BY <2>1, <2>2
<1>3. ASSUME NEW x, NEW y \in Ahead(r, x) PROVE y \in Ahead(s, x)
  <2>1. PICK j \in 1 .. Len(r), k \in 1 .. Len(r) : j < k /\ r[j] = y /\ r[k] = x
    BY AheadOf
  <2>2. f[j] \in 1 .. Len(s) /\ f[k] \in 1 .. Len(s) /\ f[j] < f[k]
        /\ s[f[j]] = y /\ s[f[k]] = x
    BY <2>1
  <2> QED BY <2>2, AheadOf
<1> QED BY <1>2, <1>3

\* The place of an entry.
LEMMA PlaceOf ==
    ASSUME NEW s \in Seq(Cache), IsInjective(s), NEW c \in Range(s)
    PROVE  Place(s, c) \in 1 .. Len(s) /\ s[Place(s, c)] = c
<1>1. \E i \in DOMAIN s : s[i] = c
  BY DEF Range
<1> QED BY <1>1 DEF Place

\* Taking an entry out keeps the others and their order.
LEMMA RemoveList ==
    ASSUME NEW s \in Seq(Cache), IsInjective(s), NEW c \in Range(s)
    PROVE  /\ Remove(s, c) \in Seq(Cache) /\ Len(Remove(s, c)) = Len(s) - 1
           /\ Range(Remove(s, c)) = Range(s) \ {c}
           /\ IsInjective(Remove(s, c))
           /\ \A x : Ahead(Remove(s, c), x) \subseteq Ahead(s, x)
<1>0. PICK p : p = Place(s, c)
  OBVIOUS
<1>1. p \in 1 .. Len(s) /\ s[p] = c
  BY <1>0, PlaceOf
<1>2. PICK n \in Nat : n = Len(s) - 1
  <2>1. Len(s) \in Nat /\ Len(s) >= 1
    BY <1>1
  <2> QED BY <2>1
<1> DEFINE g == [i \in 1 .. n |-> IF i < p THEN i ELSE i + 1]
           r == [i \in 1 .. n |-> s[g[i]]]
<1>3. g \in [1 .. n -> 1 .. Len(s)]
  BY <1>1, <1>2
<1>4. r \in Seq(Cache) /\ Len(r) = n
  <2>1. \A i \in 1 .. n : s[g[i]] \in Cache
    BY <1>3
  <2>2. r \in [1 .. n -> Cache]
    BY <2>1
  <2> QED BY <2>2
<1>5. Remove(s, c) = r
  <2>1. Remove(s, c) = [i \in 1 .. Len(s) - 1 |-> s[IF i < Place(s, c) THEN i ELSE i + 1]]
    BY DEF Remove
  <2> QED BY <1>0, <1>2, <2>1
<1>6. \A i, j \in 1 .. n : i < j => g[i] < g[j]
  BY <1>1
<1>7. \A i \in 1 .. n : g[i] # p
  BY <1>1
<1>8. \A k \in 1 .. Len(s) : k # p => \E i \in 1 .. n : g[i] = k
  <2> TAKE k \in 1 .. Len(s)
  <2>1. CASE k < p
    BY <1>1, <1>2, <2>1
  <2>2. CASE k > p
    <3>1. k - 1 \in 1 .. n /\ ~ (k - 1 < p) /\ (k - 1) + 1 = k
      BY <1>1, <1>2, <2>2
    <3>2. g[k - 1] = k
      BY <3>1
    <3> QED BY <3>1, <3>2
  <2> QED BY <1>1, <2>1, <2>2
<1>9. \A i \in 1 .. n : r[i] = s[g[i]]
  OBVIOUS
<1> HIDE DEF g, r
<1>10. Range(r) = Range(s) \ {c}
  <2>1. \A x : x \in Range(r) <=> \E i \in 1 .. n : s[g[i]] = x
    <3>1. \A x : x \in Range(r) <=> \E i \in 1 .. n : r[i] = x
      BY <1>4, RangeOfList
    <3> QED BY <1>9, <3>1
  <2>2. \A x : x \in Range(s) <=> \E i \in 1 .. Len(s) : s[i] = x
    BY RangeOfList
  <2>3. \A i, j \in 1 .. Len(s) : s[i] = s[j] => i = j
    BY RangeOfList
  <2>4. ASSUME NEW x \in Range(r) PROVE x \in Range(s) /\ x # c
    BY <1>1, <1>3, <1>7, <2>1, <2>2, <2>3, <2>4
  <2>5. ASSUME NEW x \in Range(s), x # c PROVE x \in Range(r)
    <3>1. PICK k \in 1 .. Len(s) : s[k] = x
      BY <2>2
    <3>2. PICK i \in 1 .. n : g[i] = k
      BY <1>1, <1>8, <2>5, <3>1
    <3> QED BY <2>1, <3>1, <3>2
  <2> QED BY <2>4, <2>5
<1>11. IsInjective(r) /\ \A x : Ahead(r, x) \subseteq Ahead(s, x)
  BY <1>3, <1>4, <1>6, <1>9, SameOrder
<1> QED BY <1>2, <1>4, <1>5, <1>10, <1>11

\* Putting an entry that is not in a list in front of it.
LEMMA FrontList ==
    ASSUME NEW s \in Seq(Cache), IsInjective(s), NEW c \in Cache, c \notin Range(s)
    PROVE  /\ <<c>> \o s \in Seq(Cache) /\ Len(<<c>> \o s) = Len(s) + 1
           /\ Range(<<c>> \o s) = Range(s) \cup {c}
           /\ IsInjective(<<c>> \o s)
           /\ \A x : Ahead(<<c>> \o s, x) \subseteq Ahead(s, x) \cup {c}
           /\ Ahead(<<c>> \o s, c) = {}
<1>0. PICK o : o = <<c>>
  OBVIOUS
<1> DEFINE r == o \o s
<1>1. /\ o \in Seq(Cache) /\ Len(o) = 1 /\ o[1] = c
  BY <1>0
<1>2. Range(o) = {c} /\ IsInjective(o)
  <2>1. DOMAIN o = {1}
    BY <1>0
  <2> QED BY <1>1, <2>1, Zenon DEF Range, IsInjective
<1>3. /\ r[1] = c
      /\ \A i \in 1 .. Len(s) : r[i + 1] = s[i]
      /\ \A k \in 1 .. Len(s) + 1 : k # 1 => r[k] = s[k - 1]
  BY <1>0
<1>4. /\ r \in Seq(Cache) /\ Len(r) = Len(s) + 1
      /\ Range(r) = Range(s) \cup {c} /\ IsInjective(r)
  <2>0. o \in Seq(Cache)
    BY <1>1
  <2>1. /\ o \o s \in Seq(Cache) /\ Len(o \o s) = Len(o) + Len(s)
        /\ Range(o \o s) = Range(o) \cup Range(s)
        /\ IsInjective(o) /\ IsInjective(s) /\ Range(o) \cap Range(s) = {}
           => IsInjective(o \o s)
    BY ONLY <2>0, JoinLists, s \in Seq(Cache)
  <2>2. Len(o) + Len(s) = Len(s) + 1
    BY <1>1
  <2> QED BY <1>2, <2>1, <2>2
<1> HIDE DEF r
<1>5. \A i, j \in 1 .. Len(r) : r[i] = r[j] => i = j
  BY <1>4, RangeOfList
<1>6. Ahead(r, c) = {}
  <2> SUFFICES ASSUME NEW y \in Ahead(r, c) PROVE FALSE
    OBVIOUS
  <2>1. PICK j \in 1 .. Len(r), k \in 1 .. Len(r) : j < k /\ r[j] = y /\ r[k] = c
    BY <1>4, AheadOf
  <2>2. 1 \in 1 .. Len(r) /\ k = 1
    BY <1>3, <1>4, <1>5, <2>1
  <2> QED BY <2>1, <2>2
<1>7. ASSUME NEW x, NEW y \in Ahead(r, x) PROVE y \in Ahead(s, x) \cup {c}
  <2>1. PICK j \in 1 .. Len(r), k \in 1 .. Len(r) : j < k /\ r[j] = y /\ r[k] = x
    BY <1>4, AheadOf
  <2>2. CASE j = 1
    BY <1>3, <2>1, <2>2
  <2>3. CASE j # 1
    <3>1. j - 1 \in 1 .. Len(s) /\ k - 1 \in 1 .. Len(s) /\ j - 1 < k - 1
      BY <1>4, <2>1, <2>3
    <3>2. s[j - 1] = y /\ s[k - 1] = x
      BY <1>3, <1>4, <2>1, <2>3
    <3> QED BY <3>1, <3>2, AheadOf
  <2> QED BY <2>2, <2>3
<1> QED BY <1>0, <1>4, <1>6, <1>7 DEF r

\* find moves an entry to the front: no entry comes or goes, and only the
\* moved one is now ahead of what it was behind.
LEMMA ActivateList ==
    ASSUME NEW s \in Seq(Cache), IsInjective(s), NEW c
    PROVE  /\ Activate(s, c) \in Seq(Cache) /\ Len(Activate(s, c)) = Len(s)
           /\ Range(Activate(s, c)) = Range(s)
           /\ IsInjective(Activate(s, c))
           /\ \A x : Ahead(Activate(s, c), x) \subseteq Ahead(s, x) \cup ({c} \cap Range(s))
           /\ Ahead(Activate(s, c), c) = {}
<1>1. CASE c \notin Range(s)
  BY <1>1, AheadOf DEF Activate
<1>2. CASE c \in Range(s)
  <2>0. PICK r : r = Remove(s, c)
    OBVIOUS
  <2>1. /\ r \in Seq(Cache) /\ Len(r) = Len(s) - 1
        /\ Range(r) = Range(s) \ {c} /\ IsInjective(r)
        /\ \A x : Ahead(r, x) \subseteq Ahead(s, x)
    BY <1>2, <2>0, RemoveList
  <2>2. c \in Cache /\ c \notin Range(r)
    BY <1>2, <2>1, RangeOfList
  <2>3. Activate(s, c) = <<c>> \o r
    BY <1>2, <2>0 DEF Activate
  <2>4. /\ <<c>> \o r \in Seq(Cache) /\ Len(<<c>> \o r) = Len(r) + 1
        /\ Range(<<c>> \o r) = Range(r) \cup {c}
        /\ IsInjective(<<c>> \o r)
        /\ \A x : Ahead(<<c>> \o r, x) \subseteq Ahead(r, x) \cup {c}
        /\ Ahead(<<c>> \o r, c) = {}
    BY <2>1, <2>2, FrontList
  <2>5. Len(r) + 1 = Len(s)
    BY <2>1
  <2>6. Range(r) \cup {c} = Range(s)
    BY <1>2, <2>1
  <2>7. \A x : Ahead(<<c>> \o r, x) \subseteq Ahead(s, x) \cup ({c} \cap Range(s))
    BY <1>2, <2>1, <2>4
  <2> QED BY <2>3, <2>4, <2>5, <2>6, <2>7
<1> QED BY <1>1, <1>2

\* ShrinkCache splits cache2_ into what stays and what goes.
LEMMA KeptList ==
    ASSUME NEW s \in Seq(Cache), IsInjective(s)
    PROVE  /\ Kept(s) \in Seq(Cache)
           /\ Len(Kept(s)) <= Len(s) /\ (s # <<>> => Len(Kept(s)) < Len(s))
           /\ Range(Kept(s)) \cup Evicted(s) = Range(s)
           /\ Range(Kept(s)) \cap Evicted(s) = {}
           /\ IsInjective(Kept(s))
           /\ \A x : Ahead(Kept(s), x) \subseteq Ahead(s, x)
<1>1. PICK n \in 0 .. Len(s) : /\ n = Len(s) - Min(ShrinkNum, Len(s))
                               /\ \A j \in 1 .. Len(s) : j > Len(s) - ShrinkNum <=> j > n
                               /\ s # <<>> => n < Len(s)
  <2>1. Len(s) \in Nat /\ (s # <<>> => Len(s) > 0)
    OBVIOUS
  <2>2. CASE ShrinkNum < Len(s)
    <3>1. Len(s) - ShrinkNum \in 0 .. Len(s)
      BY <2>1, <2>2
    <3> WITNESS Len(s) - ShrinkNum \in 0 .. Len(s)
    <3> QED BY <2>1, <2>2 DEF Min
  <2>3. CASE ~ (ShrinkNum < Len(s))
    <3> WITNESS 0 \in 0 .. Len(s)
    <3> QED BY <2>1, <2>3 DEF Min
  <2> QED BY <2>2, <2>3
<1> DEFINE r == SubSeq(s, 1, n)
           f == [i \in 1 .. n |-> i]
<1>2. r \in Seq(Cache) /\ Len(r) = n /\ \A i \in 1 .. n : r[i] = s[i]
  <2>1. \A k \in 0 .. Len(s) : /\ SubSeq(s, 1, k) \in Seq(Cache) /\ Len(SubSeq(s, 1, k)) = k
                               /\ \A i \in 1 .. k : SubSeq(s, 1, k)[i] = s[i]
    OBVIOUS
  <2> QED BY <2>1, Zenon
<1>3. Kept(s) = r
  BY <1>1 DEF Kept
<1> HIDE DEF r
<1>4. f \in [1 .. Len(r) -> 1 .. Len(s)] /\ \A i \in 1 .. Len(r) : f[i] = i /\ r[i] = s[f[i]]
  BY <1>2
<1>5. \A i, j \in 1 .. Len(r) : i < j => f[i] < f[j]
  BY <1>4
<1> HIDE DEF f
<1>6. IsInjective(r) /\ \A x : Ahead(r, x) \subseteq Ahead(s, x)
  BY <1>2, <1>4, <1>5, SameOrder
<1>7. \A x : x \in Range(r) <=> \E i \in 1 .. n : s[i] = x
  BY <1>2, RangeOfList
<1>8. \A x : x \in Range(s) <=> \E i \in 1 .. Len(s) : s[i] = x
  BY RangeOfList
<1>9. \A x : x \in Evicted(s) <=> \E i \in 1 .. Len(s) : i > n /\ s[i] = x
  <2>1. DOMAIN s = 1 .. Len(s)
    OBVIOUS
  <2>2. {j \in DOMAIN s : j > Len(s) - ShrinkNum} = {j \in 1 .. Len(s) : j > n}
    BY <1>1, <2>1
  <2> QED BY <2>2, Zenon DEF Evicted
<1>10. \A i, j \in 1 .. Len(s) : s[i] = s[j] => i = j
  BY RangeOfList
<1>11. \A i \in 1 .. n : i \in 1 .. Len(s) /\ ~ (i > n)
  OBVIOUS
<1>12. \A i \in 1 .. Len(s) : i > n \/ i \in 1 .. n
  OBVIOUS
<1>13. Range(r) \cup Evicted(s) = Range(s)
  BY <1>7, <1>8, <1>9, <1>11, <1>12, Zenon
<1>14. Range(r) \cap Evicted(s) = {}
  <2> SUFFICES ASSUME NEW x \in Range(r), x \in Evicted(s) PROVE FALSE
    OBVIOUS
  <2>1. PICK i \in 1 .. n : s[i] = x
    BY <1>7
  <2>2. PICK j \in 1 .. Len(s) : j > n /\ s[j] = x
    BY <1>9
  <2> QED BY <1>10, <1>11, <2>1, <2>2
<1> QED BY <1>1, <1>2, <1>3, <1>6, <1>13, <1>14

\* The number of entries ahead of one is its place less one.
LEMMA AheadCount ==
    ASSUME NEW s \in Seq(Cache), IsInjective(s), NEW k \in 1 .. Len(s)
    PROVE  IsFiniteSet(Ahead(s, s[k])) /\ Cardinality(Ahead(s, s[k])) = k - 1
<1>1. PICK n \in Nat : n = k - 1
  OBVIOUS
<1> DEFINE f == [j \in 1 .. n |-> s[j]]
<1>2. \A i, j \in 1 .. Len(s) : s[i] = s[j] => i = j
  BY RangeOfList
<1>3. \A y : y \in Ahead(s, s[k]) <=> \E j \in 1 .. n : s[j] = y
  <2>1. ASSUME NEW y \in Ahead(s, s[k]) PROVE \E j \in 1 .. n : s[j] = y
    <3>1. PICK j \in 1 .. Len(s), l \in 1 .. Len(s) : j < l /\ s[j] = y /\ s[l] = s[k]
      BY AheadOf
    <3>2. l = k
      BY <1>2, <3>1
    <3>3. j \in 1 .. n
      BY <1>1, <3>1, <3>2
    <3> QED BY <3>1, <3>3
  <2>2. ASSUME NEW j \in 1 .. n PROVE s[j] \in Ahead(s, s[k])
    <3>1. j \in 1 .. Len(s) /\ j < k
      BY <1>1
    <3> QED BY <3>1, AheadOf
  <2> QED BY <2>1, <2>2
<1>4. \A j \in 1 .. n : j \in 1 .. Len(s)
  BY <1>1
<1>5. f \in Bijection(1 .. n, Ahead(s, s[k]))
  <2>1. f \in [1 .. n -> Ahead(s, s[k])]
    BY <1>3
  <2>2. IsInjective(f)
    BY <1>2, <1>4 DEF IsInjective
  <2>3. \A y \in Ahead(s, s[k]) : \E j \in 1 .. n : f[j] = y
    BY <1>3
  <2> QED BY <2>1, <2>2, <2>3, Zenon DEF Bijection, Injection, Surjection
<1>6. ExistsBijection(1 .. n, Ahead(s, s[k]))
  BY <1>5 DEF ExistsBijection
<1>7. Cardinality(Ahead(s, s[k])) = n
  BY <1>6, FS_CountingElements
<1>8. IsFiniteSet(Ahead(s, s[k]))
  BY <1>6, FS_NatBijection
<1> QED BY <1>1, <1>7, <1>8
-----------------------------------------------------------------------------
(* The list of handles.                                                    *)

\* The objects and the places that the handles of a list refer to.
Refers(q) == {q[i].cache : i \in DOMAIN q} \ {None}
Uses(q) == {i \in DOMAIN q : q[i].cache # None}

\* There are no more objects referred to than handles.
LEMMA CallList ==
    ASSUME NEW q \in Seq(Handle)
    PROVE  /\ \A x : x \in Refers(q) <=> x # None /\ \E i \in 1 .. Len(q) : q[i].cache = x
           /\ Refers(q) \subseteq Cache
           /\ IsFiniteSet(Refers(q)) /\ Cardinality(Refers(q)) <= Len(q)
           /\ IsFiniteSet(Uses(q))
           /\ Uses(q) = {} => Refers(q) = {}
<1>1. DOMAIN q = 1 .. Len(q) /\ Len(q) \in Nat
  OBVIOUS
<1>2. \A x : x \in Refers(q) <=> x # None /\ \E i \in 1 .. Len(q) : q[i].cache = x
  BY <1>1, Zenon DEF Refers
<1>3. Refers(q) \subseteq Cache
  <2>1. \A i \in 1 .. Len(q) : q[i] \in Handle
    OBVIOUS
  <2>2. \A i \in 1 .. Len(q) : q[i].cache \in Cache \cup {None}
    BY <2>1 DEF Handle
  <2> QED BY <1>2, <2>2
<1> DEFINE T == {q[i].cache : i \in 1 .. Len(q)}
           f == [i \in 1 .. Len(q) |-> q[i].cache]
<1>4. f \in Surjection(1 .. Len(q), T)
  <2>1. f \in [1 .. Len(q) -> T] /\ \A t \in T : \E i \in 1 .. Len(q) : f[i] = t
    OBVIOUS
  <2> QED BY <2>1, Zenon DEF Surjection
<1>5. ExistsSurjection(1 .. Len(q), T)
  BY <1>4 DEF ExistsSurjection
<1>6. IsFiniteSet(1 .. Len(q))
  BY <1>1, FS_Interval
<1>7. Refers(q) \in SUBSET T
  BY <1>2
<1> HIDE DEF T, f
<1>8. Cardinality(T) <= Len(q) /\ IsFiniteSet(T)
  BY <1>1, <1>4, <1>5, <1>6, FS_SurjCardinalityBound, FS_Surjection
<1>9. IsFiniteSet(Refers(q)) /\ Cardinality(Refers(q)) <= Cardinality(T)
  BY <1>7, <1>8, FS_Subset
<1>10. Cardinality(Refers(q)) \in Nat /\ Cardinality(T) \in Nat
  BY <1>8, <1>9, FS_CardinalityType
<1>11. IsFiniteSet(Uses(q))
  <2>1. Uses(q) \in SUBSET (1 .. Len(q))
    BY <1>1 DEF Uses
  <2> QED BY <1>6, <2>1, FS_Subset
<1>12. Uses(q) = {} => Refers(q) = {}
  BY <1>1, <1>2 DEF Uses
<1> QED BY <1>1, <1>2, <1>3, <1>8, <1>9, <1>10, <1>11, <1>12

\* A handle is added.
LEMMA CallAdded ==
    ASSUME NEW q \in Seq(Handle), NEW e \in Handle
    PROVE  /\ Append(q, e) \in Seq(Handle) /\ Len(Append(q, e)) = Len(q) + 1
           /\ \A i \in 1 .. Len(q) : Append(q, e)[i] = q[i]
           /\ Append(q, e)[Len(q) + 1] = e
           /\ Refers(Append(q, e)) = Refers(q) \cup ({e.cache} \ {None})
           /\ Cardinality(Uses(Append(q, e))) =
                 Cardinality(Uses(q)) + (IF e.cache = None THEN 0 ELSE 1)
<1> DEFINE n == Len(q)
           p == Append(q, e)
<1>1. /\ n \in Nat /\ p \in Seq(Handle) /\ Len(p) = n + 1
      /\ DOMAIN p = 1 .. n + 1 /\ DOMAIN q = 1 .. n
      /\ \A i \in 1 .. n : p[i] = q[i]
      /\ p[n + 1] = e
  OBVIOUS
<1> HIDE DEF p, n
<1>2. \A i : i \in 1 .. n + 1 <=> i \in 1 .. n \/ i = n + 1
  BY <1>1
<1>0. n + 1 \notin 1 .. n
  BY <1>1
<1>3. Refers(p) = Refers(q) \cup ({e.cache} \ {None})
  BY <1>1, <1>2, Zenon DEF Refers
<1>4. CASE e.cache = None
  <2>1. Uses(p) = Uses(q)
    BY <1>1, <1>2, <1>4 DEF Uses
  <2>2. Cardinality(Uses(q)) \in Nat
    BY CallList, FS_CardinalityType
  <2> QED BY <1>1, <1>3, <1>4, <2>1, <2>2 DEF p, n
<1>5. CASE e.cache # None
  <2>1. Uses(p) = Uses(q) \cup {n + 1}
    BY <1>1, <1>2, <1>5 DEF Uses
  <2>2. n + 1 \notin Uses(q)
    BY <1>0, <1>1 DEF Uses
  <2>3. Cardinality(Uses(p)) = Cardinality(Uses(q)) + 1
    BY <2>1, <2>2, CallList, FS_AddElement
  <2> QED BY <1>1, <1>3, <1>5, <2>3 DEF p, n
<1> QED BY <1>4, <1>5

\* The oldest handle goes.
LEMMA CallDone ==
    ASSUME NEW q \in Seq(Handle), q # <<>>
    PROVE  /\ Tail(q) \in Seq(Handle) /\ Len(Tail(q)) = Len(q) - 1
           /\ \A i \in 1 .. Len(q) - 1 : Tail(q)[i] = q[i + 1]
           /\ Head(q) = q[1] /\ Len(q) \in Nat \ {0}
           /\ Refers(Tail(q)) \subseteq Refers(q)
           /\ Refers(q) \subseteq Refers(Tail(q)) \cup {Head(q).cache}
           /\ Cardinality(Uses(Tail(q))) =
                 Cardinality(Uses(q)) - (IF Head(q).cache = None THEN 0 ELSE 1)
<1> DEFINE n == Len(q)
           p == Tail(q)
<1>1. /\ n \in Nat \ {0} /\ p \in Seq(Handle) /\ Len(p) = n - 1
      /\ DOMAIN p = 1 .. n - 1 /\ DOMAIN q = 1 .. n
      /\ \A i \in 1 .. n - 1 : p[i] = q[i + 1]
      /\ Head(q) = q[1]
  OBVIOUS
<1> HIDE DEF p, n
<1>2. \A i \in 1 .. n : i = 1 \/ \E k \in 1 .. n - 1 : i = k + 1
  <2> TAKE i \in 1 .. n
  <2>1. i # 1 => i - 1 \in 1 .. n - 1 /\ i = (i - 1) + 1
    BY <1>1
  <2> QED BY <1>1, <2>1
<1>3. \A k \in 1 .. n - 1 : k + 1 \in 1 .. n /\ k + 1 # 1
  BY <1>1
<1>4. Refers(p) \subseteq Refers(q)
  BY <1>1, <1>3 DEF Refers
<1>5. Refers(q) \subseteq Refers(p) \cup {Head(q).cache}
  <2> SUFFICES ASSUME NEW x \in Refers(q), x # Head(q).cache PROVE x \in Refers(p)
    OBVIOUS
  <2>1. PICK i \in 1 .. n : q[i].cache = x /\ x # None
    BY <1>1 DEF Refers
  <2>2. PICK k \in 1 .. n - 1 : i = k + 1
    BY <1>1, <1>2, <2>1
  <2>3. p[k].cache = x
    BY <1>1, <2>1, <2>2
  <2> QED BY <1>1, <2>1, <2>3 DEF Refers
<1> DEFINE U == Uses(q) \ {1}
           f == [i \in Uses(p) |-> i + 1]
<1>6. f \in Bijection(Uses(p), U)
  <2>1. Uses(p) = {i \in 1 .. n - 1 : q[i + 1].cache # None}
    BY <1>1 DEF Uses
  <2>2. U = {i \in 1 .. n : q[i].cache # None /\ i # 1}
    BY <1>1 DEF Uses
  <2>3. f \in [Uses(p) -> U]
    BY <1>3, <2>1, <2>2
  <2>4. IsInjective(f)
    <3>1. \A i \in Uses(p) : i \in Int
      BY <2>1
    <3> QED BY <3>1 DEF IsInjective
  <2>5. ASSUME NEW t \in U PROVE \E i \in Uses(p) : f[i] = t
    <3>1. PICK k \in 1 .. n - 1 : t = k + 1
      BY <1>2, <2>2
    <3>2. k \in Uses(p)
      BY <2>1, <2>2, <3>1
    <3> QED BY <3>1, <3>2
  <2> QED BY <2>3, <2>4, <2>5, Zenon DEF Bijection, Injection, Surjection
<1>7. Cardinality(U) = Cardinality(Uses(p))
  BY <1>1, <1>6, CallList, FS_Bijection DEF ExistsBijection
<1>8. Cardinality(U) = IF 1 \in Uses(q) THEN Cardinality(Uses(q)) - 1 ELSE Cardinality(Uses(q))
  BY CallList, FS_RemoveElement
<1>9. 1 \in Uses(q) <=> Head(q).cache # None
  BY <1>1 DEF Uses
<1>10. Cardinality(Uses(q)) \in Nat
  BY CallList, FS_CardinalityType
<1>11. Cardinality(Uses(p)) = Cardinality(Uses(q)) - (IF Head(q).cache = None THEN 0 ELSE 1)
  <2> HIDE DEF U
  <2> QED BY <1>7, <1>8, <1>9, <1>10
<1> QED BY <1>1, <1>4, <1>5, <1>11 DEF p, n

\* The newest handle goes.
LEMMA CallTaken ==
    ASSUME NEW q \in Seq(Handle), q # <<>>
    PROVE  /\ SubSeq(q, 1, Len(q) - 1) \in Seq(Handle)
           /\ Len(SubSeq(q, 1, Len(q) - 1)) = Len(q) - 1
           /\ \A i \in 1 .. Len(q) - 1 : SubSeq(q, 1, Len(q) - 1)[i] = q[i]
           /\ Len(q) \in Nat \ {0}
           /\ Refers(SubSeq(q, 1, Len(q) - 1)) \subseteq Refers(q)
           /\ Refers(q) \subseteq Refers(SubSeq(q, 1, Len(q) - 1)) \cup {q[Len(q)].cache}
           /\ Cardinality(Uses(SubSeq(q, 1, Len(q) - 1))) =
                 Cardinality(Uses(q)) - (IF q[Len(q)].cache = None THEN 0 ELSE 1)
<1> DEFINE n == Len(q)
           p == SubSeq(q, 1, n - 1)
<1>1. n \in Nat \ {0} /\ DOMAIN q = 1 .. n
  OBVIOUS
<1>2. /\ p \in Seq(Handle) /\ Len(p) = n - 1 /\ DOMAIN p = 1 .. n - 1
      /\ \A i \in 1 .. n - 1 : p[i] = q[i]
  <2>1. \A k \in 0 .. Len(q) :
           /\ SubSeq(q, 1, k) \in Seq(Handle) /\ Len(SubSeq(q, 1, k)) = k
           /\ DOMAIN SubSeq(q, 1, k) = 1 .. k
           /\ \A i \in 1 .. k : SubSeq(q, 1, k)[i] = q[i]
    OBVIOUS
  <2>2. n - 1 \in 0 .. Len(q)
    BY <1>1
  <2> QED BY <2>1, <2>2, Zenon
<1> HIDE DEF p, n
<1>3. \A i : i \in 1 .. n <=> i \in 1 .. n - 1 \/ i = n
  BY <1>1
<1>4. n \notin 1 .. n - 1
  BY <1>1
<1>5. Refers(p) \subseteq Refers(q)
  BY <1>1, <1>2, <1>3 DEF Refers
<1>6. Refers(q) \subseteq Refers(p) \cup {q[n].cache}
  BY <1>1, <1>2, <1>3 DEF Refers
<1>7. Uses(p) = Uses(q) \ {n}
  BY <1>1, <1>2, <1>3, <1>4 DEF Uses
<1>8. n \in Uses(q) <=> q[n].cache # None
  BY <1>1, <1>3 DEF Uses
<1>9. Cardinality(Uses(p)) = IF n \in Uses(q) THEN Cardinality(Uses(q)) - 1
                                              ELSE Cardinality(Uses(q))
  BY <1>7, CallList, FS_RemoveElement
<1>10. Cardinality(Uses(q)) \in Nat
  BY CallList, FS_CardinalityType
<1>11. Cardinality(Uses(p)) = Cardinality(Uses(q)) - (IF q[n].cache = None THEN 0 ELSE 1)
  BY <1>8, <1>9, <1>10
<1> QED BY <1>1, <1>2, <1>5, <1>6, <1>11 DEF p, n
-----------------------------------------------------------------------------
(* The places that will delete an object.                                  *)

Own(c, k, u) ==
    \/ k = "table"  /\ u \in Hash /\ table[u] = c
    \/ k = "lru"    /\ u = None /\ c \in Range(lru)
    \/ k = "shrink" /\ u \in Cache /\ c \in obj[u].shrink
    \/ k = "gc"     /\ u \in Queue /\ c \in gc[u]
    \/ k = "repeat" /\ u = None /\ c \in repeat
    \/ k = "leaked" /\ u = None /\ c \in leaked

OneHome == \A c \in Cache : \A k, l, u, v : Own(c, k, u) /\ Own(c, l, v) => k = l /\ u = v

AllHome == \A c \in Cache : (\E k, u : Own(c, k, u)) <=> c \in Live

\* What a step does to the place of one object.
Stays(c) == (\A k, u : Own(c, k, u)' <=> Own(c, k, u)) /\ (c \in Live' <=> c \in Live)
Dies(c) == c \notin Live' /\ \A k, u : ~ Own(c, k, u)'
Moves(c, l, v) == c \in Live' /\ \A k, u : Own(c, k, u)' <=> k = l /\ u = v

\* A step that does one of these to each object keeps the account of owners.
LEMMA Rehomed ==
    ASSUME OneHome, AllHome,
           \A c \in Cache : Stays(c) \/ Dies(c) \/ \E l, v : Moves(c, l, v)
    PROVE  OneHome' /\ AllHome'
<1>1. ASSUME NEW c \in Cache, NEW k, NEW l, NEW u, NEW v, Own(c, k, u)', Own(c, l, v)'
      PROVE  k = l /\ u = v
  BY <1>1 DEF OneHome, Stays, Dies, Moves
<1>2. ASSUME NEW c \in Cache PROVE (\E k, u : Own(c, k, u)') <=> c \in Live'
  BY DEF AllHome, Stays, Dies, Moves
<1> QED BY <1>1, <1>2 DEF OneHome, AllHome

\* An object that has one place has no other, and it is live.
LEMMA OnlyHome ==
    ASSUME OneHome, AllHome, NEW c \in Cache, NEW k, NEW v, Own(c, k, v)
    PROVE  /\ c \in Live
           /\ \A h \in Hash : table[h] = c => k = "table" /\ v = h
           /\ c \in Range(lru) => k = "lru"
           /\ \A d \in Cache : c \in obj[d].shrink => k = "shrink" /\ v = d
           /\ \A q \in Queue : c \in gc[q] => k = "gc" /\ v = q
           /\ c \in repeat => k = "repeat"
           /\ c \in leaked => k = "leaked"
<1>1. \A h \in Hash : table[h] = c => Own(c, "table", h)
  BY DEF Own
<1>2. c \in Range(lru) => Own(c, "lru", None)
  BY DEF Own
<1>3. \A d \in Cache : c \in obj[d].shrink => Own(c, "shrink", d)
  BY DEF Own
<1>4. \A q \in Queue : c \in gc[q] => Own(c, "gc", q)
  BY DEF Own
<1>5. c \in repeat => Own(c, "repeat", None)
  BY DEF Own
<1>6. c \in leaked => Own(c, "leaked", None)
  BY DEF Own
<1>7. c \in Live
  BY DEF AllHome
<1> QED BY <1>1, <1>2, <1>3, <1>4, <1>5, <1>6, <1>7 DEF OneHome

\* An object that is not live has no place.
LEMMA NoHome ==
    ASSUME AllHome, NEW c \in Cache, c \notin Live
    PROVE  /\ \A h \in Hash : table[h] # c
           /\ c \notin Range(lru) /\ c \notin repeat /\ c \notin leaked
           /\ \A d \in Cache : c \notin obj[d].shrink
           /\ \A q \in Queue : c \notin gc[q]
<1>1. \A k, u : ~ Own(c, k, u)
  BY DEF AllHome
<1> QED BY <1>1 DEF Own

\* The shrink lists of the objects in D are handed to queue q, as far as they
\* fit, and the objects in K are deleted.
HandOver(D, K, q, fit) ==
    /\ \A x \in Cache : obj'[x].shrink = IF x \in D THEN {} ELSE obj[x].shrink
    /\ \A x \in Cache : obj'[x].state = IF x \in K THEN "dead" ELSE obj[x].state
    /\ \A p \in Queue : gc'[p] = (gc[p] \ K) \cup (IF p = q THEN fit ELSE {})
    /\ leaked' = leaked \cup (ShrinkOf(D) \ fit)
    /\ repeat' = repeat \ K
    /\ Range(lru') = Range(lru) \ K
    /\ \A h \in Hash : table'[h] = IF table[h] \in K THEN None ELSE table[h]

\* That keeps the account of owners: the entries of a shrink list move to the
\* queue or are leaked.
LEMMA HandedOver ==
    ASSUME OneHome, AllHome, NEW D \in SUBSET Cache, NEW K \in SUBSET D, NEW q \in Queue,
           NEW fit \in SUBSET ShrinkOf(D), HandOver(D, K, q, fit),
           K \cap leaked = {}, \A x \in Cache : obj[x].shrink \cap K = {}
    PROVE  OneHome' /\ AllHome'
<1>1. \A c : c \in ShrinkOf(D) <=> \E d \in D : c \in obj[d].shrink
  BY DEF ShrinkOf
<1>2. \A c \in Cache : c \in Live' <=> c \in Live /\ c \notin K
  BY DEF HandOver, Live
<1>3. ASSUME NEW c \in K PROVE Dies(c)
  <2>1. c \in Cache /\ c \notin Live'
    BY <1>2
  <2>2. c \notin ShrinkOf(D)
    BY <1>1
  <2>3. /\ \A p \in Queue : c \notin gc'[p]
        /\ c \notin leaked' /\ c \notin repeat' /\ c \notin Range(lru')
        /\ \A h \in Hash : table'[h] # c
        /\ \A x \in Cache : c \notin obj'[x].shrink
    BY <2>1, <2>2 DEF HandOver
  <2> QED BY <2>1, <2>3 DEF Dies, Own
<1>4. ASSUME NEW c \in Cache, c \in ShrinkOf(D), c \notin K
      PROVE  \E l, v : Moves(c, l, v)
  <2>1. PICK d \in D : c \in obj[d].shrink
    BY <1>1, <1>4
  <2>2. d \in Cache /\ Own(c, "shrink", d)
    BY <2>1 DEF Own
  <2>3. /\ c \in Live /\ \A h \in Hash : table[h] # c
        /\ c \notin Range(lru) /\ c \notin repeat /\ c \notin leaked
        /\ \A x \in Cache : c \in obj[x].shrink => x = d
        /\ \A p \in Queue : c \notin gc[p]
    BY <2>2, OnlyHome
  <2>4. /\ c \notin Range(lru') /\ c \notin repeat'
        /\ \A h \in Hash : table'[h] # c
        /\ \A x \in Cache : c \notin obj'[x].shrink
        /\ \A p \in Queue : c \in gc'[p] <=> p = q /\ c \in fit
        /\ c \in leaked' <=> c \notin fit
    BY <1>4, <2>1, <2>3 DEF HandOver
  <2>5. CASE c \in fit
    <3>1. Moves(c, "gc", q)
      BY <1>2, <1>4, <2>3, <2>4, <2>5 DEF Moves, Own
    <3> QED BY <3>1
  <2>6. CASE c \notin fit
    <3>1. Moves(c, "leaked", None)
      BY <1>2, <1>4, <2>3, <2>4, <2>6 DEF Moves, Own
    <3> QED BY <3>1
  <2> QED BY <2>5, <2>6
<1>5. ASSUME NEW c \in Cache, c \notin ShrinkOf(D), c \notin K PROVE Stays(c)
  <2>1. /\ c \in Range(lru') <=> c \in Range(lru)
        /\ c \in repeat' <=> c \in repeat
        /\ \A h \in Hash : table'[h] = c <=> table[h] = c
        /\ \A x \in Cache : c \in obj'[x].shrink <=> c \in obj[x].shrink
        /\ \A p \in Queue : c \in gc'[p] <=> c \in gc[p]
        /\ c \in leaked' <=> c \in leaked
    BY <1>1, <1>5 DEF HandOver
  <2> QED BY <1>2, <1>5, <2>1 DEF Stays, Own
<1> QED BY <1>3, <1>4, <1>5, Rehomed
-----------------------------------------------------------------------------
(* The invariant.                                                          *)

Known == /\ TypeOK /\ IsInjective(lru) /\ OneHome /\ AllHome
         /\ Flags /\ Filed /\ Handles /\ Stepped /\ Recent
         /\ UsesCounted /\ WithinLimit

\* The objects that handles refer to, and how many there are.
LEMMA PendingFacts ==
    ASSUME Known
    PROVE  /\ Pending = Refers(calls) \ freed /\ Pending \subseteq Cache
           /\ IsFiniteSet(Pending) /\ Cardinality(Pending) <= Len(calls)
           /\ Len(calls) \in 0 .. MaxPending /\ DOMAIN calls = 1 .. Len(calls)
           /\ \A i \in 1 .. Len(calls) : calls[i] \in Handle
           /\ \A i \in 1 .. Len(calls) : calls[i].cache \in Pending \cup freed \cup {None}
           /\ \A i \in 1 .. Len(calls) : calls[i].cache \in Cache \cup {None}
           /\ \A c \in Pending : c # None /\ \E i \in 1 .. Len(calls) : calls[i].cache = c
           /\ \A c \in Pending : Own(c, "lru", None) \/ \E h \in Hash : Own(c, "table", h)
           /\ useCount = Cardinality(Uses(calls))
<1>1. calls \in Seq(Handle) /\ Len(calls) <= MaxPending
  BY DEF Known, TypeOK, Stepped
<1>2. Pending = Refers(calls) \ freed /\ Pending \in SUBSET Refers(calls)
  BY DEF Pending, Refers
<1>3. useCount = Cardinality(Uses(calls))
  BY DEF Known, UsesCounted, Uses
<1>4. \A c \in Pending : Own(c, "lru", None) \/ \E h \in Hash : Own(c, "table", h)
  <2>1. \A c \in Range(table) : \E h \in Hash : table[h] = c
    BY DEF Known, TypeOK, Range
  <2> QED BY <2>1 DEF Known, Filed, Own
<1>5. DOMAIN calls = 1 .. Len(calls) /\ \A i \in 1 .. Len(calls) : calls[i] \in Handle
  BY <1>1
<1>6. \A i \in 1 .. Len(calls) : /\ calls[i].cache \in Pending \cup freed \cup {None}
                                 /\ calls[i].cache \in Cache \cup {None}
  BY <1>5 DEF Pending, Handle
<1>7. /\ IsFiniteSet(Refers(calls)) /\ Cardinality(Refers(calls)) <= Len(calls)
      /\ Refers(calls) \subseteq Cache /\ Len(calls) \in Nat
      /\ \A c \in Refers(calls) : c # None /\ \E i \in 1 .. Len(calls) : calls[i].cache = c
  BY <1>1, CallList
<1>8. IsFiniteSet(Pending) /\ Cardinality(Pending) <= Len(calls)
  <2>1. IsFiniteSet(Pending) /\ Cardinality(Pending) <= Cardinality(Refers(calls))
    BY <1>2, <1>7, FS_Subset
  <2>2. Cardinality(Pending) \in Nat /\ Cardinality(Refers(calls)) \in Nat
    BY <1>7, <2>1, FS_CardinalityType
  <2> QED BY <1>7, <2>1, <2>2
<1> QED BY <1>1, <1>2, <1>3, <1>4, <1>5, <1>6, <1>7, <1>8
-----------------------------------------------------------------------------
(* One lemma per step.                                                     *)

\* Steps that leave the manager, the handles and the entries as they are.
LEMMA Untouched ==
    ASSUME Known, UNCHANGED <<table, lru, calls, useCount, step, freed>>,
           \A x \in Cache : Own(x, "lru", None) \/ (\E h \in Hash : Own(x, "table", h))
              => obj'[x].id = obj[x].id /\ obj'[x].canUse = obj[x].canUse
    PROVE  /\ IsInjective(lru') /\ Filed' /\ Handles' /\ Stepped' /\ Recent'
           /\ UsesCounted' /\ WithinLimit'
<1>1. Pending' = Pending
  BY DEF Pending
<1>2. \A c \in Range(lru) : c \in Cache /\ obj'[c].id = obj[c].id /\ obj'[c].canUse = obj[c].canUse
  BY RangeOfList DEF Known, TypeOK, Own
<1>3. \A h \in Hash : table[h] # None =>
         obj'[table[h]].id = obj[table[h]].id /\ obj'[table[h]].canUse = obj[table[h]].canUse
  BY DEF Known, TypeOK, Own
<1>4. \A i \in DOMAIN calls : calls[i].cache \notin freed \cup {None} =>
         /\ obj'[calls[i].cache].id = obj[calls[i].cache].id
         /\ obj'[calls[i].cache].canUse = obj[calls[i].cache].canUse
  BY PendingFacts
<1>5. Filed'
  BY <1>1, <1>2, <1>3 DEF Known, Filed, Valid
<1>6. Handles'
  <2>1. \A i \in DOMAIN calls : calls[i].cache \notin freed \cup {None} =>
           Valid(calls[i].cache)' = Valid(calls[i].cache)
    BY <1>4 DEF Valid
  <2> QED BY <1>4, <2>1 DEF Known, Handles
<1>7. Stepped' /\ UsesCounted'
  BY DEF Known, Stepped, UsesCounted, Oldest
<1>8. Recent'
  BY <1>1 DEF Known, Recent
<1>9. WithinLimit' /\ IsInjective(lru')
  BY <1>2 DEF Known, WithinLimit, Valid
<1> QED BY <1>5, <1>6, <1>7, <1>8, <1>9

\* Submitting a set hands over what fits and leaks the rest.
LEMMA Submitted ==
    ASSUME TypeOK, NEW q \in Queue, NEW S \in SUBSET Cache, Submit(q, S)
    PROVE  /\ gc' \in [Queue -> SUBSET Cache] /\ leaked' \subseteq Cache
           /\ \E fit \in SUBSET S :
                /\ \A p \in Queue : gc'[p] = gc[p] \cup (IF p = q THEN fit ELSE {})
                /\ leaked' = leaked \cup (S \ fit)
<1>1. PICK fit \in SUBSET S : /\ gc' = [gc EXCEPT ![q] = @ \cup fit]
                              /\ leaked' = leaked \cup (S \ fit)
  BY DEF Submit
<1>2. \A p \in Queue : gc'[p] = gc[p] \cup (IF p = q THEN fit ELSE {})
  BY <1>1 DEF TypeOK
<1>3. gc' \in [Queue -> SUBSET Cache] /\ leaked' \subseteq Cache
  BY <1>1 DEF TypeOK
<1> QED BY <1>1, <1>2, <1>3

\* The shrink list of one object.
LEMMA ShrinkOfOne == \A c : ShrinkOf({c}) = obj[c].shrink
BY DEF ShrinkOf

\* Finalize empties the shrink list of an object and sets whether it can be used.
LEMMA Finalized ==
    ASSUME NEW o \in [Cache -> Object], NEW c \in Cache, NEW b \in BOOLEAN
    PROVE  /\ Finished(o, c, b) \in [Cache -> Object]
           /\ \A x \in Cache : x # c => Finished(o, c, b)[x] = o[x]
           /\ Finished(o, c, b)[c].state = o[c].state /\ Finished(o, c, b)[c].id = o[c].id
           /\ Finished(o, c, b)[c].shrink = {} /\ (Finished(o, c, b)[c].canUse <=> b)
<1> DEFINE r == [o[c] EXCEPT !.shrink = {}, !.canUse = b]
<1>1. o[c] \in Object
  OBVIOUS
<1>2. r \in Object /\ r.state = o[c].state /\ r.id = o[c].id /\ r.shrink = {} /\ r.canUse = b
  BY <1>1 DEF Object
<1>3. Finished(o, c, b) = [o EXCEPT ![c] = r]
  BY DEF Finished
<1> HIDE DEF r
<1> QED BY <1>2, <1>3

\* The clearing begins, or a thread ends.
LEMMA QuietStep ==
    ASSUME Known, BeginClear \/ ThreadEnds \/ UNCHANGED vars
    PROVE  Known'
<1>1. UNCHANGED <<obj, useCount, calls, step, repeat, gc, leaked, table, lru, hasFull>>
      /\ clearing' \in BOOLEAN /\ counting' \in BOOLEAN /\ UNCHANGED <<unwaited, freed>>
  BY DEF BeginClear, ThreadEnds, manager, wait, vars, Known, TypeOK
<1>2. TypeOK' /\ Flags'
  BY <1>1 DEF Known, TypeOK, Flags, Live, Valid
<1>3. OneHome' /\ AllHome'
  BY <1>1 DEF Known, OneHome, AllHome, Own, Live
<1> QED BY <1>1, <1>2, <1>3, Untouched DEF Known

\* The first run of a repeatable executor.
LEMMA RunRepeatableStep ==
    ASSUME Known, NEW c \in Cache, RunRepeatable(c)
    PROVE  Known'
<1>1. /\ c \in repeat /\ ~ obj[c].canUse
      /\ UNCHANGED <<useCount, calls, step, repeat, clearing, counting, unwaited, freed, table, lru, hasFull>>
      /\ Submit("runner", obj[c].shrink)
  BY DEF RunRepeatable, manager, wait
<1>2. obj \in [Cache -> Object]
  BY DEF Known, TypeOK
<1>3. /\ obj' \in [Cache -> Object]
      /\ \A x \in Cache : x # c => obj'[x] = obj[x]
      /\ obj'[c].state = obj[c].state /\ obj'[c].shrink = {}
      /\ obj'[c].canUse => obj'[c].id # None
  <2>1. PICK o \in {obj, Invalidate(c)} : obj' = Finished(o, c, o[c].id # None)
    BY DEF RunRepeatable
  <2>2. /\ o \in [Cache -> Object]
        /\ \A x \in Cache : x # c => o[x] = obj[x]
        /\ o[c].state = obj[c].state
    BY <1>2, <2>1 DEF Invalidate, Object
  <2>3. PICK use \in BOOLEAN : use = (o[c].id # None)
    OBVIOUS
  <2>4. /\ Finished(o, c, use) \in [Cache -> Object]
        /\ \A x \in Cache : x # c => Finished(o, c, use)[x] = o[x]
        /\ Finished(o, c, use)[c].state = o[c].state /\ Finished(o, c, use)[c].id = o[c].id
        /\ Finished(o, c, use)[c].shrink = {} /\ (Finished(o, c, use)[c].canUse <=> use)
    BY <2>2, Finalized
  <2>5. obj' = Finished(o, c, use)
    BY <2>1, <2>3
  <2> QED BY <2>2, <2>3, <2>4, <2>5
<1>4. Own(c, "repeat", None)
  BY <1>1 DEF Own
<1>5. c \in Live /\ \A x \in Cache : obj'[x].state = obj[x].state
  BY <1>2, <1>3, <1>4, OnlyHome DEF Known
<1>6. PICK fit \in SUBSET obj[c].shrink :
                /\ \A p \in Queue : gc'[p] = gc[p] \cup (IF p = "runner" THEN fit ELSE {})
                /\ leaked' = leaked \cup (obj[c].shrink \ fit)
  BY <1>1, <1>2, Submitted DEF Queue, Known, Object
<1>7. TypeOK'
  <2>1. gc' \in [Queue -> SUBSET Cache] /\ leaked' \subseteq Cache
    BY <1>1, <1>2, Submitted DEF Queue, Known, Object
  <2> QED BY <1>1, <1>3, <2>1 DEF Known, TypeOK
<1>8. OneHome' /\ AllHome'
  <2>1. HandOver({c}, {}, "runner", fit)
    BY <1>1, <1>2, <1>3, <1>6, ShrinkOfOne DEF HandOver
  <2>2. /\ {c} \in SUBSET Cache /\ {} \in SUBSET {c} /\ "runner" \in Queue
        /\ fit \in SUBSET ShrinkOf({c}) /\ OneHome /\ AllHome
    BY <1>6, ShrinkOfOne DEF Known, Queue
  <2> QED BY ONLY <2>1, <2>2, HandedOver
<1>9. Flags'
  BY <1>1, <1>2, <1>3, <1>5 DEF Known, Flags, Live, Valid
<1>10. \A x \in Cache : Own(x, "lru", None) \/ (\E h \in Hash : Own(x, "table", h)) => x # c
  BY <1>4 DEF Known, OneHome
<1> QED BY <1>1, <1>2, <1>3, <1>7, <1>8, <1>9, <1>10, Untouched DEF Known

\* An object that is not in the manager is deleted.
LEMMA Deleted ==
    ASSUME Known, NEW c \in Cache, NEW q \in Queue, NEW fit \in SUBSET obj[c].shrink,
           UNCHANGED <<useCount, calls, step, clearing, counting, unwaited, freed, table, lru, hasFull>>,
           obj' = [obj EXCEPT ![c] = Dead],
           repeat' = repeat \ {c},
           \A p \in Queue : gc'[p] = (gc[p] \ {c}) \cup (IF p = q THEN fit ELSE {}),
           leaked' = leaked \cup (obj[c].shrink \ fit),
           Own(c, "repeat", None) \/ \E p \in Queue : Own(c, "gc", p),
           gc' \in [Queue -> SUBSET Cache], leaked' \subseteq Cache
    PROVE  Known'
<1>1. obj \in [Cache -> Object]
  BY DEF Known, TypeOK
<1>2. Dead \in Object
      /\ Dead.state = "dead" /\ Dead.id = None /\ ~ Dead.canUse /\ Dead.shrink = {}
  BY DEF Dead, Object
<1>3. TypeOK'
  BY <1>1, <1>2 DEF Known, TypeOK
<1>4. /\ c \in Live /\ c \notin leaked /\ c \notin Range(lru) /\ \A h \in Hash : table[h] # c
      /\ \A x \in Cache : c \notin obj[x].shrink
  BY OnlyHome DEF Known
<1>5. OneHome' /\ AllHome'
  <2>1. \A x \in Cache : /\ obj'[x].shrink = IF x \in {c} THEN {} ELSE obj[x].shrink
                         /\ obj'[x].state = IF x \in {c} THEN "dead" ELSE obj[x].state
    BY <1>1, <1>2
  <2>2. /\ Range(lru') = Range(lru) \ {c}
        /\ \A h \in Hash : table'[h] = IF table[h] \in {c} THEN None ELSE table[h]
    BY <1>4
  <2>3. HandOver({c}, {c}, q, fit)
    BY <2>1, <2>2, ShrinkOfOne DEF HandOver
  <2>4. /\ {c} \in SUBSET Cache /\ {c} \in SUBSET {c}
        /\ fit \in SUBSET ShrinkOf({c}) /\ OneHome /\ AllHome
        /\ {c} \cap leaked = {} /\ \A x \in Cache : obj[x].shrink \cap {c} = {}
    BY <1>4, ShrinkOfOne DEF Known
  <2> QED BY ONLY <2>3, <2>4, q \in Queue, HandedOver
<1>6. Flags'
  BY <1>1, <1>2 DEF Known, Flags, Live, Valid
<1>7. \A x \in Cache : Own(x, "lru", None) \/ (\E h \in Hash : Own(x, "table", h)) => x # c
  BY <1>4 DEF Own
<1> QED BY <1>1, <1>3, <1>5, <1>6, <1>7, Untouched DEF Known

\* A repeatable executor is destroyed.
LEMMA DestroyRepeatableStep ==
    ASSUME Known, NEW c \in Cache, DestroyRepeatable(c)
    PROVE  Known'
<1>1. /\ c \in repeat /\ repeat' = repeat \ {c} /\ obj' = [obj EXCEPT ![c] = Dead]
      /\ UNCHANGED <<useCount, calls, step, clearing, counting, unwaited, freed, table, lru, hasFull>>
      /\ Submit("runner", obj[c].shrink)
  BY DEF DestroyRepeatable, manager, wait
<1>2. TypeOK /\ obj[c].shrink \in SUBSET Cache /\ "runner" \in Queue
  BY DEF Known, TypeOK, Queue, Object
<1>3. gc' \in [Queue -> SUBSET Cache] /\ leaked' \subseteq Cache
  BY <1>1, <1>2, Submitted
<1>4. PICK fit \in SUBSET obj[c].shrink :
                /\ \A p \in Queue : gc'[p] = gc[p] \cup (IF p = "runner" THEN fit ELSE {})
                /\ leaked' = leaked \cup (obj[c].shrink \ fit)
  BY <1>1, <1>2, Submitted
<1>5. Own(c, "repeat", None)
  BY <1>1 DEF Own
<1>6. \A p \in Queue : gc[p] \ {c} = gc[p]
  BY <1>5, OnlyHome DEF Known
<1>7. \A p \in Queue : gc'[p] = (gc[p] \ {c}) \cup (IF p = "runner" THEN fit ELSE {})
  BY <1>4, <1>6
<1> QED BY <1>1, <1>2, <1>3, <1>4, <1>5, <1>7, Deleted

\* A collector deletes an object of its queue.
LEMMA CollectStep ==
    ASSUME Known, NEW q \in Queue, Collect(q)
    PROVE  Known'
<1>1. PICK c \in gc[q] :
        /\ obj' = [obj EXCEPT ![c] = Dead]
        /\ gc' = [p \in Queue |-> (IF p = q THEN gc[p] \ {c} ELSE gc[p])
                                  \cup (IF p = "gc" THEN obj[c].shrink ELSE {})]
        /\ UNCHANGED <<useCount, calls, step, repeat, leaked, clearing, counting, unwaited, freed, table, lru, hasFull>>
  BY DEF Collect, manager, wait
<1>2. c \in Cache /\ TypeOK /\ obj[c].shrink \in SUBSET Cache /\ "gc" \in Queue
  BY DEF Known, TypeOK, Queue, Object
<1>3. Own(c, "gc", q)
  BY <1>1 DEF Own
<1>4. c \notin repeat /\ \A p \in Queue : p # q => c \notin gc[p]
  BY <1>2, <1>3, OnlyHome DEF Known
<1>5. \A p \in Queue : gc'[p] = (gc[p] \ {c}) \cup (IF p = "gc" THEN obj[c].shrink ELSE {})
  BY <1>1, <1>4
<1>6. gc' \in [Queue -> SUBSET Cache] /\ leaked' \subseteq Cache
  BY <1>1, <1>2 DEF TypeOK
<1>7. repeat' = repeat \ {c} /\ leaked' = leaked \cup (obj[c].shrink \ obj[c].shrink)
  BY <1>1, <1>4
<1> QED BY <1>1, <1>2, <1>3, <1>5, <1>6, <1>7, Deleted
-----------------------------------------------------------------------------
(* Phase two.                                                              *)

\* What is ahead of an entry is a finite set.
LEMMA AheadFinite ==
    ASSUME NEW s \in Seq(Cache), IsInjective(s), NEW x
    PROVE  IsFiniteSet(Ahead(s, x))
<1>1. CASE x \notin Range(s)
  BY <1>1, AheadOf, FS_EmptySet
<1>2. CASE x \in Range(s)
  BY <1>2, RangeOfList, AheadCount
<1> QED BY <1>1, <1>2

\* The oldest handle is an executor with recording c, which is run or finalized.
LEMMA Worked ==
    ASSUME Known, UNCHANGED <<table, lru, calls, useCount, freed>>,
           calls # <<>>, NEW c \in Cache, calls[1].cache = c, calls[1].kind = "exec", c \notin freed,
           obj' \in [Cache -> Object], \A x \in Cache : x # c => obj'[x] = obj[x],
           obj'[c].id \in {obj[c].id, None}, ~ obj[c].canUse,
           obj'[c].canUse => obj'[c].id # None,
           step' \in {"finalize", "release"},
           step' = "finalize" => ~ obj'[c].canUse,
           step' = "release" /\ obj'[c].id # None => obj'[c].canUse
    PROVE  /\ IsInjective(lru') /\ Filed' /\ Handles' /\ Stepped' /\ Recent'
           /\ UsesCounted' /\ WithinLimit'
<1>1. Pending' = Pending
  BY DEF Pending
<1>2. c \in Pending /\ DOMAIN calls = 1 .. Len(calls) /\ 1 \in DOMAIN calls
      /\ calls \in Seq(Handle)
  BY PendingFacts DEF Known, TypeOK
<1>3. Range(lru) \subseteq Cache /\ \A h \in Hash : table[h] \in Cache \cup {None}
  BY RangeOfList DEF Known, TypeOK
<1>4. Filed'
  <2>1. \A h \in Hash : table[h] # None => obj'[table[h]].id \in {h, None}
    BY <1>3 DEF Known, Filed
  <2>2. \A x \in Range(lru) : /\ obj'[x].id \in Key \cup {None}
                              /\ obj'[x].id # None /\ ~ obj'[x].canUse => x \in Pending
    BY <1>2, <1>3 DEF Known, Filed, Valid
  <2> QED BY <1>1, <2>1, <2>2 DEF Known, Filed, Valid
<1>5. Handles'
  <2>1. \A i \in DOMAIN calls : calls[i].kind = "wrap" =>
           calls[i].cache # None /\ (calls[i].cache \in freed \/ obj'[calls[i].cache].canUse)
    <3> TAKE i \in DOMAIN calls
    <3> HAVE calls[i].kind = "wrap"
    <3>1. calls[i].cache # None /\ (calls[i].cache \in freed \/ obj[calls[i].cache].canUse)
      BY DEF Known, Handles
    <3>2. calls[i].cache \in Cache
      BY <1>2, <3>1, PendingFacts
    <3> QED BY <3>1, <3>2
  <2>2. ASSUME NEW i \in DOMAIN calls, i # 1, calls[i].kind = "exec",
               calls[i].cache \notin freed \cup {None}
        PROVE  obj'[calls[i].cache].id # None /\ ~ obj'[calls[i].cache].canUse
    <3>1. calls[i].cache \in Cache
      BY <1>2, <2>2, PendingFacts
    <3>2. calls[i].cache # c
      BY <1>2, <2>2 DEF Known, Handles
    <3>3. Valid(calls[i].cache) /\ ~ obj[calls[i].cache].canUse
      BY <2>2 DEF Known, Handles
    <3> QED BY <3>1, <3>2, <3>3 DEF Valid
  <2>3. \A i, j \in DOMAIN calls :
         i # j /\ calls[i].kind = "exec" /\ calls[j].kind = "exec" /\ calls[i].cache # None
         => calls[i].cache # calls[j].cache
    BY DEF Known, Handles
  <2>4. \A i \in DOMAIN calls : calls[i].kind = "exec" /\ calls[i].cache \notin freed \cup {None} =>
          /\ i # 1 \/ step' = "run" => obj'[calls[i].cache].id # None
          /\ i # 1 \/ step' # "release" => ~ obj'[calls[i].cache].canUse
          /\ i = 1 /\ step' = "release" =>
                (obj'[calls[i].cache].id # None => obj'[calls[i].cache].canUse)
    BY <2>2
  <2> QED BY <2>1, <2>3, <2>4 DEF Handles, Valid
<1>6. Stepped' /\ UsesCounted'
  <2>1. Oldest' = calls[1]
    BY DEF Oldest
  <2> QED BY <2>1 DEF Known, Stepped, UsesCounted
<1>7. Recent'
  BY <1>1 DEF Known, Recent
<1>8. WithinLimit' /\ IsInjective(lru')
  <2>1. \A x, y \in Range(lru) : obj'[x].id # None /\ obj'[x].id = obj'[y].id => x = y
    BY <1>3 DEF Known, WithinLimit, Valid
  <2> QED BY <2>1 DEF Known, WithinLimit, Valid
<1> QED BY <1>4, <1>5, <1>6, <1>7, <1>8

\* A wrap is run.
LEMMA RunWrapStep ==
    ASSUME Known, RunWrap
    PROVE  Known'
<1>1. /\ calls # <<>> /\ calls[1].kind = "wrap" /\ step' = "release"
      /\ UNCHANGED <<obj, useCount, calls, repeat, gc, leaked, clearing, counting, unwaited, freed, table, lru, hasFull>>
  BY DEF RunWrap, manager, wait, Oldest
<1>2. TypeOK' /\ Flags'
  BY <1>1 DEF Known, TypeOK, Flags, Live, Valid
<1>3. OneHome' /\ AllHome'
  BY <1>1 DEF Known, OneHome, AllHome, Own, Live
<1>4. 1 \in DOMAIN calls /\ Oldest = calls[1]
  BY <1>1 DEF Known, TypeOK, Oldest
<1>5. Handles'
  BY <1>1, <1>4 DEF Known, Handles, Valid
<1>6. Stepped'
  BY <1>1, <1>4 DEF Known, Handles, Stepped, Oldest
<1>7. Filed' /\ Recent' /\ UsesCounted' /\ WithinLimit' /\ IsInjective(lru')
  BY <1>1 DEF Known, Filed, Recent, UsesCounted, WithinLimit, Pending, Valid
<1> QED BY <1>2, <1>3, <1>5, <1>6, <1>7 DEF Known

\* An executor with a recording is run.
LEMMA RunRecordStep ==
    ASSUME Known, RunRecord
    PROVE  Known'
<1>0. PICK c : c = calls[1].cache
  OBVIOUS
<1>1. /\ calls # <<>> /\ step = "run" /\ calls[1].kind = "exec" /\ c \notin freed \cup {None}
      /\ obj' \in {obj, Invalidate(c)} /\ step' = "finalize"
      /\ UNCHANGED <<useCount, calls, repeat, gc, leaked, clearing, counting, unwaited, freed, table, lru, hasFull>>
  BY <1>0 DEF RunRecord, manager, wait, Oldest, Intact
<1>2. 1 \in DOMAIN calls /\ calls[1] \in Handle
  BY <1>1 DEF Known, TypeOK
<1>3. c \in Cache
  BY <1>0, <1>1, <1>2 DEF Handle
<1>4. ~ obj[c].canUse
  BY <1>0, <1>1, <1>2 DEF Known, Handles
<1>5. obj \in [Cache -> Object]
  BY DEF Known, TypeOK
<1>6. /\ obj' \in [Cache -> Object] /\ \A x \in Cache : x # c => obj'[x] = obj[x]
      /\ obj'[c].id \in {obj[c].id, None} /\ ~ obj'[c].canUse
      /\ obj'[c].state = obj[c].state /\ obj'[c].shrink = obj[c].shrink
  BY <1>1, <1>3, <1>4, <1>5 DEF Invalidate, Object
<1>7. TypeOK' /\ Flags'
  BY <1>1, <1>3, <1>6 DEF Known, TypeOK, Flags, Live, Valid
<1>8. OneHome' /\ AllHome'
  <2>1. \A x \in Cache : Stays(x)
    BY <1>1, <1>6 DEF Stays, Own, Live
  <2> QED BY <2>1, Rehomed DEF Known
<1>9. /\ IsInjective(lru') /\ Filed' /\ Handles' /\ Stepped' /\ Recent'
      /\ UsesCounted' /\ WithinLimit'
  BY <1>0, <1>1, <1>3, <1>4, <1>6, Worked
<1> QED BY <1>7, <1>8, <1>9 DEF Known

\* A recording is finalized.
LEMMA FinalizeStep ==
    ASSUME Known, Finalize
    PROVE  Known'
<1>0. PICK c : c = calls[1].cache
  OBVIOUS
<1>1. /\ step = "finalize" /\ step' = "release" /\ c \notin freed
      /\ Submit("runner", obj[c].shrink)
      /\ obj' = Finished(obj, c, obj[c].canUse \/ Valid(c))
      /\ UNCHANGED <<useCount, calls, repeat, clearing, counting, unwaited, freed, table, lru, hasFull>>
  BY <1>0 DEF Finalize, manager, wait, Oldest, Intact
<1>2. calls # <<>> /\ c # None /\ calls[1].kind = "exec"
  BY <1>0, <1>1 DEF Known, Stepped, Oldest
<1>3. 1 \in DOMAIN calls /\ calls[1] \in Handle
  BY <1>2 DEF Known, TypeOK
<1>4. c \in Cache /\ ~ obj[c].canUse
  BY <1>0, <1>1, <1>2, <1>3 DEF Known, Handles, Handle
<1>5. obj \in [Cache -> Object] /\ obj[c].shrink \in SUBSET Cache /\ TypeOK /\ "runner" \in Queue
  BY <1>4 DEF Known, TypeOK, Object, Queue
<1>6. /\ obj' \in [Cache -> Object] /\ \A x \in Cache : x # c => obj'[x] = obj[x]
      /\ obj'[c].id = obj[c].id /\ (obj'[c].canUse <=> obj[c].id # None)
      /\ obj'[c].state = obj[c].state /\ obj'[c].shrink = {}
  <2>1. PICK use \in BOOLEAN : use = (obj[c].canUse \/ Valid(c))
    OBVIOUS
  <2>2. use <=> obj[c].id # None
    BY <1>4, <2>1 DEF Valid
  <2>3. obj' = Finished(obj, c, use)
    BY <1>1, <2>1, Zenon
  <2> QED BY <1>4, <1>5, <2>2, <2>3, Finalized
<1>7. gc' \in [Queue -> SUBSET Cache] /\ leaked' \subseteq Cache
  BY <1>1, <1>5, Submitted
<1>8. PICK fit \in SUBSET obj[c].shrink :
                /\ \A p \in Queue : gc'[p] = gc[p] \cup (IF p = "runner" THEN fit ELSE {})
                /\ leaked' = leaked \cup (obj[c].shrink \ fit)
  BY <1>1, <1>5, Submitted
<1>9. TypeOK'
  BY <1>1, <1>6, <1>7 DEF Known, TypeOK
<1>10. Flags'
  BY <1>1, <1>4, <1>6 DEF Known, Flags, Live, Valid
<1>11. OneHome' /\ AllHome'
  <2>1. HandOver({c}, {}, "runner", fit)
    BY <1>1, <1>6, <1>8, ShrinkOfOne DEF HandOver
  <2>2. /\ {c} \in SUBSET Cache /\ {} \in SUBSET {c} /\ "runner" \in Queue
        /\ fit \in SUBSET ShrinkOf({c}) /\ OneHome /\ AllHome
    BY <1>4, <1>5, <1>8, ShrinkOfOne DEF Known
  <2> QED BY ONLY <2>1, <2>2, HandedOver
<1>12. /\ IsInjective(lru') /\ Filed' /\ Handles' /\ Stepped' /\ Recent'
       /\ UsesCounted' /\ WithinLimit'
  BY <1>0, <1>1, <1>2, <1>4, <1>6, Worked
<1> QED BY <1>9, <1>10, <1>11, <1>12 DEF Known

\* The oldest handle is done: it has no recording, or one that is finished.
LEMMA DoneStep ==
    ASSUME Known, RunPlain \/ Release
    PROVE  Known'
<1>0. PICK o : o = calls[1].cache
  OBVIOUS
<1>1. /\ calls # <<>> /\ calls' = Tail(calls) /\ step' = "run" /\ Oldest = calls[1]
      /\ useCount' = useCount - (IF o = None THEN 0 ELSE 1)
      /\ UNCHANGED <<obj, repeat, gc, leaked, clearing, counting, unwaited, freed, table, lru, hasFull>>
  <2>1. CASE RunPlain
    BY <1>0, <2>1 DEF RunPlain, manager, wait, Oldest, Known, TypeOK
  <2>2. CASE Release
    BY <1>0, <2>2 DEF Release, manager, wait, Oldest, Known, Stepped
  <2> QED BY <2>1, <2>2
<1>2. /\ calls' \in Seq(Handle) /\ Len(calls') = Len(calls) - 1
      /\ \A i \in 1 .. Len(calls) - 1 : calls'[i] = calls[i + 1]
      /\ Len(calls) \in Nat \ {0} /\ DOMAIN calls' = 1 .. Len(calls) - 1
      /\ Refers(calls') \subseteq Refers(calls)
      /\ Refers(calls) \subseteq Refers(calls') \cup {o}
      /\ Cardinality(Uses(calls')) = Cardinality(Uses(calls)) - (IF o = None THEN 0 ELSE 1)
  <2>1. calls \in Seq(Handle)
    BY DEF Known, TypeOK
  <2>2. calls' \in Seq(Handle) /\ Len(calls') = Len(calls) - 1
    BY <1>1, <2>1, CallDone
  <2> QED BY <1>0, <1>1, <2>1, <2>2, CallDone
<1>3. Pending = Refers(calls) \ freed /\ Pending' = Refers(calls') \ freed
  BY <1>1 DEF Pending, Refers
<1>4. UsesCounted' /\ useCount' \in Nat
  <2>1. useCount' = Cardinality(Uses(calls')) /\ IsFiniteSet(Uses(calls'))
    BY <1>1, <1>2, PendingFacts, CallList
  <2>2. useCount' \in Nat
    BY <2>1, FS_CardinalityType
  <2> QED BY <2>1, <2>2 DEF UsesCounted, Uses
<1>5. TypeOK' /\ Flags'
  BY <1>1, <1>2, <1>4 DEF Known, TypeOK, Flags, Live, Valid
<1>6. OneHome' /\ AllHome'
  BY <1>1 DEF Known, OneHome, AllHome, Own, Live
<1>7. o # None /\ Valid(o) => obj[o].canUse
  <2>1. CASE RunPlain
    BY <1>0, <1>1, <2>1 DEF RunPlain
  <2>2. CASE Release
    <3>1. step = "release" /\ 1 \in DOMAIN calls /\ calls[1].kind \in {"exec", "wrap"}
      BY <1>1, <2>2, PendingFacts DEF Release, Handle
    <3>2. o \in Cache \cup {None}
      BY <1>0, <3>1, PendingFacts
    <3>3. o \in Cache /\ o \in freed => ~ Valid(o)
      BY DEF Known, Flags, Live
    <3> QED BY <1>0, <3>1, <3>2, <3>3 DEF Known, Handles
  <2> QED BY <2>1, <2>2
<1>8. Filed'
  <2>1. \A x \in Range(lru) : Valid(x) /\ ~ obj[x].canUse => x \in Pending'
    <3> TAKE x \in Range(lru)
    <3> HAVE Valid(x) /\ ~ obj[x].canUse
    <3>1. x \in Pending /\ x # None
      BY PendingFacts DEF Known, Filed
    <3>2. x # o
      BY <1>7, <3>1
    <3> QED BY <1>2, <1>3, <3>1, <3>2
  <2>2. Pending' \subseteq Range(lru) \cup Range(table)
    BY <1>2, <1>3 DEF Known, Filed
  <2> QED BY <1>1, <2>1, <2>2 DEF Known, Filed, Valid
<1>9. \A i \in 1 .. Len(calls) - 1 : i + 1 \in DOMAIN calls /\ i + 1 # 1
  BY <1>2, PendingFacts
<1>10. Handles'
  <2>1. ASSUME NEW i \in 1 .. Len(calls) - 1
        PROVE  /\ calls'[i].kind = "wrap" =>
                    calls'[i].cache # None /\ (calls'[i].cache \in freed \/ obj[calls'[i].cache].canUse)
               /\ calls'[i].kind = "exec" /\ calls'[i].cache \notin freed \cup {None}
                  => Valid(calls'[i].cache) /\ ~ obj[calls'[i].cache].canUse
    BY <1>2, <1>9 DEF Known, Handles
  <2>2. ASSUME NEW i \in 1 .. Len(calls) - 1, NEW j \in 1 .. Len(calls) - 1, i # j,
               calls'[i].kind = "exec", calls'[j].kind = "exec", calls'[i].cache # None
        PROVE  calls'[i].cache # calls'[j].cache
    <3>1. i + 1 # j + 1 /\ i + 1 \in DOMAIN calls /\ j + 1 \in DOMAIN calls
      BY <1>9, <2>2
    <3> QED BY <1>2, <2>2, <3>1 DEF Known, Handles
  <2> QED BY <1>1, <1>2, <2>1, <2>2 DEF Handles, Valid
<1>11. Stepped'
  BY <1>1, <1>2 DEF Known, Stepped
<1>12. Recent'
  <2> SUFFICES ASSUME NEW i \in 1 .. Len(calls) - 1
               PROVE  /\ Cardinality(Ahead(lru, calls[i + 1].cache) \ Pending') + i + 1
                            <= MaxPending
                      /\ i < MaxPending
    <3>1. \A i \in 1 .. Len(calls) - 1 : i < MaxPending => i # MaxPending
      OBVIOUS
    <3> QED BY <1>1, <1>2, <3>1 DEF Recent
  <2>0. PICK x : x = calls[i + 1].cache
    OBVIOUS
  <2> DEFINE a == Ahead(lru, x) \ Pending
             b == Ahead(lru, x) \ Pending'
  <2>1. IsFiniteSet(a) /\ Cardinality(a) \in Nat
    BY AheadFinite, FS_Difference, FS_CardinalityType DEF Known, TypeOK
  <2>2. b \in SUBSET (a \cup {o})
    BY <1>2, <1>3
  <2>3. IsFiniteSet(a \cup {o}) /\ Cardinality(a \cup {o}) \in {Cardinality(a), Cardinality(a) + 1}
    BY <2>1, FS_AddElement
  <2>4. IsFiniteSet(b) /\ Cardinality(b) <= Cardinality(a \cup {o})
    BY <2>2, <2>3, FS_Subset
  <2>5. Cardinality(b) \in Nat /\ Cardinality(b) <= Cardinality(a) + 1
    BY <2>1, <2>3, <2>4, FS_CardinalityType
  <2>6. i + 1 <= MaxPending /\ i \in Nat
    BY <1>2 DEF Known, Stepped
  <2>7. CASE i + 1 < MaxPending
    <3>1. Cardinality(a) + (i + 1) + 1 <= MaxPending
      BY <1>9, <2>0, <2>7 DEF Known, Recent
    <3> HIDE DEF a, b
    <3>2. Cardinality(b) + i + 1 <= MaxPending
      BY <2>1, <2>5, <2>6, <3>1
    <3> QED BY <2>0, <2>6, <3>2 DEF b
  <2>8. CASE i + 1 = MaxPending
    <3>1. Ahead(lru, x) = {}
      BY <1>9, <2>0, <2>8 DEF Known, Recent
    <3>2. Cardinality(b) = 0
      BY <3>1, FS_EmptySet
    <3> HIDE DEF b
    <3>3. Cardinality(b) + i + 1 <= MaxPending
      BY <2>6, <2>8, <3>2
    <3> QED BY <2>0, <2>6, <2>8, <3>3 DEF b
  <2> QED BY <2>6, <2>7, <2>8
<1>13. WithinLimit' /\ IsInjective(lru')
  BY <1>1 DEF Known, WithinLimit, Valid
<1> QED BY <1>4, <1>5, <1>6, <1>8, <1>10, <1>11, <1>12, <1>13 DEF Known
-----------------------------------------------------------------------------
(* Repeatable executors and clearing.                                      *)

\* The number of hashes with an entry does not grow when entries go.
LEMMA FewerFiled ==
    ASSUME TypeOK, NEW t, \A h \in Hash : t[h] # None => table[h] # None
    PROVE  Cardinality({h \in Hash : t[h] # None}) <= Cardinality({h \in Hash : table[h] # None})
<1>1. /\ {h \in Hash : table[h] # None} \in SUBSET Hash
      /\ {h \in Hash : t[h] # None} \in SUBSET {h \in Hash : table[h] # None}
  OBVIOUS
<1>2. IsFiniteSet({h \in Hash : table[h] # None})
  BY <1>1, FS_Subset
<1> QED BY <1>1, <1>2, FS_Subset

\* An executor takes its recording out of the cache.
LEMMA SetRepeatableStep ==
    ASSUME Known, SetRepeatable
    PROVE  Known'
<1>0. PICK n, r : n = Len(calls) /\ r = calls[Len(calls)].cache
  OBVIOUS
<1>1. /\ calls # <<>> /\ calls[n].kind = "exec" /\ (n > 1 \/ step = "run") /\ r \notin freed
      /\ calls' = SubSeq(calls, 1, Len(calls) - 1)
      /\ UNCHANGED <<obj, hasFull, step, gc, leaked, clearing, counting, unwaited, freed>>
  BY <1>0 DEF SetRepeatable, Last, wait
<1>2. TypeOK /\ calls \in Seq(Handle) /\ lru \in Seq(Cache) /\ IsInjective(lru)
      /\ table \in [Hash -> Cache \cup {None}]
  BY DEF Known, TypeOK
<1>3. /\ calls' \in Seq(Handle) /\ Len(calls') = n - 1 /\ n \in Nat \ {0}
      /\ \A i \in 1 .. n - 1 : calls'[i] = calls[i]
      /\ DOMAIN calls' = 1 .. n - 1 /\ DOMAIN calls = 1 .. n
      /\ Refers(calls') \subseteq Refers(calls)
      /\ Refers(calls) \subseteq Refers(calls') \cup {r}
      /\ Cardinality(Uses(calls')) = Cardinality(Uses(calls)) - (IF r = None THEN 0 ELSE 1)
  <2>1. calls' \in Seq(Handle) /\ Len(calls') = n - 1
    BY <1>0, <1>1, <1>2, CallTaken
  <2> QED BY <1>0, <1>1, <1>2, <2>1, CallTaken
<1>4. Pending = Refers(calls) \ freed /\ Pending' = Refers(calls') \ freed
  BY <1>1 DEF Pending, Refers
<1>5. n \in DOMAIN calls /\ n <= MaxPending /\ calls[n] \in Handle
  BY <1>0, <1>3, PendingFacts
<1>6. r # None => r \in Cache /\ r \in Pending /\ Valid(r) /\ ~ obj[r].canUse
  BY <1>0, <1>1, <1>3, <1>5, PendingFacts DEF Known, Handles
<1>7. r # None => r \notin Pending'
  <2> SUFFICES ASSUME r # None, NEW i \in 1 .. n - 1, calls[i].cache = r PROVE FALSE
    BY <1>3, <1>4, CallList
  <2>1. i \in DOMAIN calls /\ i # n /\ calls[i].kind \in {"exec", "wrap"}
    BY <1>3, <1>0, PendingFacts DEF Handle
  <2> QED BY <1>0, <1>1, <1>5, <1>6, <2>1 DEF Known, Handles
<1>8. /\ lru' \in Seq(Cache) /\ IsInjective(lru') /\ Len(lru') <= Len(lru)
      /\ Range(lru') = Range(lru) \ {r} /\ \A x : Ahead(lru', x) \subseteq Ahead(lru, x)
      /\ table' \in [Hash -> Cache \cup {None}]
      /\ \A h \in Hash : table'[h] = IF table[h] = r THEN None ELSE table[h]
      /\ useCount' = useCount - (IF r = None THEN 0 ELSE 1)
      /\ repeat' = repeat \cup ({r} \ {None})
  <2>0. Range(lru) \subseteq Cache /\ useCount \in Nat /\ Len(lru) \in Nat
    BY <1>2, RangeOfList DEF TypeOK
  <2>1. CASE r = None
    <3>1. UNCHANGED <<useCount, repeat, table, lru>>
      BY <1>0, <2>1 DEF SetRepeatable, Last
    <3> QED BY <1>2, <2>0, <2>1, <3>1
  <2>2. CASE r # None
    <3>0. PICK id : id = obj[r].id
      OBVIOUS
    <3>1. /\ useCount' = useCount - 1
          /\ repeat' = repeat \cup {r}
          /\ table' = IF id \in Hash THEN [table EXCEPT ![id] = None] ELSE table
          /\ lru' = IF id \in Key THEN Remove(lru, Found(id)) ELSE lru
      BY <1>0, <2>2, <3>0 DEF SetRepeatable, Last
    <3>2. CASE Own(r, "lru", None)
      <4>1. r \in Range(lru) /\ \A h \in Hash : table[h] # r
        BY <1>6, <2>2, <3>2, OnlyHome DEF Own, Known
      <4>2. id \in Key /\ id \notin Hash
        BY <1>6, <2>2, <3>0, <4>1 DEF Known, Filed, Valid
      <4>3. \A x \in Range(lru) : obj[x].id = id => x = r
        BY <1>6, <2>2, <3>0, <4>1 DEF Known, WithinLimit, Valid
      <4>4. Found(id) = r
        BY <3>0, <4>1, <4>2, <4>3 DEF Found
      <4>5. lru' = Remove(lru, r) /\ table' = table
        BY <3>1, <4>2, <4>4
      <4>6. /\ lru' \in Seq(Cache) /\ Len(lru') = Len(lru) - 1
            /\ Range(lru') = Range(lru) \ {r} /\ IsInjective(lru')
            /\ \A x : Ahead(lru', x) \subseteq Ahead(lru, x)
        BY <1>2, <4>1, <4>5, RemoveList
      <4> QED BY <1>2, <2>0, <2>2, <3>1, <4>1, <4>5, <4>6
    <3>3. ASSUME NEW g \in Hash, Own(r, "table", g)
          PROVE  /\ lru' = lru /\ r \notin Range(lru)
                 /\ table' \in [Hash -> Cache \cup {None}]
                 /\ \A h \in Hash : table'[h] = IF table[h] = r THEN None ELSE table[h]
      <4>1. table[g] = r /\ r \notin Range(lru) /\ \A h \in Hash : table[h] = r => h = g
        BY <1>6, <2>2, <3>3, OnlyHome DEF Own, Known
      <4>2. id = g /\ id \notin Key
        BY <1>6, <2>2, <3>0, <4>1 DEF Known, Filed, Valid
      <4> QED BY <1>2, <3>1, <4>1, <4>2
    <3>4. CASE \E g \in Hash : Own(r, "table", g)
      BY <1>2, <2>0, <2>2, <3>1, <3>3, <3>4
    <3> QED BY <1>6, <2>2, <3>2, <3>4, PendingFacts
  <2> QED BY <2>1, <2>2
<1>9. UsesCounted' /\ useCount' \in Nat
  <2>1. useCount' = Cardinality(Uses(calls')) /\ IsFiniteSet(Uses(calls'))
    BY <1>3, <1>8, PendingFacts, CallList
  <2>2. useCount' \in Nat
    BY <2>1, FS_CardinalityType
  <2> QED BY <2>1, <2>2 DEF UsesCounted, Uses
<1>10. TypeOK' /\ Flags'
  BY <1>1, <1>3, <1>6, <1>8, <1>9 DEF Known, TypeOK, Flags, Live, Valid
<1>11. OneHome' /\ AllHome'
  <2>1. ASSUME NEW x \in Cache, x # r PROVE Stays(x)
    <3>1. \A h \in Hash : table'[h] = x <=> table[h] = x
      BY <1>8, <2>1
    <3> QED BY <1>1, <1>8, <2>1, <3>1 DEF Stays, Own, Live
  <2>2. ASSUME r # None PROVE Moves(r, "repeat", None)
    <3>1. /\ r \in Live /\ r \notin leaked
          /\ \A d \in Cache : r \notin obj[d].shrink
          /\ \A q \in Queue : r \notin gc[q]
      BY <1>6, <2>2, PendingFacts, OnlyHome DEF Known
    <3>2. /\ r \notin Range(lru') /\ r \in repeat' /\ \A h \in Hash : table'[h] # r
      BY <1>8, <2>2
    <3> QED BY <1>1, <3>1, <3>2 DEF Moves, Own, Live
  <2>3. \A x \in Cache : Stays(x) \/ Dies(x) \/ \E l, v : Moves(x, l, v)
    BY <2>1, <2>2
  <2> QED BY <2>3, Rehomed DEF Known
<1>12. Filed'
  <2>1. \A h \in Hash : table'[h] # None => obj[table'[h]].id \in {h, None}
    BY <1>8 DEF Known, Filed
  <2>2. ASSUME NEW x \in Range(lru')
        PROVE  obj[x].id \in Key \cup {None} /\ (Valid(x) /\ ~ obj[x].canUse => x \in Pending')
    BY <1>3, <1>4, <1>8 DEF Known, Filed
  <2>3. ASSUME NEW x \in Pending' PROVE x \in Range(lru') \cup Range(table')
    <3>1. x \in Pending /\ x # r /\ x # None
      BY <1>3, <1>4, <1>7, PendingFacts
    <3>2. CASE Own(x, "lru", None)
      BY <1>8, <3>1, <3>2 DEF Own
    <3>3. ASSUME NEW h \in Hash, Own(x, "table", h) PROVE x \in Range(table')
      BY <1>8, <3>1, <3>3 DEF Own, Range
    <3> QED BY <3>1, <3>2, <3>3, PendingFacts
  <2> QED BY <1>1, <2>1, <2>2, <2>3 DEF Filed, Valid
<1>13. Handles'
  <2>1. \A i \in 1 .. n - 1 : i \in DOMAIN calls /\ calls'[i] = calls[i]
    BY <1>3
  <2> QED BY <1>1, <1>3, <2>1 DEF Known, Handles, Valid
<1>14. Stepped'
  <2>1. ASSUME step # "run" PROVE calls' # <<>> /\ Oldest' = Oldest
    <3>1. 1 \in 1 .. n - 1 /\ Len(calls') # 0
      BY <1>1, <1>3, <2>1
    <3>2. calls' # <<>> /\ calls'[1] = calls[1]
      BY <1>3, <3>1
    <3> QED BY <1>1, <1>2, <1>3, <3>2 DEF Oldest
  <2> QED BY <1>1, <1>3, <1>5, <2>1 DEF Known, Stepped
<1>15. Recent'
  <2>1. ASSUME NEW i \in 1 .. n - 1, NEW x, x = calls[i].cache
        PROVE  Cardinality(Ahead(lru', x) \ Pending') + i + 1 <= MaxPending
    <3>1. Ahead(lru', x) \ Pending' \in SUBSET (Ahead(lru, x) \ Pending)
      BY <1>3, <1>4, <1>8, AheadOf
    <3>2. IsFiniteSet(Ahead(lru, x) \ Pending)
      BY <1>2, AheadFinite, FS_Difference
    <3>3. /\ Cardinality(Ahead(lru', x) \ Pending') <= Cardinality(Ahead(lru, x) \ Pending)
          /\ Cardinality(Ahead(lru', x) \ Pending') \in Nat
          /\ Cardinality(Ahead(lru, x) \ Pending) \in Nat
      BY <3>1, <3>2, FS_Subset, FS_CardinalityType
    <3>4. i < MaxPending /\ i \in DOMAIN calls
      BY <1>3, <1>5
    <3>5. Cardinality(Ahead(lru, x) \ Pending) + i + 1 <= MaxPending
      BY <2>1, <3>4 DEF Known, Recent
    <3> QED BY <3>3, <3>5
  <2>2. \A i \in 1 .. n - 1 : i # MaxPending
    BY <1>3, <1>5
  <2> QED BY <1>3, <2>1, <2>2 DEF Recent
<1>16. WithinLimit'
  <2>1. Cardinality({h \in Hash : table'[h] # None}) <= Cardinality({h \in Hash : table[h] # None})
    BY <1>2, <1>8, FewerFiled
  <2>2. IsFiniteSet({h \in Hash : table[h] # None}) /\ IsFiniteSet({h \in Hash : table'[h] # None})
    <3>1. /\ {h \in Hash : table[h] # None} \in SUBSET Hash
          /\ {h \in Hash : table'[h] # None} \in SUBSET Hash
      OBVIOUS
    <3> QED BY <3>1, FS_Subset
  <2>3. Cardinality({h \in Hash : table'[h] # None}) <= Limit
    BY <2>1, <2>2, FS_CardinalityType DEF Known, WithinLimit
  <2>4. Len(lru') <= Limit
    BY <1>2, <1>8 DEF Known, WithinLimit
  <2> QED BY <1>1, <1>8, <2>3, <2>4 DEF Known, WithinLimit, Valid
<1> QED BY <1>8, <1>9, <1>10, <1>11, <1>12, <1>13, <1>14, <1>15, <1>16 DEF Known

\* The empty cache.
LEMMA EmptyCache ==
    /\ Cardinality({h \in Hash : FALSE}) = 0
    /\ <<>> \in Seq(Cache) /\ Len(<<>>) = 0 /\ \A x : Ahead(<<>>, x) = {}
<1>1. {h \in Hash : FALSE} = {}
  OBVIOUS
<1>2. <<>> \in Seq(Cache) /\ Len(<<>>) = 0
  OBVIOUS
<1>3. \A x : Ahead(<<>>, x) = {}
  BY <1>2, AheadOf, EmptyList
<1> QED BY <1>1, <1>2, <1>3, FS_EmptySet

\* The cache is cleared: what handles refer to is deleted under them, if
\* anything is.
LEMMA ClearStep ==
    ASSUME Known, DeleteAll, unwaited' \in BOOLEAN, unwaited => unwaited',
           Pending = {} \/ unwaited'
    PROVE  Known'
<1>0. PICK all : all = ({table[h] : h \in Hash} \cup Range(lru)) \ {None}
  OBVIOUS
<1>1. /\ obj' = [c \in Cache |-> IF c \in all THEN Dead ELSE obj[c]]
      /\ Submit("main", ShrinkOf(all))
      /\ table' = [h \in Hash |-> None] /\ lru' = <<>>
      /\ hasFull' = FALSE /\ clearing' = FALSE /\ freed' = freed \cup (all \cap Pending)
      /\ UNCHANGED <<useCount, calls, step, repeat, counting>>
  BY <1>0 DEF DeleteAll
<1>2. /\ TypeOK /\ obj \in [Cache -> Object] /\ lru \in Seq(Cache) /\ Range(lru) \subseteq Cache
      /\ table \in [Hash -> Cache \cup {None}] /\ useCount \in Nat /\ calls \in Seq(Handle)
      /\ "main" \in Queue /\ freed \subseteq Cache
  BY RangeOfList DEF Known, TypeOK, Queue
<1>3. Pending \subseteq all
  <2>1. \A c \in Range(table) : \E h \in Hash : table[h] = c
    BY <1>2 DEF Range
  <2> QED BY <1>0, <2>1, PendingFacts DEF Known, Filed
<1>4. all \in SUBSET Cache
  BY <1>0, <1>2
<1>5. /\ \A x \in all : \A k, v : Own(x, k, v) => k \in {"table", "lru"}
      /\ \A h \in Hash : table[h] # None => table[h] \in all
      /\ Range(lru) \subseteq all
  <2>1. ASSUME NEW x \in all PROVE Own(x, "lru", None) \/ \E h \in Hash : Own(x, "table", h)
    BY <1>0 DEF Own
  <2>2. ASSUME NEW x \in all, NEW k, NEW v, Own(x, k, v) PROVE k \in {"table", "lru"}
    BY <1>4, <2>1, <2>2 DEF Known, OneHome
  <2>3. /\ \A h \in Hash : table[h] # None => table[h] \in all
        /\ Range(lru) \subseteq all
    BY <1>0, <1>2
  <2> QED BY <2>2, <2>3
<1>6. /\ Dead \in Object /\ Dead.state = "dead" /\ Dead.shrink = {}
      /\ Dead.id = None /\ ~ Dead.canUse
  BY DEF Dead, Object
<1>7. ShrinkOf(all) \in SUBSET Cache
  BY <1>2, <1>4 DEF ShrinkOf, Object
<1>8. gc' \in [Queue -> SUBSET Cache] /\ leaked' \subseteq Cache
  BY <1>1, <1>2, <1>7, Submitted
<1>9. PICK fit \in SUBSET ShrinkOf(all) :
                /\ \A p \in Queue : gc'[p] = gc[p] \cup (IF p = "main" THEN fit ELSE {})
                /\ leaked' = leaked \cup (ShrinkOf(all) \ fit)
  <2>1. PICK S : S = ShrinkOf(all)
    OBVIOUS
  <2>2. TypeOK /\ "main" \in Queue /\ S \in SUBSET Cache /\ Submit("main", S)
    BY <1>1, <1>2, <1>7, <2>1
  <2>3. \E fit \in SUBSET S :
                /\ \A p \in Queue : gc'[p] = gc[p] \cup (IF p = "main" THEN fit ELSE {})
                /\ leaked' = leaked \cup (S \ fit)
    BY <2>2, Submitted
  <2> QED BY <2>1, <2>3
<1>10. TypeOK' /\ Flags'
  <2>1. obj' \in [Cache -> Object]
    BY <1>1, <1>2, <1>6
  <2>2. TypeOK'
    BY <1>1, <1>4, <1>8, <2>1, EmptyCache DEF Known, TypeOK
  <2>3. \A c \in Cache : c \in freed' => obj'[c].state = "dead"
    BY <1>1, <1>6 DEF Known, Flags
  <2>4. \A c \in Cache : /\ c \notin Live' => /\ obj'[c].id = None /\ ~ obj'[c].canUse
                                              /\ obj'[c].shrink = {}
                         /\ obj'[c].canUse => obj'[c].id # None /\ obj'[c].shrink = {}
    BY <1>1, <1>6 DEF Known, Flags, Live, Valid
  <2>5. freed' # {} => unwaited'
    BY <1>1 DEF Known, Flags
  <2>6. Flags'
    BY <2>3, <2>4, <2>5 DEF Flags, Valid
  <2> QED BY <2>2, <2>6
<1>11. OneHome' /\ AllHome'
  <2>1. /\ all \cap leaked = {} /\ \A p \in Queue : gc[p] \cap all = {}
        /\ \A x \in Cache : obj[x].shrink \cap all = {}
        /\ repeat \cap all = {}
    <3>1. \A x \in all : ~ Own(x, "leaked", None) /\ ~ Own(x, "repeat", None)
      BY <1>5
    <3>2. \A x \in all, p \in Queue : ~ Own(x, "gc", p)
      BY <1>5
    <3>3. \A x \in all, d \in Cache : ~ Own(x, "shrink", d)
      BY <1>5
    <3> QED BY <3>1, <3>2, <3>3 DEF Own
  <2>2. Range(lru') = Range(lru) \ all
    BY <1>1, <1>5, EmptyList
  <2>3. \A h \in Hash : table'[h] = IF table[h] \in all THEN None ELSE table[h]
    BY <1>1, <1>5
  <2>4. \A p \in Queue : gc'[p] = (gc[p] \ all) \cup (IF p = "main" THEN fit ELSE {})
    BY <1>9, <2>1
  <2>5. \A x \in Cache : /\ obj'[x].shrink = IF x \in all THEN {} ELSE obj[x].shrink
                         /\ obj'[x].state = IF x \in all THEN "dead" ELSE obj[x].state
    BY <1>1, <1>6
  <2>6. repeat' = repeat \ all
    BY <1>1, <2>1
  <2>7. HandOver(all, all, "main", fit)
    BY <1>9, <2>2, <2>3, <2>4, <2>5, <2>6 DEF HandOver
  <2>8. OneHome /\ AllHome /\ all \in SUBSET all
    BY DEF Known
  <2> QED BY ONLY <1>2, <1>4, <1>9, <2>1, <2>7, <2>8, HandedOver
<1>12. Pending' = {} /\ \A i \in DOMAIN calls : calls[i].cache \in freed' \cup {None}
  <2>1. \A i \in DOMAIN calls : calls[i].cache \in freed' \cup {None}
    BY <1>1, <1>3, PendingFacts
  <2> QED BY <1>1, <2>1 DEF Pending
<1>13. Filed' /\ IsInjective(lru')
  <2>1. Range(lru') = {} /\ IsInjective(lru') /\ \A h \in Hash : table'[h] = None
    BY <1>1, EmptyList
  <2> QED BY <1>12, <2>1 DEF Filed
<1>14. Handles'
  <2>1. \A i \in DOMAIN calls : calls[i].kind = "wrap" =>
           calls[i].cache # None /\ calls[i].cache \in freed'
    BY <1>12 DEF Known, Handles
  <2>2. \A i, j \in DOMAIN calls :
         i # j /\ calls[i].kind = "exec" /\ calls[j].kind = "exec" /\ calls[i].cache # None
         => calls[i].cache # calls[j].cache
    BY DEF Known, Handles
  <2> QED BY <1>1, <1>12, <2>1, <2>2 DEF Handles
<1>15. Stepped' /\ UsesCounted'
  BY <1>1 DEF Known, Stepped, UsesCounted, Oldest
<1>16. Recent'
  <2>1. \A i \in DOMAIN calls : i \in Nat
    BY <1>2
  <2>2. \A x : Ahead(lru', x) = {} /\ Cardinality(Ahead(lru', x) \ Pending') = 0
    BY <1>1, EmptyCache, FS_EmptySet
  <2>3. \A i \in DOMAIN calls : i < MaxPending => 0 + i + 1 <= MaxPending
    BY <2>1
  <2> QED BY <1>1, <2>2, <2>3, Zenon DEF Recent
<1>17. WithinLimit'
  <2>1. {h \in Hash : table'[h] # None} = {h \in Hash : FALSE}
    BY <1>1
  <2>2. Cardinality({h \in Hash : table'[h] # None}) = 0
    BY <2>1, EmptyCache
  <2>3. Range(lru') = {} /\ Len(lru') = 0
    BY <1>1, EmptyList, EmptyCache
  <2> QED BY <2>2, <2>3 DEF WithinLimit
<1> QED BY <1>10, <1>11, <1>13, <1>14, <1>15, <1>16, <1>17 DEF Known

\* A clearing ends: the uses are over, or it goes ahead of them.
LEMMA EndClearStep ==
    ASSUME Known, EndClear \/ ClearExpires \/ ClearUncounted
    PROVE  Known'
<1>1. CASE EndClear
  <2>1. calls \in Seq(Handle) /\ useCount \in Nat /\ unwaited \in BOOLEAN
    BY DEF Known, TypeOK
  <2>2. Cardinality(Uses(calls)) = 0
    BY <1>1, <2>1, PendingFacts DEF EndClear
  <2>3. Uses(calls) = {}
    BY <2>1, <2>2, CallList, FS_EmptySet
  <2>4. Pending = {}
    BY <2>3, PendingFacts DEF Uses
  <2> QED BY <1>1, <2>1, <2>4, ClearStep DEF EndClear
<1>2. CASE ClearExpires \/ ClearUncounted
  <2>1. PICK b \in BOOLEAN : b = TRUE
    OBVIOUS
  <2>2. DeleteAll /\ unwaited' \in BOOLEAN /\ (unwaited => unwaited') /\ unwaited'
    BY <1>2 DEF ClearExpires, ClearUncounted
  <2> QED BY <2>2, ClearStep
<1> QED BY <1>1, <1>2
-----------------------------------------------------------------------------
(* Phase one.                                                              *)

\* What a look-up finds is in the container of its identity; an entry of
\* cache2_ that is found and cannot be used is being recorded.
LEMMA FoundIs ==
    ASSUME Known, NEW id \in Ident, NEW d, d = Found(id)
    PROVE  /\ d # None => /\ d \in Cache
                          /\ d \in Range(lru) \/ \E h \in Hash : table[h] = d
           /\ d \in Range(lru) /\ ~ Usable(d) => d \in Pending
<1>1. Range(lru) \subseteq Cache /\ None \notin Range(lru)
  BY RangeOfList DEF Known, TypeOK
<1>2. CASE id \in Hash
  <2>1. d = table[id] /\ d \in Cache \cup {None}
    BY <1>2 DEF Found, Known, TypeOK
  <2>2. d \notin Range(lru)
    <3> SUFFICES ASSUME d \in Range(lru) PROVE FALSE
      OBVIOUS
    <3>1. Own(d, "lru", None) /\ Own(d, "table", id) /\ d \in Cache
      BY <1>1, <1>2, <2>1 DEF Own
    <3> QED BY <3>1 DEF Known, OneHome
  <2> QED BY <1>2, <2>1, <2>2
<1>3. CASE id \notin Hash
  <2>1. id \in Key /\ id # None
    BY <1>3 DEF Ident
  <2>2. d = None \/ (d \in Range(lru) /\ obj[d].id = id)
    BY <1>3 DEF Found
  <2>3. d \in Range(lru) /\ ~ Usable(d) => d \in Pending
    BY <1>1, <2>1, <2>2 DEF Known, Filed, Usable, Valid
  <2> QED BY <1>1, <2>2, <2>3
<1> QED BY <1>2, <1>3

\* ShrinkCache does not reach an entry that a handle waits for.
LEMMA Spared ==
    ASSUME Known, Len(calls) < MaxPending, NEW d, d \in Range(lru) => d \in Pending,
           NEW s, s = Activate(lru, d), Len(s) >= Limit
    PROVE  Evicted(s) \cap Pending = {}
<1>1. /\ lru \in Seq(Cache) /\ IsInjective(lru)
      /\ s \in Seq(Cache) /\ IsInjective(s)
      /\ \A x : Ahead(s, x) \subseteq Ahead(lru, x) \cup ({d} \cap Range(lru))
  BY ActivateList DEF Known, TypeOK
<1> SUFFICES ASSUME NEW p \in Evicted(s), p \in Pending PROVE FALSE
  OBVIOUS
<1>2. PICK k \in 1 .. Len(s) : k > Len(s) - ShrinkNum /\ s[k] = p
  <2>1. DOMAIN s = 1 .. Len(s)
    BY <1>1
  <2> QED BY <2>1 DEF Evicted
<1>3. PICK i \in 1 .. Len(calls) : calls[i].cache = p
  BY PendingFacts
<1> DEFINE A == Ahead(lru, p) \ Pending
           B == Pending \ {p}
<1>4. /\ IsFiniteSet(Pending) /\ Cardinality(Pending) \in Nat
      /\ Cardinality(Pending) <= Len(calls) /\ Len(calls) \in Nat
  BY PendingFacts, FS_CardinalityType
<1>5. /\ IsFiniteSet(B) /\ Cardinality(B) \in Nat /\ Cardinality(B) = Cardinality(Pending) - 1
  BY <1>4, FS_RemoveElement, FS_CardinalityType
<1>6. IsFiniteSet(A) /\ Cardinality(A) \in Nat
  BY <1>1, AheadFinite, FS_Difference, FS_CardinalityType
<1>7. Cardinality(A) + i + 1 <= MaxPending
  BY <1>3, PendingFacts DEF Known, Recent
<1>8. IsFiniteSet(Ahead(s, p)) /\ Cardinality(Ahead(s, p)) = k - 1
  BY <1>1, <1>2, AheadCount
<1>9. Ahead(s, p) \in SUBSET (A \cup B)
  <2>1. \A a, b \in 1 .. Len(s) : s[a] = s[b] => a = b
    BY <1>1, RangeOfList
  <2>2. p \notin Ahead(s, p)
    <3> SUFFICES ASSUME p \in Ahead(s, p) PROVE FALSE
      OBVIOUS
    <3>1. PICK a \in 1 .. Len(s), b \in 1 .. Len(s) : a < b /\ s[a] = p /\ s[b] = p
      BY <1>1, AheadOf
    <3> QED BY <2>1, <3>1
  <2> QED BY <1>1, <2>2
<1>10. IsFiniteSet(A \cup B) /\ Cardinality(A \cup B) <= Cardinality(A) + Cardinality(B)
  <2> HIDE DEF A, B
  <2>1. /\ IsFiniteSet(A \cup B)
        /\ Cardinality(A \cup B) = Cardinality(A) + Cardinality(B) - Cardinality(A \cap B)
        /\ IsFiniteSet(A \cap B)
    BY <1>5, <1>6, FS_Union, FS_Intersection
  <2>2. Cardinality(A \cap B) \in Nat
    BY <2>1, FS_CardinalityType
  <2> QED BY <1>5, <1>6, <2>1, <2>2
<1> HIDE DEF A, B
<1>11. k - 1 <= Cardinality(A \cup B) /\ Cardinality(A \cup B) \in Nat
  BY <1>8, <1>9, <1>10, FS_Subset, FS_CardinalityType
<1>12. Len(s) \in Nat
  BY <1>1
<1>13. k - 1 <= Cardinality(A) + Cardinality(B)
  BY <1>5, <1>6, <1>10, <1>11
<1>14. PICK a \in Nat, b \in Nat, m \in Nat :
          a = Cardinality(A) /\ b = Cardinality(B) /\ m = Len(calls)
  BY <1>4, <1>5, <1>6
<1>15. a + i + 1 <= MaxPending /\ i \in Nat /\ i >= 1 /\ m < MaxPending
  BY <1>7, <1>14
<1>16. b <= m - 1
  BY <1>4, <1>5, <1>14
<1>17. k - 1 <= a + b /\ k \in Nat /\ k > Limit - ShrinkNum
  BY <1>2, <1>12, <1>13, <1>14
<1>18. a + b <= 2 * MaxPending - 4
  BY <1>15, <1>16
<1> QED BY <1>17, <1>18

\* A handle e is added, whose recording, if it has one, is an entry of the
\* manager; entries that other handles wait for are kept.
LEMMA Called ==
    ASSUME Known, Len(calls) < MaxPending, NEW e \in Handle,
           calls' = Append(calls, e), step' = step, freed' = freed, e.cache \notin freed,
           useCount' = useCount + (IF e.cache = None THEN 0 ELSE 1),
           \A x \in Live : obj'[x] = obj[x],
           lru' \in Seq(Cache), table' \in [Hash -> Cache \cup {None}],
           Range(lru') \subseteq Range(lru) \cup {e.cache},
           Pending \cap Range(lru) \subseteq Range(lru'),
           \A x : Ahead(lru', x) \subseteq Ahead(lru, x) \cup Pending',
           Ahead(lru', e.cache) = {},
           \A h \in Hash : table'[h] # table[h] =>
              table[h] = None /\ table'[h] = e.cache /\ obj'[e.cache].id = h,
           e.cache # None => e.cache \in Range(lru') \cup Range(table'),
           e.cache \in Range(lru') => obj'[e.cache].id \in Key,
           e.kind = "wrap" => e.cache # None /\ e.cache \in Live /\ obj[e.cache].canUse,
           e.kind = "exec" /\ e.cache # None =>
              e.cache \notin Live /\ obj'[e.cache].id # None /\ ~ obj'[e.cache].canUse
    PROVE  /\ Filed' /\ Handles' /\ Stepped' /\ Recent' /\ UsesCounted'
           /\ useCount' \in Nat /\ calls' \in Seq(Handle)
<1>0. PICK n : n = Len(calls)
  OBVIOUS
<1>1. calls \in Seq(Handle) /\ lru \in Seq(Cache) /\ IsInjective(lru) /\ useCount \in Nat
      /\ Range(lru) \subseteq Cache /\ Range(lru') \subseteq Cache
      /\ table \in [Hash -> Cache \cup {None}]
  BY RangeOfList DEF Known, TypeOK
<1>2. /\ calls' \in Seq(Handle) /\ Len(calls') = n + 1 /\ n \in Nat /\ n < MaxPending
      /\ \A i \in 1 .. n : calls'[i] = calls[i]
      /\ calls'[n + 1] = e
      /\ Refers(calls') = Refers(calls) \cup ({e.cache} \ {None})
      /\ Cardinality(Uses(calls')) = Cardinality(Uses(calls)) + (IF e.cache = None THEN 0 ELSE 1)
  <2>1. Len(calls) \in Nat
    BY <1>1
  <2> QED BY <1>0, <1>1, <2>1, CallAdded
<1>3. DOMAIN calls = 1 .. n /\ DOMAIN calls' = 1 .. n + 1
  BY <1>0, <1>1, <1>2
<1>4. /\ Pending = Refers(calls) \ freed /\ Pending' = Refers(calls') \ freed
      /\ Pending' = Pending \cup ({e.cache} \ {None})
  <2>1. Pending = Refers(calls) \ freed /\ Pending' = Refers(calls') \ freed
    BY DEF Pending, Refers
  <2> QED BY <1>2, <2>1
<1>5. UsesCounted' /\ useCount' \in Nat
  <2>1. useCount' = Cardinality(Uses(calls'))
    BY <1>2, PendingFacts
  <2>2. useCount' \in Nat
    BY <1>1
  <2> QED BY <2>1, <2>2 DEF UsesCounted, Uses
<1>6. /\ \A x \in Range(lru) : x \in Live
      /\ \A h \in Hash : table[h] # None => table[h] \in Live
      /\ Pending \subseteq Live
  <2>1. \A x \in Range(lru) : x \in Live
    BY <1>1, OnlyHome DEF Known, Own
  <2>2. ASSUME NEW h \in Hash, table[h] # None PROVE table[h] \in Live
    <3>1. Own(table[h], "table", h) /\ table[h] \in Cache
      BY <1>1, <2>2 DEF Own
    <3> QED BY <3>1, OnlyHome DEF Known
  <2>3. \A x \in Pending : x \in Cache /\ x \in Live
    BY PendingFacts, OnlyHome DEF Known
  <2> QED BY <2>1, <2>2, <2>3
<1>7. Filed'
  <2>1. ASSUME NEW h \in Hash, table'[h] # None PROVE obj'[table'[h]].id \in {h, None}
    <3>1. CASE table'[h] = table[h]
      <4>1. table[h] \in Live /\ obj[table[h]].id \in {h, None}
        BY <1>6, <2>1, <3>1 DEF Known, Filed
      <4> QED BY <3>1, <4>1
    <3>2. CASE table'[h] # table[h]
      BY <3>2
    <3> QED BY <3>1, <3>2
  <2>2. ASSUME NEW x \in Range(lru')
        PROVE  /\ obj'[x].id \in Key \cup {None}
               /\ obj'[x].id # None /\ ~ obj'[x].canUse => x \in Pending'
    <3>1. CASE x = e.cache
      BY <1>1, <1>4, <3>1
    <3>2. CASE x \in Range(lru)
      <4>1. x \in Live /\ obj[x].id \in Key \cup {None} /\
            (obj[x].id # None /\ ~ obj[x].canUse => x \in Pending)
        BY <1>6, <3>2 DEF Known, Filed, Valid
      <4> QED BY <1>4, <4>1
    <3> QED BY <3>1, <3>2
  <2>3. ASSUME NEW x \in Pending' PROVE x \in Range(lru') \cup Range(table')
    <3>1. CASE x = e.cache
      <4>1. x # None
        BY <1>4, <2>3, PendingFacts
      <4> QED BY <3>1, <4>1
    <3>2. CASE x \in Pending /\ Own(x, "lru", None)
      BY <3>2 DEF Own
    <3>3. ASSUME x \in Pending, NEW h \in Hash, Own(x, "table", h) PROVE x \in Range(table')
      <4>1. table[h] = x /\ x # None
        BY <3>3, PendingFacts DEF Own
      <4>2. table'[h] = x
        BY <4>1
      <4> QED BY <4>2 DEF Range
    <3>4. x = e.cache \/ x \in Pending
      BY <1>4, <2>3
    <3>5. x \in Pending => Own(x, "lru", None) \/ \E h \in Hash : Own(x, "table", h)
      BY PendingFacts
    <3>6. CASE x \in Pending /\ \E h \in Hash : Own(x, "table", h)
      BY <3>3, <3>6
    <3> QED BY <3>1, <3>2, <3>4, <3>5, <3>6, Zenon
  <2> QED BY <2>1, <2>2, <2>3 DEF Filed, Valid
<1>8. Handles'
  <2>1. \A i \in 1 .. n : /\ i \in DOMAIN calls
                          /\ calls[i].cache \notin freed \cup {None} =>
                               calls[i].cache \in Live /\ obj'[calls[i].cache] = obj[calls[i].cache]
    BY <1>0, <1>3, <1>6, PendingFacts
  <2>2. n = 0 => step = "run"
    <3>1. calls \in Seq(Handle)
      BY <1>1
    <3>2. Len(calls) = 0 => calls = <<>>
      BY ONLY <3>1
    <3> QED BY <1>0, <3>2 DEF Known, Stepped
  <2>3. \A i \in 1 .. n + 1 : i \in 1 .. n \/ i = n + 1
    BY <1>2
  <2>4. n + 1 = 1 => n = 0
    BY <1>2
  <2>5. ASSUME NEW i \in 1 .. n + 1
        PROVE  /\ calls'[i].kind = "wrap" => /\ calls'[i].cache # None
                                             /\ calls'[i].cache \in freed \/ obj'[calls'[i].cache].canUse
               /\ calls'[i].kind = "exec" /\ calls'[i].cache \notin freed \cup {None} =>
                    /\ i # 1 \/ step = "run" => obj'[calls'[i].cache].id # None
                    /\ i # 1 \/ step # "release" => ~ obj'[calls'[i].cache].canUse
                    /\ i = 1 /\ step = "release" =>
                         (obj'[calls'[i].cache].id # None => obj'[calls'[i].cache].canUse)
    <3>1. CASE i \in 1 .. n
      <4>1. calls'[i] = calls[i] /\ i \in DOMAIN calls
        BY <1>2, <1>3, <3>1
      <4>2. /\ calls[i].kind = "wrap" => /\ calls[i].cache # None
                                         /\ calls[i].cache \in freed \/ obj[calls[i].cache].canUse
            /\ calls[i].kind = "exec" /\ calls[i].cache \notin freed \cup {None} =>
                    /\ i # 1 \/ step = "run" => obj[calls[i].cache].id # None
                    /\ i # 1 \/ step # "release" => ~ obj[calls[i].cache].canUse
                    /\ i = 1 /\ step = "release" =>
                         (obj[calls[i].cache].id # None => obj[calls[i].cache].canUse)
        BY <4>1 DEF Known, Handles, Valid
      <4> QED BY <2>1, <3>1, <4>1, <4>2
    <3>2. CASE i = n + 1
      BY <1>2, <2>2, <2>4, <3>2
    <3> QED BY <2>3, <3>1, <3>2
  <2>6. ASSUME NEW i \in 1 .. n + 1, NEW j \in 1 .. n + 1, i # j,
               calls'[i].kind = "exec", calls'[j].kind = "exec", calls'[i].cache # None
        PROVE  calls'[i].cache # calls'[j].cache
    <3>1. CASE i \in 1 .. n /\ j \in 1 .. n
      <4>1. calls'[i] = calls[i] /\ calls'[j] = calls[j] /\ i \in DOMAIN calls /\ j \in DOMAIN calls
        BY <1>2, <1>3, <3>1
      <4>2. calls[i].kind = "exec" /\ calls[j].kind = "exec" /\ calls[i].cache # None
        BY <2>6, <4>1
      <4>3. calls[i].cache # calls[j].cache
        BY <2>6, <4>1, <4>2 DEF Known, Handles
      <4> QED BY <4>1, <4>3
    <3>2. CASE i = n + 1 /\ j \in 1 .. n
      <4>1. calls'[i] = e /\ e.cache \notin Live
        BY <1>2, <2>6, <3>2
      <4>2. calls'[j].cache # None => calls'[j].cache \in Live \cup freed
        BY <1>2, <2>1, <3>2
      <4> QED BY <2>6, <4>1, <4>2
    <3>3. CASE j = n + 1 /\ i \in 1 .. n
      BY <1>2, <2>1, <2>6, <3>3
    <3>4. (i \in 1 .. n \/ i = n + 1) /\ (j \in 1 .. n \/ j = n + 1)
      BY <2>3
    <3>5. CASE i = n + 1 /\ j = n + 1
      BY <2>6, <3>5
    <3> QED BY <3>1, <3>2, <3>3, <3>4, <3>5, Zenon
  <2> QED BY <1>3, <2>5, <2>6 DEF Handles, Valid
<1>9. Stepped'
  <2>1. calls' # <<>> /\ (calls # <<>> => Oldest' = Oldest)
    <3>1. Len(calls') # 0 /\ calls' # <<>>
      BY <1>2
    <3>2. ASSUME calls # <<>> PROVE Oldest' = Oldest
      <4>1. 1 \in 1 .. n
        BY <1>0, <1>1, <3>2
      <4> QED BY <1>1, <1>2, <3>1, <3>2, <4>1 DEF Oldest
    <3> QED BY <3>1, <3>2
  <2> QED BY <1>2, <2>1 DEF Known, Stepped
<1>10. Recent'
  <2>1. ASSUME NEW i \in 1 .. n
        PROVE  /\ i < MaxPending
               /\ Cardinality(Ahead(lru', calls'[i].cache) \ Pending') + i + 1 <= MaxPending
    <3>0. PICK x : x = calls[i].cache
      OBVIOUS
    <3>1. Ahead(lru', x) \ Pending' \in SUBSET (Ahead(lru, x) \ Pending)
      BY <1>4
    <3>2. IsFiniteSet(Ahead(lru, x) \ Pending)
      BY <1>1, AheadFinite, FS_Difference
    <3>3. /\ Cardinality(Ahead(lru', x) \ Pending') <= Cardinality(Ahead(lru, x) \ Pending)
          /\ Cardinality(Ahead(lru', x) \ Pending') \in Nat
          /\ Cardinality(Ahead(lru, x) \ Pending) \in Nat
      BY <3>1, <3>2, FS_Subset, FS_CardinalityType
    <3>4. i < MaxPending /\ i \in DOMAIN calls
      BY <1>2, <1>3
    <3>5. Cardinality(Ahead(lru, x) \ Pending) + i + 1 <= MaxPending
      BY <3>0, <3>4 DEF Known, Recent
    <3>6. Cardinality(Ahead(lru', x) \ Pending') + i + 1 <= MaxPending
      BY <3>3, <3>5
    <3> QED BY <1>2, <3>0, <3>4, <3>6
  <2>2. Cardinality(Ahead(lru', calls'[n + 1].cache) \ Pending') = 0
        /\ Ahead(lru', calls'[n + 1].cache) = {}
    BY <1>2, FS_EmptySet
  <2>3. n + 1 < MaxPending => 0 + (n + 1) + 1 <= MaxPending
    BY <1>2
  <2>4. \A i \in 1 .. n + 1 : i \in 1 .. n \/ i = n + 1
    BY <1>2
  <2>5. \A i \in 1 .. n : i < MaxPending => i # MaxPending
    OBVIOUS
  <2> QED BY <1>3, <2>1, <2>2, <2>3, <2>4, <2>5 DEF Recent
<1> QED BY <1>2, <1>5, <1>7, <1>8, <1>9, <1>10

\* A call that adds no entry: a hit, or a miss that is not recorded.  A new
\* object that is abandoned dies before it has an owner.
LEMMA Looked ==
    ASSUME Known, Len(calls) < MaxPending, NEW e \in Handle, NEW d,
           calls' = Append(calls, e), lru' = Activate(lru, d),
           useCount' = useCount + (IF e.cache = None THEN 0 ELSE 1),
           hasFull' \in BOOLEAN, UNCHANGED <<table, step, repeat, gc, leaked, clearing, counting, unwaited, freed>>,
           obj' = obj \/ \E c \in New : obj' = [obj EXCEPT ![c] = Dead],
           \/ /\ e.kind = "exec" /\ e.cache = None
              /\ d \in Range(lru) => d \in Pending
           \/ /\ e.kind = "wrap" /\ e.cache = d /\ d \in Cache /\ obj[d].canUse
              /\ d \in Range(lru) \/ \E h \in Hash : table[h] = d
    PROVE  Known'
<1>1. /\ lru \in Seq(Cache) /\ IsInjective(lru) /\ obj \in [Cache -> Object]
      /\ table \in [Hash -> Cache \cup {None}] /\ calls \in Seq(Handle)
      /\ Range(lru) \subseteq Cache
  BY RangeOfList DEF Known, TypeOK
<1>2. /\ lru' \in Seq(Cache) /\ Len(lru') = Len(lru)
      /\ Range(lru') = Range(lru) /\ IsInjective(lru')
      /\ \A x : Ahead(lru', x) \subseteq Ahead(lru, x) \cup ({d} \cap Range(lru))
      /\ Ahead(lru', d) = {}
  BY <1>1, ActivateList
<1>3. /\ obj' \in [Cache -> Object] /\ \A x \in Live : obj'[x] = obj[x]
      /\ \A x \in Cache : x \in Live' <=> x \in Live
      /\ \A x \in Cache : obj'[x].shrink = obj[x].shrink
      /\ \A x \in Cache : obj'[x] = obj[x] \/
            (obj'[x].id = None /\ ~ obj'[x].canUse /\ obj'[x].shrink = {})
  <2>1. CASE obj' = obj
    BY <1>1, <2>1 DEF Live
  <2>2. ASSUME NEW c \in New, obj' = [obj EXCEPT ![c] = Dead]
        PROVE  /\ obj' \in [Cache -> Object] /\ \A x \in Live : obj'[x] = obj[x]
               /\ \A x \in Cache : x \in Live' <=> x \in Live
               /\ \A x \in Cache : obj'[x].shrink = obj[x].shrink
               /\ \A x \in Cache : obj'[x] = obj[x] \/
                     (obj'[x].id = None /\ ~ obj'[x].canUse /\ obj'[x].shrink = {})
    <3>1. c \in Cache /\ c \notin Live /\ obj[c].shrink = {}
      BY <1>1 DEF New, Live, Known, Flags
    <3>2. /\ Dead \in Object /\ Dead.state = "dead" /\ Dead.shrink = {}
          /\ Dead.id = None /\ ~ Dead.canUse
      BY DEF Dead, Object
    <3>3. obj' \in [Cache -> Object] /\ obj'[c] = Dead /\ \A x \in Cache : x # c => obj'[x] = obj[x]
      BY <1>1, <2>2, <3>1, <3>2
    <3> QED BY <3>1, <3>2, <3>3 DEF Live
  <2> QED BY <2>1, <2>2
<1>4. \A x \in Range(lru) : x \in Live
  BY <1>1, OnlyHome DEF Known, Own
<1>5. Pending' = Pending \cup ({e.cache} \ {None}) /\ e.cache \notin freed
  <2>1. Refers(calls') = Refers(calls) \cup ({e.cache} \ {None})
    BY <1>1, CallAdded
  <2>2. e.cache \notin freed
    BY DEF Known, TypeOK, Flags, Live
  <2> QED BY <2>1, <2>2 DEF Pending, Refers
<1>6. e.kind = "wrap" => d # None /\ d \in Live /\ obj[d].id # None /\ obj'[d] = obj[d]
  <2>1. d \in Cache /\ d \notin Live => ~ obj[d].canUse
    BY DEF Known, Flags
  <2>2. d \in Cache /\ obj[d].canUse => obj[d].id # None
    BY DEF Known, Flags, Valid
  <2> QED BY <1>3, <2>1, <2>2
<1>7. /\ Filed' /\ Handles' /\ Stepped' /\ Recent' /\ UsesCounted'
      /\ useCount' \in Nat /\ calls' \in Seq(Handle)
  <2>1. /\ Range(lru') \subseteq Range(lru) \cup {e.cache}
        /\ Pending \cap Range(lru) \subseteq Range(lru')
    BY <1>2
  <2>2. \A x : Ahead(lru', x) \subseteq Ahead(lru, x) \cup Pending'
    BY <1>2, <1>5, <1>1
  <2>3. Ahead(lru', e.cache) = {}
    <3>1. e.cache = None => e.cache \notin Range(lru')
      BY <1>1, <1>2
    <3> QED BY <1>2, <3>1, AheadOf
  <2>4. \A h \in Hash : table'[h] # table[h] =>
              table[h] = None /\ table'[h] = e.cache /\ obj'[e.cache].id = h
    OBVIOUS
  <2>5. e.cache # None => e.cache \in Range(lru') \cup Range(table')
    <3>1. \A h \in Hash : table[h] \in Range(table')
      BY <1>1 DEF Range
    <3> QED BY <1>2, <3>1
  <2>6. e.cache \in Range(lru') => obj'[e.cache].id \in Key
    <3>1. e.cache \in Range(lru') => e.kind = "wrap" /\ e.cache = d
      BY <1>1, <1>2
    <3>2. d \in Range(lru) => obj[d].id \in Key \cup {None}
      BY DEF Known, Filed
    <3> QED BY <1>2, <1>6, <3>1, <3>2
  <2>7. e.kind = "wrap" => e.cache # None /\ e.cache \in Live /\ obj[e.cache].canUse
    BY <1>6
  <2>8. e.kind = "exec" /\ e.cache # None =>
              e.cache \notin Live /\ obj'[e.cache].id # None /\ ~ obj'[e.cache].canUse
    OBVIOUS
  <2>9. table' \in [Hash -> Cache \cup {None}] /\ step' = step /\ freed' = freed /\ e.cache \notin freed
    BY <1>1, <1>5
  <2> QED BY <1>2, <1>3, <2>1, <2>2, <2>3, <2>4, <2>5, <2>6, <2>7, <2>8, <2>9, Called
<1>8. TypeOK'
  BY <1>1, <1>2, <1>3, <1>7 DEF Known, TypeOK
<1>9. Flags'
  <2>1. \A x \in Cache : /\ x \notin Live' => /\ obj'[x].id = None /\ ~ obj'[x].canUse
                                              /\ obj'[x].shrink = {}
                         /\ obj'[x].canUse => obj'[x].id # None /\ obj'[x].shrink = {}
    BY <1>3 DEF Known, Flags, Valid
  <2>2. \A x \in Cache : obj[x].state = "dead" => obj'[x].state = "dead"
    BY <1>1 DEF New, Dead
  <2> QED BY <2>1, <2>2 DEF Known, Flags, Valid
<1>10. OneHome' /\ AllHome'
  <2>1. \A x \in Cache : Stays(x)
    BY <1>2, <1>3 DEF Stays, Own
  <2> QED BY <2>1, Rehomed DEF Known
<1>11. WithinLimit'
  BY <1>2, <1>3, <1>4 DEF Known, WithinLimit, Valid
<1> QED BY <1>2, <1>7, <1>8, <1>9, <1>10, <1>11 DEF Known

\* Phase one that records nothing.
LEMMA PlainStep ==
    ASSUME Known, Phase1Dfx \/ \E id \in Ident : Phase1Hit(id) \/ Phase1Plain(id)
    PROVE  Known'
<1>1. \A k \in {"exec", "wrap"}, c \in Cache \cup {None} :
        [kind |-> k, cache |-> c] \in Handle
  BY DEF Handle
<1>2. useCount \in Nat /\ hasFull \in BOOLEAN /\ lru \in Seq(Cache)
  BY DEF Known, TypeOK
<1>3. CASE Phase1Dfx
  <2>1. None \notin Range(lru)
    BY <1>2, RangeOfList
  <2>2. lru' = Activate(lru, None)
    BY <1>3, <2>1 DEF Phase1Dfx, Activate
  <2>3. PICK e \in Handle : e.kind = "exec" /\ e.cache = None /\ calls' = Append(calls, e)
    BY <1>1, <1>3 DEF Phase1Dfx
  <2>4. /\ Len(calls) < MaxPending /\ hasFull' \in BOOLEAN /\ obj' = obj
        /\ useCount' = useCount + (IF e.cache = None THEN 0 ELSE 1)
        /\ UNCHANGED <<table, step, repeat, gc, leaked, clearing, counting, unwaited, freed>>
    BY <1>2, <1>3, <2>3 DEF Phase1Dfx, wait
  <2> QED BY <2>1, <2>2, <2>3, <2>4, Looked
<1>4. ASSUME NEW id \in Ident, Phase1Hit(id) PROVE Known'
  <2>0. PICK d : d = Found(id)
    OBVIOUS
  <2>1. /\ Len(calls) < MaxPending /\ obj' = obj /\ d # None /\ obj[d].canUse
        /\ lru' = Activate(lru, d) /\ useCount' = useCount + 1 /\ hasFull' \in BOOLEAN
        /\ calls' = Append(calls, [kind |-> "wrap", cache |-> d])
        /\ UNCHANGED <<table, step, repeat, gc, leaked, clearing, counting, unwaited, freed>>
    BY <1>2, <1>4, <2>0 DEF Phase1Hit, Usable, wait
  <2>2. d \in Cache /\ (d \in Range(lru) \/ \E h \in Hash : table[h] = d)
    BY <2>0, <2>1, FoundIs
  <2>3. PICK e \in Handle : e.kind = "wrap" /\ e.cache = d /\ calls' = Append(calls, e)
    BY <1>1, <2>1, <2>2
  <2>4. useCount' = useCount + (IF e.cache = None THEN 0 ELSE 1)
    BY <2>1, <2>3
  <2> QED BY <2>1, <2>2, <2>3, <2>4, Looked
<1>5. ASSUME NEW id \in Ident, Phase1Plain(id) PROVE Known'
  <2>0. PICK d : d = Found(id)
    OBVIOUS
  <2>1. /\ Len(calls) < MaxPending /\ obj' = obj /\ ~ Usable(d)
        /\ lru' = Activate(lru, d) /\ useCount' = useCount /\ hasFull' \in BOOLEAN
        /\ calls' = Append(calls, [kind |-> "exec", cache |-> None])
        /\ UNCHANGED <<table, step, repeat, gc, leaked, clearing, counting, unwaited, freed>>
    BY <1>2, <1>5, <2>0 DEF Phase1Plain, wait
  <2>2. d \in Range(lru) => d \in Pending
    BY <2>0, <2>1, FoundIs
  <2>3. PICK e \in Handle : e.kind = "exec" /\ e.cache = None /\ calls' = Append(calls, e)
    BY <1>1, <2>1
  <2>4. useCount' = useCount + (IF e.cache = None THEN 0 ELSE 1)
    BY <1>2, <2>1, <2>3
  <2> QED BY <2>1, <2>2, <2>3, <2>4, Looked
<1> QED BY <1>3, <1>4, <1>5

\* What ShrinkCache leaves of cache2_ and what it takes, after a look-up of d.
Left(s) == IF Len(s) >= Limit THEN Kept(s) ELSE s
Gone(s) == IF Len(s) >= Limit THEN Evicted(s) ELSE {}

LEMMA Shrunk ==
    ASSUME Known, Len(calls) < MaxPending, Limit > 0,
           NEW d, d \in Range(lru) => d \in Pending
    PROVE  LET kept == Left(Activate(lru, d))
               gone == Gone(Activate(lru, d))
           IN  /\ kept \in Seq(Cache) /\ IsInjective(kept) /\ Len(kept) < Limit
               /\ Range(kept) \cup gone = Range(lru) /\ Range(kept) \cap gone = {}
               /\ \A x : Ahead(kept, x) \subseteq Ahead(lru, x) \cup ({d} \cap Range(lru))
               /\ gone \cap Pending = {} /\ gone \subseteq Cache
<1>0. PICK s, kept, gone :
         /\ s = Activate(lru, d) /\ kept = Left(s) /\ gone = Gone(s)
         /\ kept = (IF Len(s) >= Limit THEN Kept(s) ELSE s)
         /\ gone = (IF Len(s) >= Limit THEN Evicted(s) ELSE {})
  BY DEF Left, Gone
<1>1. /\ lru \in Seq(Cache) /\ IsInjective(lru) /\ Len(lru) <= Limit
      /\ Range(lru) \subseteq Cache /\ Len(lru) \in Nat
  BY RangeOfList DEF Known, TypeOK, WithinLimit
<1>2. /\ s \in Seq(Cache) /\ Len(s) = Len(lru) /\ Range(s) = Range(lru) /\ IsInjective(s)
      /\ \A x : Ahead(s, x) \subseteq Ahead(lru, x) \cup ({d} \cap Range(lru))
  BY <1>0, <1>1, ActivateList
<1> DEFINE Goal == /\ kept \in Seq(Cache) /\ IsInjective(kept) /\ Len(kept) < Limit
                   /\ Range(kept) \cup gone = Range(lru) /\ Range(kept) \cap gone = {}
                   /\ \A x : Ahead(kept, x) \subseteq Ahead(lru, x) \cup ({d} \cap Range(lru))
                   /\ gone \cap Pending = {} /\ gone \subseteq Cache
<1>3. ASSUME Len(s) >= Limit PROVE Goal
  <2>1. /\ kept \in Seq(Cache) /\ IsInjective(kept) /\ (s # <<>> => Len(kept) < Len(s))
        /\ Range(kept) \cup gone = Range(s) /\ Range(kept) \cap gone = {}
        /\ \A x : Ahead(kept, x) \subseteq Ahead(s, x)
    BY <1>0, <1>2, <1>3, KeptList
  <2>2. gone \cap Pending = {}
    BY <1>0, <1>3, Spared
  <2>3. s # <<>>
    BY <1>2, <1>3
  <2>4. Len(kept) < Limit
    <3>1. Len(kept) \in Nat
      BY <2>1
    <3> QED BY <1>1, <1>2, <2>1, <2>3, <3>1
  <2> QED BY <1>1, <1>2, <2>1, <2>2, <2>4
<1>4. ASSUME ~ (Len(s) >= Limit) PROVE Goal
  BY <1>0, <1>1, <1>2, <1>4
<1>5. Goal
  BY <1>3, <1>4
<1> QED BY <1>0, <1>5

\* A miss is recorded: the new object is filed and keeps what it evicts.
LEMMA FiledStep ==
    ASSUME Known, Len(calls) < MaxPending, NEW id \in Ident, NEW c \in New,
           NEW kept \in Seq(Cache), IsInjective(kept), Len(kept) < Limit, NEW gone \in SUBSET Cache,
           Range(kept) \cup gone = Range(lru), Range(kept) \cap gone = {},
           gone \cap Pending = {}, \A x : Ahead(kept, x) \subseteq Ahead(lru, x) \cup Pending,
           Cardinality({h \in Hash : table[h] # None}) < Limit,
           id \in Hash => table[id] = None,
           id \notin Hash => \A d \in Range(kept) : obj[d].id # id,
           obj' = [obj EXCEPT ![c] = [state |-> "live", id |-> id,
                                      canUse |-> FALSE, shrink |-> gone]],
           table' = (IF id \in Hash THEN [table EXCEPT ![id] = c] ELSE table),
           lru' = (IF id \in Key THEN <<c>> \o kept ELSE kept),
           useCount' = useCount + 1,
           calls' = Append(calls, [kind |-> "exec", cache |-> c]),
           UNCHANGED <<hasFull, gc, leaked, step, repeat, clearing, counting, unwaited, freed>>
    PROVE  Known'
<1>1. /\ lru \in Seq(Cache) /\ obj \in [Cache -> Object] /\ calls \in Seq(Handle)
      /\ table \in [Hash -> Cache \cup {None}] /\ Range(lru) \subseteq Cache /\ useCount \in Nat
  BY RangeOfList DEF Known, TypeOK
<1>2. c \in Cache /\ c \notin Live /\ c \notin freed /\ c # None /\ id # None
      /\ (id \in Hash <=> id \notin Key)
  BY DEF New, Live, Ident, Known, Flags
<1>3. /\ \A h \in Hash : table[h] # c
      /\ c \notin Range(lru) /\ c \notin repeat /\ c \notin leaked
      /\ \A d \in Cache : c \notin obj[d].shrink
      /\ \A q \in Queue : c \notin gc[q]
  BY <1>2, NoHome DEF Known
<1>4. PICK o : o = [state |-> "live", id |-> id, canUse |-> FALSE, shrink |-> gone]
  OBVIOUS
<1>5. /\ o \in Object /\ o.state = "live" /\ o.id = id /\ ~ o.canUse /\ o.shrink = gone
  BY <1>4 DEF Object
<1>6. /\ obj' \in [Cache -> Object] /\ obj'[c] = o
      /\ \A x \in Cache : x # c => obj'[x] = obj[x]
      /\ \A x \in Live : obj'[x] = obj[x]
  BY <1>1, <1>2, <1>4, <1>5 DEF Live
<1>7. PICK e \in Handle : e.kind = "exec" /\ e.cache = c /\ calls' = Append(calls, e)
  <2>1. [kind |-> "exec", cache |-> c] \in Handle
    BY <1>2 DEF Handle
  <2> QED BY <2>1
<1>8. Pending' = Pending \cup {c}
  <2>1. Refers(calls') = Refers(calls) \cup ({e.cache} \ {None})
    BY <1>1, <1>7, CallAdded
  <2>2. Pending = Refers(calls) \ freed /\ Pending' = Refers(calls') \ freed
    BY DEF Pending, Refers
  <2> QED BY <1>2, <1>7, <2>1, <2>2
<1>9. /\ lru' \in Seq(Cache) /\ IsInjective(lru') /\ Len(lru') <= Limit
      /\ Range(lru') = Range(kept) \cup (IF id \in Key THEN {c} ELSE {})
      /\ \A x : Ahead(lru', x) \subseteq Ahead(lru, x) \cup Pending'
      /\ Ahead(lru', c) = {}
  <2>0. c \notin Range(kept) /\ Len(kept) \in Nat
    BY <1>3
  <2>1. CASE id \in Key
    <3>1. /\ lru' \in Seq(Cache) /\ Len(lru') = Len(kept) + 1
          /\ Range(lru') = Range(kept) \cup {c} /\ IsInjective(lru')
          /\ \A x : Ahead(lru', x) \subseteq Ahead(kept, x) \cup {c}
          /\ Ahead(lru', c) = {}
      BY <1>2, <2>0, <2>1, FrontList
    <3>2. Len(lru') <= Limit
      BY <2>0, <3>1
    <3>3. \A x : Ahead(lru', x) \subseteq Ahead(lru, x) \cup Pending'
      BY <1>8, <3>1
    <3> QED BY <2>1, <3>1, <3>2, <3>3
  <2>2. CASE id \notin Key
    <3>1. lru' = kept /\ Ahead(kept, c) = {}
      BY <2>0, <2>2, AheadOf
    <3> QED BY <1>8, <2>0, <2>2, <3>1
  <2> QED BY <2>1, <2>2
<1>10. /\ table' \in [Hash -> Cache \cup {None}]
       /\ \A h \in Hash : table'[h] = IF h = id THEN c ELSE table[h]
  BY <1>1, <1>2
<1>11. /\ Filed' /\ Handles' /\ Stepped' /\ Recent' /\ UsesCounted'
       /\ useCount' \in Nat /\ calls' \in Seq(Handle)
  <2>1. /\ Range(lru') \subseteq Range(lru) \cup {e.cache}
        /\ Pending \cap Range(lru) \subseteq Range(lru')
    BY <1>7, <1>9
  <2>2. Ahead(lru', e.cache) = {}
    BY <1>7, <1>9
  <2>3. \A h \in Hash : table'[h] # table[h] =>
              table[h] = None /\ table'[h] = e.cache /\ obj'[e.cache].id = h
    BY <1>5, <1>6, <1>7, <1>10
  <2>4. e.cache # None => e.cache \in Range(lru') \cup Range(table')
    <3>1. id \in Hash => c \in Range(table')
      BY <1>10 DEF Range
    <3> QED BY <1>2, <1>7, <1>9, <3>1
  <2>5. e.cache \in Range(lru') => obj'[e.cache].id \in Key
    BY <1>3, <1>5, <1>6, <1>7, <1>9
  <2>6. /\ e.kind = "wrap" => e.cache # None /\ e.cache \in Live /\ obj[e.cache].canUse
        /\ e.kind = "exec" /\ e.cache # None =>
              e.cache \notin Live /\ obj'[e.cache].id # None /\ ~ obj'[e.cache].canUse
    BY <1>2, <1>5, <1>6, <1>7
  <2>7. /\ useCount' = useCount + (IF e.cache = None THEN 0 ELSE 1) /\ step' = step
        /\ freed' = freed /\ e.cache \notin freed
    BY <1>2, <1>7
  <2> QED BY <1>6, <1>7, <1>9, <1>10, <2>1, <2>2, <2>3, <2>4, <2>5, <2>6, <2>7, Called
<1>12. TypeOK'
  BY <1>6, <1>9, <1>10, <1>11 DEF Known, TypeOK
<1>13. \A x \in Cache : x \in Live' <=> x \in Live \/ x = c
  BY <1>5, <1>6 DEF Live
<1>14. Flags'
  <2>1. \A x \in Cache : /\ x \notin Live' => /\ obj'[x].id = None /\ ~ obj'[x].canUse
                                              /\ obj'[x].shrink = {}
                         /\ obj'[x].canUse => obj'[x].id # None /\ obj'[x].shrink = {}
    BY <1>5, <1>6, <1>13 DEF Known, Flags, Valid
  <2>2. \A x \in Cache : obj[x].state = "dead" => obj'[x].state = "dead"
    BY <1>6 DEF New
  <2> QED BY <2>1, <2>2 DEF Known, Flags, Valid
<1>15. OneHome' /\ AllHome'
  <2>1. \A x, u \in Cache : x \in obj'[u].shrink <=>
          IF u = c THEN x \in gone ELSE x \in obj[u].shrink
    BY <1>5, <1>6
  <2>2. \E l, v : Moves(c, l, v)
    <3>1. c \notin gone
      BY <1>3
    <3>2. /\ c \in Live' /\ c \notin repeat' /\ c \notin leaked'
          /\ \A u \in Cache : c \notin obj'[u].shrink
          /\ \A q \in Queue : c \notin gc'[q]
      BY <1>2, <1>3, <1>13, <2>1, <3>1
    <3>3. CASE id \in Hash
      <4>1. c \notin Range(lru') /\ \A h \in Hash : table'[h] = c <=> h = id
        BY <1>2, <1>3, <1>9, <1>10, <3>3
      <4>2. Moves(c, "table", id)
        BY <3>2, <3>3, <4>1 DEF Moves, Own
      <4> QED BY <4>2
    <3>4. CASE id \in Key
      <4>1. c \in Range(lru') /\ \A h \in Hash : table'[h] # c
        BY <1>2, <1>3, <1>9, <1>10, <3>4
      <4>2. Moves(c, "lru", None)
        BY <3>2, <4>1 DEF Moves, Own
      <4> QED BY <4>2
    <3> QED BY <3>3, <3>4 DEF Ident
  <2>3. ASSUME NEW x \in gone PROVE \E l, v : Moves(x, l, v)
    <3>1. x \in Cache /\ Own(x, "lru", None) /\ x # c
      BY <1>3 DEF Own
    <3>2. /\ x \in Live /\ x \notin repeat /\ x \notin leaked
          /\ \A h \in Hash : table[h] # x
          /\ \A u \in Cache : x \notin obj[u].shrink
          /\ \A q \in Queue : x \notin gc[q]
      BY <3>1, OnlyHome DEF Known
    <3>3. x \notin Range(lru') /\ (\A h \in Hash : table'[h] # x) /\ x \in Live'
      BY <1>9, <1>10, <1>13, <3>1, <3>2
    <3>4. \A u \in Cache : x \in obj'[u].shrink <=> u = c
      BY <2>1, <3>1, <3>2
    <3>5. Moves(x, "shrink", c)
      BY <1>2, <3>2, <3>3, <3>4 DEF Moves, Own
    <3> QED BY <3>5
  <2>4. ASSUME NEW x \in Cache, x # c, x \notin gone PROVE Stays(x)
    <3>1. /\ x \in Range(lru') <=> x \in Range(lru)
          /\ \A h \in Hash : table'[h] = x <=> table[h] = x
      BY <1>1, <1>9, <1>10, <2>4
    <3>2. \A u \in Cache : x \in obj'[u].shrink <=> x \in obj[u].shrink
      <4>1. obj[c].shrink = {}
        BY <1>2 DEF Known, Flags
      <4> QED BY <2>1, <2>4, <4>1
    <3> QED BY <1>13, <2>4, <3>1, <3>2 DEF Stays, Own
  <2>5. \A x \in Cache : Stays(x) \/ Dies(x) \/ \E l, v : Moves(x, l, v)
    BY <2>2, <2>3, <2>4
  <2> QED BY <2>5, Rehomed DEF Known
<1>16. WithinLimit'
  <2>1. Cardinality({h \in Hash : table'[h] # None}) <= Limit
    <3> DEFINE T == {h \in Hash : table[h] # None}
               U == {h \in Hash : table'[h] # None}
    <3>1. T \in SUBSET Hash /\ U \in SUBSET (T \cup {id})
      BY <1>10
    <3>2. IsFiniteSet(T) /\ Cardinality(T) \in Nat
      BY <3>1, FS_Subset, FS_CardinalityType
    <3>3. IsFiniteSet(T \cup {id}) /\ Cardinality(T \cup {id}) \in {Cardinality(T), Cardinality(T) + 1}
      BY <3>2, FS_AddElement
    <3>4. Cardinality(U) <= Cardinality(T \cup {id}) /\ Cardinality(U) \in Nat
      BY <3>1, <3>3, FS_Subset, FS_CardinalityType
    <3>5. Cardinality(T) < Limit
      OBVIOUS
    <3> HIDE DEF T, U
    <3>6. Cardinality(U) <= Limit
      BY <3>2, <3>3, <3>4, <3>5
    <3> QED BY <3>6 DEF U
  <2>2. \A x \in Range(kept) : x \in Live /\ x # c /\ obj'[x] = obj[x] /\ x \in Range(lru)
    <3> TAKE x \in Range(kept)
    <3>1. x \in Range(lru) /\ x \in Cache /\ Own(x, "lru", None) /\ x # c
      BY <1>1, <1>3 DEF Own
    <3>2. x \in Live
      BY <3>1, OnlyHome DEF Known
    <3> QED BY <1>6, <3>1, <3>2
  <2>3. ASSUME NEW x \in Range(lru'), NEW y \in Range(lru'),
               obj'[x].id # None, obj'[x].id = obj'[y].id
        PROVE  x = y
    <3>1. CASE x \in Range(kept) /\ y \in Range(kept)
      BY <2>2, <2>3, <3>1 DEF Known, WithinLimit, Valid
    <3>2. CASE id \in Key /\ (x = c \/ y = c)
      <4>1. \A z \in Range(kept) : obj'[z].id # id
        BY <1>2, <2>2, <3>2
      <4> QED BY <1>5, <1>6, <1>9, <2>3, <3>2, <4>1
    <3> QED BY <1>9, <3>1, <3>2
  <2> QED BY <1>9, <2>1, <2>3 DEF WithinLimit, Valid
<1> QED BY <1>9, <1>11, <1>12, <1>14, <1>15, <1>16 DEF Known

\* A miss is not recorded after all; what was evicted goes to the collector.
LEMMA UnfiledStep ==
    ASSUME Known, Len(calls) < MaxPending, NEW c \in New,
           NEW kept \in Seq(Cache), IsInjective(kept), Len(kept) < Limit, NEW gone \in SUBSET Cache,
           Range(kept) \cup gone = Range(lru), Range(kept) \cap gone = {},
           gone \cap Pending = {}, \A x : Ahead(kept, x) \subseteq Ahead(lru, x) \cup Pending,
           obj' = [obj EXCEPT ![c] = Dead], Submit("main", gone), lru' = kept,
           calls' = Append(calls, [kind |-> "exec", cache |-> None]),
           UNCHANGED <<table, useCount, hasFull, step, repeat, clearing, counting, unwaited, freed>>
    PROVE  Known'
<1>1. /\ TypeOK /\ lru \in Seq(Cache) /\ obj \in [Cache -> Object] /\ calls \in Seq(Handle)
      /\ table \in [Hash -> Cache \cup {None}] /\ Range(lru) \subseteq Cache /\ useCount \in Nat
      /\ "main" \in Queue
  BY RangeOfList DEF Known, TypeOK, Queue
<1>2. c \in Cache /\ c \notin Live /\ obj[c].shrink = {}
  BY DEF New, Live, Known, Flags
<1>3. /\ Dead \in Object /\ Dead.state = "dead" /\ Dead.shrink = {}
      /\ Dead.id = None /\ ~ Dead.canUse
  BY DEF Dead, Object
<1>4. /\ obj' \in [Cache -> Object] /\ obj'[c] = Dead
      /\ \A x \in Cache : x # c => obj'[x] = obj[x]
      /\ \A x \in Live : obj'[x] = obj[x]
      /\ \A x \in Cache : x \in Live' <=> x \in Live
      /\ \A x \in Cache : obj'[x].shrink = obj[x].shrink
  BY <1>1, <1>2, <1>3 DEF Live
<1>5. gc' \in [Queue -> SUBSET Cache] /\ leaked' \subseteq Cache
  BY <1>1, Submitted
<1>6. PICK fit \in SUBSET gone :
                /\ \A p \in Queue : gc'[p] = gc[p] \cup (IF p = "main" THEN fit ELSE {})
                /\ leaked' = leaked \cup (gone \ fit)
  <2>1. TypeOK /\ "main" \in Queue /\ Submit("main", gone)
    BY <1>1
  <2> QED BY ONLY <2>1, gone \in SUBSET Cache, Submitted
<1>7. PICK e \in Handle : e.kind = "exec" /\ e.cache = None /\ calls' = Append(calls, e)
  <2>1. [kind |-> "exec", cache |-> None] \in Handle
    BY DEF Handle
  <2> QED BY <2>1
<1>8. Pending' = Pending
  <2>1. Refers(calls') = Refers(calls) \cup ({e.cache} \ {None})
    BY <1>1, <1>7, CallAdded
  <2> QED BY <1>7, <2>1 DEF Pending, Refers
<1>9. Range(kept) \subseteq Range(lru) /\ None \notin Range(kept)
  BY <1>1
<1>10. /\ Filed' /\ Handles' /\ Stepped' /\ Recent' /\ UsesCounted'
       /\ useCount' \in Nat /\ calls' \in Seq(Handle)
  <2>1. /\ Range(lru') \subseteq Range(lru) \cup {e.cache}
        /\ Pending \cap Range(lru) \subseteq Range(lru')
    BY <1>9
  <2>2. Ahead(lru', e.cache) = {} /\ \A x : Ahead(lru', x) \subseteq Ahead(lru, x) \cup Pending'
    BY <1>7, <1>8, <1>9, AheadOf
  <2>3. e.cache \in Range(lru') => obj'[e.cache].id \in Key
    BY <1>7, <1>9
  <2>4. /\ useCount' = useCount + (IF e.cache = None THEN 0 ELSE 1) /\ step' = step
        /\ freed' = freed /\ e.cache \notin freed
    BY <1>1, <1>7 DEF TypeOK
  <2>5. table' \in [Hash -> Cache \cup {None}] /\ lru' \in Seq(Cache)
    BY <1>1
  <2> QED BY <1>4, <1>7, <2>1, <2>2, <2>3, <2>4, <2>5, Called
<1>11. TypeOK'
  BY <1>4, <1>5, <1>10 DEF Known, TypeOK
<1>12. Flags'
  <2>1. \A x \in Cache : /\ x \notin Live' => /\ obj'[x].id = None /\ ~ obj'[x].canUse
                                              /\ obj'[x].shrink = {}
                         /\ obj'[x].canUse => obj'[x].id # None /\ obj'[x].shrink = {}
    BY <1>3, <1>4 DEF Known, Flags, Valid
  <2>2. \A x \in Cache : obj[x].state = "dead" => obj'[x].state = "dead"
    BY <1>3, <1>4
  <2> QED BY <2>1, <2>2 DEF Known, Flags, Valid
<1>13. OneHome' /\ AllHome'
  <2>1. ASSUME NEW x \in gone PROVE \E l, v : Moves(x, l, v)
    <3>1. x \in Cache /\ Own(x, "lru", None)
      BY DEF Own
    <3>2. /\ x \in Live /\ x \notin repeat /\ x \notin leaked
          /\ \A h \in Hash : table[h] # x
          /\ \A u \in Cache : x \notin obj[u].shrink
          /\ \A q \in Queue : x \notin gc[q]
      BY <3>1, OnlyHome DEF Known
    <3>3. /\ x \in Live' /\ x \notin Range(lru') /\ x \notin repeat'
          /\ \A h \in Hash : table'[h] # x
          /\ \A u \in Cache : x \notin obj'[u].shrink
          /\ \A q \in Queue : x \in gc'[q] <=> q = "main" /\ x \in fit
          /\ x \in leaked' <=> x \notin fit
      BY <1>4, <1>6, <3>1, <3>2
    <3>4. CASE x \in fit
      <4>1. Moves(x, "gc", "main")
        BY <1>1, <3>3, <3>4 DEF Moves, Own
      <4> QED BY <4>1
    <3>5. CASE x \notin fit
      <4>1. Moves(x, "leaked", None)
        BY <3>3, <3>5 DEF Moves, Own
      <4> QED BY <4>1
    <3> QED BY <3>4, <3>5
  <2>2. ASSUME NEW x \in Cache, x \notin gone PROVE Stays(x)
    <3>1. /\ x \in Range(lru') <=> x \in Range(lru)
          /\ \A q \in Queue : x \in gc'[q] <=> x \in gc[q]
          /\ x \in leaked' <=> x \in leaked
      BY <1>6, <2>2
    <3> QED BY <1>4, <2>2, <3>1 DEF Stays, Own
  <2>3. \A x \in Cache : Stays(x) \/ Dies(x) \/ \E l, v : Moves(x, l, v)
    BY <2>1, <2>2
  <2> QED BY <2>3, Rehomed DEF Known
<1>14. WithinLimit'
  <2>1. \A x \in Range(kept) : x \in Live /\ obj'[x] = obj[x] /\ x \in Range(lru)
    BY <1>1, <1>4, <1>9, OnlyHome DEF Known, Own
  <2>2. Len(kept) <= Limit
    <3>1. Len(kept) \in Nat
      OBVIOUS
    <3> QED BY <3>1
  <2> QED BY <2>1, <2>2 DEF Known, WithinLimit, Valid
<1> QED BY <1>10, <1>11, <1>12, <1>13, <1>14 DEF Known

\* Phase one of a miss.
LEMMA RecordStep ==
    ASSUME Known, NEW id \in Ident, NEW abandoned \in BOOLEAN, Phase1Record(id, abandoned)
    PROVE  Known'
<1>0. PICK c, d, s, kept, gone :
        /\ c = (CHOOSE x \in New : TRUE) /\ d = Found(id) /\ s = Activate(lru, d)
        /\ kept = (IF Len(s) >= Limit THEN Kept(s) ELSE s)
        /\ gone = (IF Len(s) >= Limit THEN Evicted(s) ELSE {})
  OBVIOUS
<1>1. /\ Len(calls) < MaxPending /\ ~ Usable(d) /\ New # {}
      /\ UNCHANGED <<step, repeat, clearing, counting, unwaited, freed>>
      /\ \/ /\ hasFull' \in BOOLEAN
            /\ obj' = [obj EXCEPT ![c] = Dead]
            /\ lru' = s
            /\ calls' = Append(calls, [kind |-> "exec", cache |-> None])
            /\ UNCHANGED <<table, useCount, gc, leaked>>
         \/ /\ ~ (Cardinality({h \in Hash : table[h] # None}) >= Limit)
            /\ IF id \in Hash THEN table[id] = None
               ELSE ~ \E x \in Range(kept) : obj[x].id = id
            /\ obj' = [obj EXCEPT ![c] = [state |-> "live", id |-> id,
                                          canUse |-> FALSE, shrink |-> gone]]
            /\ table' = IF id \in Hash THEN [table EXCEPT ![id] = c] ELSE table
            /\ lru' = IF id \in Key THEN <<c>> \o kept ELSE kept
            /\ useCount' = useCount + 1
            /\ calls' = Append(calls, [kind |-> "exec", cache |-> c])
            /\ UNCHANGED <<hasFull, gc, leaked>>
         \/ /\ ~ (Cardinality({h \in Hash : table[h] # None}) >= Limit)
            /\ obj' = [obj EXCEPT ![c] = Dead]
            /\ Submit("main", gone)
            /\ lru' = kept
            /\ calls' = Append(calls, [kind |-> "exec", cache |-> None])
            /\ UNCHANGED <<table, useCount, hasFull>>
  <2>1. hasFull \in BOOLEAN
    BY DEF Known, TypeOK
  <2> QED BY <1>0, <2>1 DEF Phase1Record, wait
<1>2. c \in New
  BY <1>0, <1>1
<1>3. d \in Range(lru) => d \in Pending
  BY <1>0, <1>1, FoundIs
<1>4. CASE /\ hasFull' \in BOOLEAN
           /\ obj' = [obj EXCEPT ![c] = Dead]
           /\ lru' = s
           /\ calls' = Append(calls, [kind |-> "exec", cache |-> None])
           /\ UNCHANGED <<table, useCount, gc, leaked>>
  <2>1. [kind |-> "exec", cache |-> None] \in Handle
    BY DEF Handle
  <2>2. PICK e \in Handle : e.kind = "exec" /\ e.cache = None /\ calls' = Append(calls, e)
    BY <1>4, <2>1
  <2>3. useCount' = useCount + (IF e.cache = None THEN 0 ELSE 1)
    BY <1>4, <2>2 DEF Known, TypeOK
  <2>4. lru' = Activate(lru, d) /\ UNCHANGED <<table, step, repeat, gc, leaked, clearing, counting, unwaited, freed>>
    BY <1>0, <1>1, <1>4
  <2> QED BY <1>1, <1>2, <1>3, <1>4, <2>2, <2>3, <2>4, Looked
<1>5. ASSUME ~ (Cardinality({h \in Hash : table[h] # None}) >= Limit)
      PROVE  /\ Cardinality({h \in Hash : table[h] # None}) < Limit
             /\ kept \in Seq(Cache) /\ IsInjective(kept) /\ Len(kept) < Limit
             /\ Range(kept) \cup gone = Range(lru) /\ Range(kept) \cap gone = {}
             /\ \A x : Ahead(kept, x) \subseteq Ahead(lru, x) \cup Pending
             /\ gone \cap Pending = {} /\ gone \in SUBSET Cache
  <2>1. {h \in Hash : table[h] # None} \in SUBSET Hash
    OBVIOUS
  <2>2. Cardinality({h \in Hash : table[h] # None}) \in Nat
    BY <2>1, FS_Subset, FS_CardinalityType
  <2>3. Cardinality({h \in Hash : table[h] # None}) < Limit /\ Limit > 0
    BY <1>5, <2>2
  <2>4. /\ kept \in Seq(Cache) /\ IsInjective(kept) /\ Len(kept) < Limit
        /\ Range(kept) \cup gone = Range(lru) /\ Range(kept) \cap gone = {}
        /\ \A x : Ahead(kept, x) \subseteq Ahead(lru, x) \cup ({d} \cap Range(lru))
        /\ gone \cap Pending = {} /\ gone \subseteq Cache
    <3>1. /\ s = Activate(lru, d)
          /\ kept = (IF Len(s) >= Limit THEN Kept(s) ELSE s)
          /\ gone = (IF Len(s) >= Limit THEN Evicted(s) ELSE {})
          /\ Len(calls) < MaxPending /\ (d \in Range(lru) => d \in Pending) /\ Limit > 0
      BY <1>0, <1>1, <1>3, <2>3
    <3>2. kept = Left(Activate(lru, d)) /\ gone = Gone(Activate(lru, d))
      BY <3>1 DEF Left, Gone
    <3> QED BY <3>1, <3>2, Shrunk
  <2> QED BY <1>3, <2>3, <2>4
<1>6. CASE /\ ~ (Cardinality({h \in Hash : table[h] # None}) >= Limit)
           /\ IF id \in Hash THEN table[id] = None
              ELSE ~ \E x \in Range(kept) : obj[x].id = id
           /\ obj' = [obj EXCEPT ![c] = [state |-> "live", id |-> id,
                                         canUse |-> FALSE, shrink |-> gone]]
           /\ table' = IF id \in Hash THEN [table EXCEPT ![id] = c] ELSE table
           /\ lru' = IF id \in Key THEN <<c>> \o kept ELSE kept
           /\ useCount' = useCount + 1
           /\ calls' = Append(calls, [kind |-> "exec", cache |-> c])
           /\ UNCHANGED <<hasFull, gc, leaked>>
  <2>1. /\ Len(calls) < MaxPending
        /\ UNCHANGED <<hasFull, gc, leaked, step, repeat, clearing, counting, unwaited, freed>>
        /\ id \in Hash => table[id] = None
        /\ id \notin Hash => \A x \in Range(kept) : obj[x].id # id
    BY <1>1, <1>6
  <2> QED BY <1>2, <1>5, <1>6, <2>1, FiledStep
<1>7. CASE /\ ~ (Cardinality({h \in Hash : table[h] # None}) >= Limit)
           /\ obj' = [obj EXCEPT ![c] = Dead]
           /\ Submit("main", gone)
           /\ lru' = kept
           /\ calls' = Append(calls, [kind |-> "exec", cache |-> None])
           /\ UNCHANGED <<table, useCount, hasFull>>
  <2>1. /\ Len(calls) < MaxPending
        /\ UNCHANGED <<table, useCount, hasFull, step, repeat, clearing, counting, unwaited, freed>>
    BY <1>1, <1>7
  <2> QED BY <1>2, <1>5, <1>7, <2>1, UnfiledStep
<1> QED BY <1>1, <1>4, <1>6, <1>7
-----------------------------------------------------------------------------
(* The theorems.                                                           *)

LEMMA KnownInit == Init => Known
<1> SUFFICES ASSUME Init PROVE Known
  OBVIOUS
<1>1. PICK o : o = [state |-> "new", id |-> None, canUse |-> FALSE, shrink |-> {}]
  OBVIOUS
<1>2. /\ o \in Object /\ o.state = "new" /\ o.id = None /\ ~ o.canUse /\ o.shrink = {}
  BY <1>1 DEF Object
<1>3. obj = [c \in Cache |-> o] /\ \A c \in Cache : obj[c] = o
  BY <1>1 DEF Init
<1>4. /\ lru = <<>> /\ calls = <<>> /\ step = "run" /\ useCount = 0
      /\ table = [h \in Hash |-> None] /\ \A h \in Hash : table[h] = None
      /\ repeat = {} /\ leaked = {} /\ freed = {} /\ \A q \in Queue : gc[q] = {}
  BY DEF Init
<1>5. /\ Range(lru) = {} /\ IsInjective(lru) /\ lru \in Seq(Cache) /\ Len(lru) = 0
      /\ calls \in Seq(Handle) /\ DOMAIN calls = {} /\ Len(calls) = 0
  BY <1>4, EmptyList
<1>6. TypeOK
  <2>1. obj \in [Cache -> Object]
    BY <1>2, <1>3
  <2>2. table \in [Hash -> Cache \cup {None}] /\ gc \in [Queue -> SUBSET Cache]
    BY DEF Init
  <2>3. hasFull \in BOOLEAN /\ clearing \in BOOLEAN /\ counting \in BOOLEAN /\ unwaited \in BOOLEAN
    BY DEF Init
  <2> QED BY <1>4, <1>5, <2>1, <2>2, <2>3 DEF TypeOK
<1>7. OneHome /\ AllHome
  <2>1. \A c \in Cache : \A k, u : ~ Own(c, k, u)
    BY <1>2, <1>3, <1>4, <1>5 DEF Own
  <2>2. \A c \in Cache : c \notin Live
    BY <1>2, <1>3 DEF Live
  <2> QED BY <2>1, <2>2 DEF OneHome, AllHome
<1>8. Flags
  BY <1>2, <1>3, <1>4 DEF Flags, Valid
<1>9. Pending = {}
  BY <1>5 DEF Pending
<1>10. Filed /\ Handles /\ Stepped /\ Recent
  BY <1>4, <1>5, <1>9 DEF Filed, Handles, Stepped, Recent
<1>11. UsesCounted
  <2>1. {i \in DOMAIN calls : calls[i].cache # None} = {}
    BY <1>5
  <2> QED BY <1>4, <2>1, FS_EmptySet DEF UsesCounted
<1>12. WithinLimit
  <2>1. {h \in Hash : table[h] # None} = {}
    BY <1>4
  <2>2. Cardinality({h \in Hash : table[h] # None}) = 0
    BY <2>1, FS_EmptySet
  <2> QED BY <1>5, <2>2 DEF WithinLimit
<1> QED BY <1>5, <1>6, <1>7, <1>8, <1>10, <1>11, <1>12 DEF Known

\* The invariant holds in every state of every behaviour: what is known of the
\* owners, the handles and the order of cache2_ survives every step of the
\* main thread, the runner and the collectors.
THEOREM CacheInvariance == Spec => []Known
<1>1. Known /\ [Next]_vars => Known'
  <2> SUFFICES ASSUME Known, [Next]_vars PROVE Known'
    OBVIOUS
  <2>1. CASE Phase1
    BY <2>1, PlainStep, RecordStep DEF Phase1
  <2>2. CASE Phase2
    BY <2>2, RunWrapStep, RunRecordStep, FinalizeStep, DoneStep DEF Phase2
  <2>3. CASE Repeatable
    BY <2>3, SetRepeatableStep, RunRepeatableStep, DestroyRepeatableStep DEF Repeatable
  <2>4. CASE BeginClear \/ ThreadEnds \/ UNCHANGED vars
    BY <2>4, QuietStep
  <2>5. CASE EndClear \/ ClearExpires \/ ClearUncounted
    BY <2>5, EndClearStep
  <2>6. CASE \E q \in Queue : Collect(q)
    BY <2>6, CollectStep
  <2> QED BY <2>1, <2>2, <2>3, <2>4, <2>5, <2>6 DEF Next
<1> QED BY KnownInit, <1>1, PTL DEF Spec

\* No handle refers to a deleted recording, unless a clearing that went ahead
\* of the uses deleted it: eviction (ShrinkCache), garbage collection and a
\* clearing that waits for useCount_ never free what a phase two is going to
\* run, and only finished recordings are handed out as wraps.
THEOREM NoDanglingHandles == Spec => []NoDangling
<1>1. Known => NoDangling
  <2> SUFFICES ASSUME Known PROVE NoDangling
    OBVIOUS
  <2>1. ASSUME NEW i \in DOMAIN calls, calls[i].cache # None
        PROVE  calls[i].cache \in Live \cup freed
    <3>1. calls[i].cache \in Pending \cup freed /\ calls[i].cache \in Cache
      BY <2>1, PendingFacts
    <3> QED BY <3>1, PendingFacts, OnlyHome DEF Known
  <2>2. repeat \subseteq Live
    <3>1. ASSUME NEW c \in repeat PROVE c \in Live
      <4>1. c \in Cache /\ Own(c, "repeat", None)
        BY DEF Own, Known, TypeOK
      <4> QED BY <4>1, OnlyHome DEF Known
    <3> QED BY <3>1
  <2>3. ASSUME NEW i \in DOMAIN calls, calls[i].kind = "wrap", calls[i].cache \notin freed,
               NEW c, c = calls[i].cache
        PROVE  obj[c].canUse /\ Valid(c) /\ obj[c].shrink = {}
    <3>1. c # None /\ obj[c].canUse
      BY <2>3 DEF Known, Handles
    <3>2. c \in Cache
      BY <2>3, <3>1, PendingFacts
    <3> QED BY <3>1, <3>2 DEF Known, Flags
  <2>4. freed # {} => unwaited
    BY DEF Known, Flags
  <2> QED BY <2>1, <2>2, <2>3, <2>4 DEF NoDangling
<1> QED BY <1>1, CacheInvariance, PTL

\* An object with one place has one owner, one without has none.
LEMMA OwnersByHome == Known => OneOwner
<1> SUFFICES ASSUME Known, NEW c \in Cache
             PROVE  Cardinality(Owners(c)) = (IF c \in Live THEN 1 ELSE 0)
  BY DEF OneOwner
<1>1. DOMAIN lru = 1 .. Len(lru) /\ \A i, j \in DOMAIN lru : lru[i] = lru[j] => i = j
  BY DEF Known, TypeOK, IsInjective
<1>2. c \in Range(lru) <=> \E i \in DOMAIN lru : lru[i] = c
  BY DEF Range
<1>3. CASE c \notin Live
  <2>1. /\ \A h \in Hash : table[h] # c
        /\ c \notin Range(lru) /\ c \notin repeat /\ c \notin leaked
        /\ \A d \in Cache : c \notin obj[d].shrink
        /\ \A q \in Queue : c \notin gc[q]
    BY <1>3, NoHome DEF Known
  <2>2. Owners(c) = {}
    BY <1>2, <2>1 DEF Owners
  <2> QED BY <1>3, <2>2, FS_EmptySet
<1>4. CASE c \in Live
  <2>1. PICK k, v : Own(c, k, v)
    BY <1>4 DEF Known, AllHome
  <2>2. /\ \A h \in Hash : table[h] = c => k = "table" /\ v = h
        /\ c \in Range(lru) => k = "lru"
        /\ \A d \in Cache : c \in obj[d].shrink => k = "shrink" /\ v = d
        /\ \A q \in Queue : c \in gc[q] => k = "gc" /\ v = q
        /\ c \in repeat => k = "repeat"
        /\ c \in leaked => k = "leaked"
    BY <2>1, OnlyHome DEF Known
  <2>3. \E x : Owners(c) = {x}
    <3>1. CASE k = "table"
      <4>1. Owners(c) = {<<"table", v>>}
        BY <1>2, <2>1, <2>2, <3>1 DEF Own, Owners
      <4> QED BY <4>1
    <3>2. CASE k = "lru"
      <4>1. PICK i \in DOMAIN lru : lru[i] = c
        BY <1>2, <2>1, <3>2 DEF Own
      <4>2. Owners(c) = {<<"lru", i>>}
        BY <1>1, <2>2, <3>2, <4>1 DEF Owners
      <4> QED BY <4>2
    <3>3. CASE k = "shrink"
      <4>1. Owners(c) = {<<"shrink", v>>}
        BY <1>2, <2>1, <2>2, <3>3 DEF Own, Owners
      <4> QED BY <4>1
    <3>4. CASE k = "gc"
      <4>1. Owners(c) = {<<"gc", v>>}
        BY <1>2, <2>1, <2>2, <3>4 DEF Own, Owners
      <4> QED BY <4>1
    <3>5. CASE k = "repeat"
      <4>1. Owners(c) = {<<"repeat", c>>}
        BY <1>2, <2>1, <2>2, <3>5 DEF Own, Owners
      <4> QED BY <4>1
    <3>6. CASE k = "leaked"
      <4>1. Owners(c) = {<<"leaked", c>>}
        BY <1>2, <2>1, <2>2, <3>6 DEF Own, Owners
      <4> QED BY <4>1
    <3> QED BY <2>1, <3>1, <3>2, <3>3, <3>4, <3>5, <3>6 DEF Own
  <2> QED BY <1>4, <2>3, FS_Singleton
<1> QED BY <1>3, <1>4

\* Every recording that exists has exactly one owner, a deleted one has none,
\* and useCount_ is the number of handles with a recording.
THEOREM CacheAccounted == Spec => []Accounted
<1>1. Known => Accounted
  BY OwnersByHome DEF Known, Accounted
<1> QED BY <1>1, CacheInvariance, PTL

\* Neither container grows past cacheLimit_, and a key has one entry.
THEOREM CacheWithinLimit == Spec => []WithinLimit
<1>1. Known => WithinLimit
  BY DEF Known
<1> QED BY <1>1, CacheInvariance, PTL
-----------------------------------------------------------------------------
(* The ring between a thread and its garbage collector (LockFreeQueue): for *)
(* every ring size, the plain accesses of the two threads never meet in one *)
(* slot, and the ring implements a bounded queue.                           *)

HIDE LimitAssumption

\* Advancing an index modulo Size (Enqueue's nextTail, Dequeue's new head)
\* wraps to slot 0 exactly at the last slot.
LEMMA SuccessorWraps ==
    ASSUME NEW i \in Slot
    PROVE  Successor(i) = IF i = Size - 1 THEN 0 ELSE i + 1
<1>1. Size \in Nat /\ Size > 0 /\ i \in Nat /\ i < Size
  BY SizeAssumption DEF Slot
<1>2. CASE i = Size - 1
  <2>1. i + 1 = Size BY <1>1, <1>2
  <2>2. Size % Size = 0 BY <1>1
  <2> QED BY <2>1, <2>2, <1>2 DEF Successor
<1>3. CASE i # Size - 1
  <2>1. i + 1 \in 0 .. Size - 1 BY <1>1, <1>3
  <2>2. (i + 1) % Size = i + 1 BY <1>1, <2>1
  <2> QED BY <2>2, <1>3 DEF Successor
<1> QED BY <1>2, <1>3

\* A freshly constructed queue satisfies the inductive invariant.
LEMMA RingInitInv == RingInit => RingInv
BY SizeAssumption, SMT DEF RingInit, RingInv, RingTypeOK, Order, CheckedEnqueue, CheckedDequeue,
   HeldValues, Distance, Slot, Wrap

\* Every step of Enqueue, of Dequeue and of their callers preserves it.
LEMMA RingNextInv == RingInv /\ [RingNext]_ringVars => RingInv'
<1> SUFFICES ASSUME RingInv, [RingNext]_ringVars PROVE RingInv'
  OBVIOUS
<1> USE SizeAssumption DEF RingInv, RingTypeOK, Slot
<1>1. CASE \E v \in Value : EnqueueCall(v)
  BY <1>1, SMT DEF EnqueueCall, shared, consumer, Order, CheckedEnqueue, CheckedDequeue,
     HeldValues, Distance, Wrap
<1>2. CASE EnqueueCheck
  <2>1. PICK h \in Visible(seenHead, head) :
           /\ seenHead' = h
           /\ ppc' = IF Successor(tail) = h THEN "idle" ELSE "write"
    BY <1>2 DEF EnqueueCheck
  <2>2. UNCHANGED <<buffer, head, tail, value, cpc, read, seenTail, out>>
    BY <1>2 DEF EnqueueCheck, shared, consumer
  <2>3. Successor(tail) = IF tail = Size - 1 THEN 0 ELSE tail + 1
    BY SuccessorWraps
  <2>4. RingTypeOK' /\ Order'
    BY <1>2, <2>1, <2>2, SMT DEF Visible, Order, Distance
  <2>5. CheckedEnqueue'
    BY <1>2, <2>1, <2>2, <2>3, <2>4, SMT DEF EnqueueCheck, Visible, Order, CheckedEnqueue, Distance
  <2>6. CheckedDequeue' /\ HeldValues'
    BY <2>2 DEF CheckedDequeue, HeldValues, Distance, Wrap
  <2> QED BY <2>4, <2>5, <2>6
<1>3. CASE EnqueueWrite
  <2>1. /\ UNCHANGED <<head, tail, value, seenHead, cpc, read, seenTail, out>>
        /\ ppc = "write" /\ ppc' = "publish"
        /\ buffer' = [buffer EXCEPT ![tail] = value]
    BY <1>3 DEF EnqueueWrite, consumer
  <2>2. RingTypeOK' /\ Order' /\ CheckedEnqueue'
    BY <2>1, SMT DEF Order, CheckedEnqueue, Distance
  <2>3. CheckedDequeue'
    BY <2>1, SMT DEF Order, CheckedDequeue, Distance
  <2>4. HeldValues'
    <3>1. SUFFICES ASSUME NEW k \in 1 .. Distance(head, tail)
                   PROVE  buffer'[Wrap(head + k - 1)] \in Value
      BY <2>1 DEF HeldValues, Distance, Wrap
    <3>2. Wrap(head + k - 1) \in Slot /\ Wrap(head + k - 1) # tail
      BY <3>1, SMT DEF Distance, Wrap
    <3> QED BY <2>1, <3>1, <3>2 DEF HeldValues
  <2> QED BY <2>2, <2>3, <2>4
<1>4. CASE EnqueuePublish
  <2>1. /\ UNCHANGED <<buffer, head, value, seenHead, cpc, read, seenTail, out>>
        /\ ppc = "publish" /\ ppc' = "idle"
        /\ tail' = IF tail = Size - 1 THEN 0 ELSE tail + 1
    BY <1>4, SuccessorWraps DEF EnqueuePublish, consumer
  <2>2. RingTypeOK' /\ Order' /\ CheckedEnqueue' /\ CheckedDequeue'
    BY <2>1, SMT DEF Order, CheckedEnqueue, CheckedDequeue, Distance
  <2>3. HeldValues'
    <3>1. SUFFICES ASSUME NEW k \in 1 .. Distance(head, tail')
                   PROVE  buffer[Wrap(head + k - 1)] \in Value
      BY <2>1 DEF HeldValues, Distance, Wrap
    <3>2. k \in 1 .. Distance(head, tail) \/ Wrap(head + k - 1) = tail
      BY <2>1, <3>1, SMT DEF Order, CheckedEnqueue, Distance, Wrap
    <3> QED BY <2>1, <3>2 DEF HeldValues, CheckedEnqueue
  <2> QED BY <2>2, <2>3
<1>5. CASE DequeueCheck
  <2>1. PICK t \in Visible(seenTail, tail) :
           /\ seenTail' = t
           /\ cpc' = IF head = t THEN "idle" ELSE "read"
    BY <1>5 DEF DequeueCheck
  <2>2. UNCHANGED <<buffer, head, tail, ppc, value, seenHead, read, out>>
    BY <1>5 DEF DequeueCheck, shared, producer
  <2>3. RingTypeOK' /\ Order'
    BY <2>1, <2>2, SMT DEF Visible, Order, Distance
  <2>4. CheckedEnqueue' /\ CheckedDequeue' /\ HeldValues'
    BY <2>1, <2>2, SMT DEF CheckedEnqueue, CheckedDequeue, HeldValues, Distance, Wrap
  <2> QED BY <2>3, <2>4
<1>6. CASE DequeueRead
  BY <1>6, SMT DEF DequeueRead, shared, producer, Order, CheckedEnqueue, CheckedDequeue,
     HeldValues, Distance, Wrap
<1>7. CASE DequeuePublish
  <2>1. /\ UNCHANGED <<buffer, tail, ppc, value, seenHead, read, seenTail>>
        /\ cpc = "publish" /\ cpc' = "idle" /\ out' = read
        /\ head' = IF head = Size - 1 THEN 0 ELSE head + 1
    BY <1>7, SuccessorWraps DEF DequeuePublish, producer
  <2>2. RingTypeOK' /\ Order' /\ CheckedEnqueue' /\ CheckedDequeue'
    BY <2>1, SMT DEF Order, CheckedEnqueue, CheckedDequeue, Distance
  <2>3. HeldValues'
    <3>1. SUFFICES ASSUME NEW k \in 1 .. Distance(head', tail')
                   PROVE  buffer[Wrap(head' + k - 1)] \in Value
      BY <2>1 DEF HeldValues, Distance, Wrap
    <3>2. k + 1 \in 1 .. Distance(head, tail) /\ Wrap(head' + k - 1) = Wrap(head + (k + 1) - 1)
      BY <2>1, <3>1, SMT DEF Order, CheckedDequeue, Distance, Wrap
    <3> QED BY <3>2 DEF HeldValues
  <2> QED BY <2>2, <2>3
<1>8. CASE UNCHANGED ringVars
  BY <1>8, SMT DEF ringVars, shared, producer, consumer, Order, CheckedEnqueue, CheckedDequeue,
     HeldValues, Distance, Wrap
<1> QED BY <1>1, <1>2, <1>3, <1>4, <1>5, <1>6, <1>7, <1>8 DEF RingNext, Producer, Consumer

\* The inductive invariant holds in every reachable state.
THEOREM RingInvariance == RingSpec => []RingInv
BY RingInitInv, RingNextInv, PTL DEF RingSpec

\* The variables of the queue keep their types, so no index leaves the ring.
THEOREM RingTypeCorrect == RingSpec => []RingTypeOK
<1>1. RingInv => RingTypeOK BY DEF RingInv
<1> QED BY RingInvariance, <1>1, PTL

\* Enqueue and Dequeue never access one slot of buffer[] at the same time.
THEOREM RingRaceFree == RingSpec => []NoSlotRace
<1>1. RingInv => NoSlotRace
  BY SizeAssumption, SMT DEF RingInv, RingTypeOK, Slot, Order, CheckedDequeue, NoSlotRace, Distance
<1> QED BY RingInvariance, <1>1, PTL

\* How each step changes the content of the ring: publishing an Enqueue
\* appends its value, publishing a Dequeue removes the oldest, and no other
\* step touches a slot that is in use.
LEMMA ContentStep ==
    ASSUME RingInv, [RingNext]_ringVars
    PROVE  \/ /\ value \in Value /\ Len(Content) < Size - 1
              /\ Content' = Append(Content, value) /\ out' = out
           \/ /\ Content # <<>>
              /\ Content' = Tail(Content) /\ out' = Head(Content)
           \/ UNCHANGED <<Content, out>>
<1> USE SizeAssumption DEF RingInv, RingTypeOK, Slot
<1>0. Distance(head, tail) \in Nat /\ Distance(head, tail) < Size
  BY DEF Distance
<1>1. Content \in Seq(Value) /\ Len(Content) = Distance(head, tail)
  BY <1>0 DEF Content, HeldValues
<1>2. CASE EnqueueWrite
  <2>1. /\ UNCHANGED <<head, tail, out>>
        /\ buffer' = [buffer EXCEPT ![tail] = value]
    BY <1>2 DEF EnqueueWrite, consumer
  <2>2. \A k \in 1 .. Distance(head, tail) :
            buffer'[Wrap(head + k - 1)] = buffer[Wrap(head + k - 1)]
    <3>1. TAKE k \in 1 .. Distance(head, tail)
    <3>2. Wrap(head + k - 1) \in Slot /\ Wrap(head + k - 1) # tail
      BY <3>1, SMT DEF Distance, Wrap
    <3> QED BY <2>1, <3>2
  <2> QED BY <2>1, <2>2 DEF Content, Distance, Wrap
<1>3. CASE EnqueuePublish
  <2>1. /\ UNCHANGED <<buffer, head, out>> /\ ppc = "publish"
        /\ tail' = IF tail = Size - 1 THEN 0 ELSE tail + 1
    BY <1>3, SuccessorWraps DEF EnqueuePublish, consumer
  <2>2. /\ value \in Value /\ buffer[tail] = value
        /\ Distance(head, tail) < Size - 1
    BY <2>1, SMT DEF Order, CheckedEnqueue, Distance
  <2>3. Distance(head, tail') = Distance(head, tail) + 1
    BY <2>1, <2>2, SMT DEF Distance
  <2>4. Wrap(head + (Distance(head, tail) + 1) - 1) = tail
    BY SMT DEF Distance, Wrap
  <2>5. Content' = [k \in 1 .. Distance(head, tail) + 1 |-> buffer[Wrap(head + k - 1)]]
    BY <2>1, <2>3 DEF Content, Distance, Wrap
  <2>6. Append(Content, value) =
            [k \in 1 .. Distance(head, tail) + 1 |->
               IF k = Distance(head, tail) + 1 THEN value ELSE Content[k]]
    BY <1>0, <1>1, <2>2
  <2>7. \A k \in 1 .. Distance(head, tail) + 1 :
            buffer[Wrap(head + k - 1)] =
               IF k = Distance(head, tail) + 1 THEN value ELSE Content[k]
    BY <1>0, <2>2, <2>4 DEF Content
  <2> QED BY <1>1, <2>1, <2>2, <2>5, <2>6, <2>7
<1>4. CASE DequeuePublish
  <2>1. /\ UNCHANGED <<buffer, tail>> /\ cpc = "publish" /\ out' = read
        /\ head' = IF head = Size - 1 THEN 0 ELSE head + 1
    BY <1>4, SuccessorWraps DEF DequeuePublish, producer
  <2>2. read = buffer[head] /\ Distance(head, tail) > 0
    BY <2>1, SMT DEF Order, CheckedDequeue, Distance
  <2>3. Distance(head', tail) = Distance(head, tail) - 1
    <3>1. head \in Nat /\ tail \in Nat /\ Size \in Nat /\ head < Size /\ tail < Size
      OBVIOUS
    <3>2. CASE head = Size - 1
      BY <2>1, <2>2, <3>1, <3>2 DEF Distance
    <3>3. CASE head # Size - 1
      BY <2>1, <2>2, <3>1, <3>3 DEF Distance
    <3> QED BY <3>2, <3>3
  <2>4. Content # <<>> /\ Head(Content) = buffer[head]
    BY <1>0, <1>1, <2>2 DEF Content, Wrap
  <2>5. Content' = [k \in 1 .. Distance(head, tail) - 1 |-> buffer[Wrap(head' + k - 1)]]
    BY <2>1, <2>3 DEF Content, Distance, Wrap
  <2>6. Tail(Content) = [k \in 1 .. Distance(head, tail) - 1 |-> Content[k + 1]]
    <3>1. /\ Tail(Content) \in Seq(Value) /\ Len(Tail(Content)) = Distance(head, tail) - 1
          /\ \A k \in 1 .. Len(Tail(Content)) : Tail(Content)[k] = Content[k + 1]
      BY <1>1, <2>4, HeadTailProperties
    <3>2. PICK t : t = Tail(Content)
      OBVIOUS
    <3>3. t \in Seq(Value) /\ Len(t) = Distance(head, tail) - 1
      BY <3>1, <3>2
    <3>4. t = [k \in 1 .. Len(t) |-> t[k]]
      BY <3>3
    <3>5. \A k \in 1 .. Distance(head, tail) - 1 : t[k] = Content[k + 1]
      BY <3>1, <3>2, <3>3
    <3> QED BY <3>2, <3>3, <3>4, <3>5
  <2>7. \A k \in 1 .. Distance(head, tail) - 1 :
            buffer[Wrap(head' + k - 1)] = Content[k + 1]
    <3>1. TAKE k \in 1 .. Distance(head, tail) - 1
    <3>2. k + 1 \in 1 .. Distance(head, tail)
      BY <1>0, <3>1
    <3>3. Wrap(head' + k - 1) = Wrap(head + (k + 1) - 1)
      BY <2>1, <3>1, SMT DEF Distance, Wrap
    <3> QED BY <3>2, <3>3 DEF Content
  <2> QED BY <2>1, <2>2, <2>4, <2>5, <2>6, <2>7
<1>5. CASE UNCHANGED <<buffer, head, tail, out>>
  BY <1>5 DEF Content, Distance, Wrap
<1> QED
  BY <1>2, <1>3, <1>4, <1>5
  DEF RingNext, Producer, Consumer, EnqueueCall, EnqueueCheck, DequeueCheck, DequeueRead,
      ringVars, shared, producer, consumer

\* The ring implements the bounded first-in first-out queue, for every Size.
THEOREM RingImplementsFifo == RingSpec => ImplementsFifo
<1>1. RingInit => Fifo!Init
  BY SizeAssumption DEF RingInit, Fifo!Init, Content, Distance
<1>2. RingInv /\ [RingNext]_ringVars => [Fifo!Next]_Fifo!vars
  BY ContentStep DEF Fifo!Next, Fifo!Accept, Fifo!HandOut, Fifo!vars
<1> QED BY <1>1, <1>2, RingInvariance, PTL DEF RingSpec, ImplementsFifo, Fifo!Spec
=============================================================================
