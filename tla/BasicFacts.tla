---------------------------- MODULE BasicFacts ----------------------------
(***************************************************************************)
(* Facts the proofs share: the least and the largest element of a set of   *)
(* numbers, for the loops of the code that look for one, and what the      *)
(* steps of a list (push, pop, take the head, join) do to the set of its   *)
(* elements and to their being different.                                  *)
(***************************************************************************)
EXTENDS Integers, Sequences, Functions, WellFoundedInduction, TLAPS

\* A set of natural numbers that is not empty has a least element.
LEMMA LeastNatural ==
    ASSUME NEW S, S \subseteq Nat, S # {}
    PROVE  \E m \in S : \A k \in S : m <= k
<1>1. PICK m \in S : \A k \in S : <<k, m>> \notin OpToRel(<, Nat)
  BY WFMin, NatLessThanWellFounded, Zenon
<1>2. \A k \in S : ~ (k < m)
  <2> TAKE k \in S
  <2>1. <<k, m>> \in Nat \X Nat
    OBVIOUS
  <2> QED BY <1>1, <2>1 DEF OpToRel
<1> QED BY <1>2

\* A bounded set of natural numbers that is not empty has a largest element:
\* what a loop over all indices that keeps the last hit ends with
\* (GetBestFitBucket, CalcLifeTimeAndSize).
LEMMA LargestNatural ==
    ASSUME NEW n \in Nat, NEW S, S \subseteq 0 .. n, S # {}
    PROVE  \E m \in S : \A k \in S : k <= m
<1> DEFINE T == {n - k : k \in S}
<1>1. T \subseteq Nat
  <2>1. \A k \in S : k \in 0 .. n
    OBVIOUS
  <2>2. \A k \in 0 .. n : n - k \in Nat
    OBVIOUS
  <2> QED BY <2>1, <2>2
<1>2. T # {}
  OBVIOUS
<1>3. \A k \in S : n - k \in T
  OBVIOUS
<1>4. PICK m \in T : \A k \in T : m <= k
  <2> HIDE DEF T
  <2> QED BY <1>1, <1>2, LeastNatural
<1>5. PICK x \in S : m = n - x
  OBVIOUS
<1>6. \A k \in S : k <= x
  <2> TAKE k \in S
  <2>1. n - x <= n - k
    BY <1>3, <1>4, <1>5, Zenon
  <2>2. k \in 0 .. n /\ x \in 0 .. n
    OBVIOUS
  <2> HIDE DEF T
  <2> QED BY <2>1, <2>2
<1> QED BY <1>6
-----------------------------------------------------------------------------
(* Lists of different elements.                                            *)

\* A list has an element at each of its places.
LEMMA RangeOfList ==
    ASSUME NEW S, NEW s \in Seq(S)
    PROVE  /\ Range(s) \subseteq S
           /\ \A x : x \in Range(s) <=> \E i \in 1 .. Len(s) : s[i] = x
           /\ IsInjective(s) <=> \A i, j \in 1 .. Len(s) : s[i] = s[j] => i = j
BY DEF Range, IsInjective

\* The empty list.
LEMMA EmptyList == Range(<<>>) = {} /\ IsInjective(<<>>)
BY DEF Range, IsInjective

\* Popping a stack takes its top away, and only its top.
LEMMA PopList ==
    ASSUME NEW S, NEW s \in Seq(S), s # <<>>, IsInjective(s)
    PROVE  /\ SubSeq(s, 1, Len(s) - 1) \in Seq(S)
           /\ Len(SubSeq(s, 1, Len(s) - 1)) = Len(s) - 1
           /\ s[Len(s)] \in Range(s)
           /\ Range(SubSeq(s, 1, Len(s) - 1)) = Range(s) \ {s[Len(s)]}
           /\ IsInjective(SubSeq(s, 1, Len(s) - 1))
<1> DEFINE n == Len(s)
           p == SubSeq(s, 1, n - 1)
<1>1. n \in Nat \ {0}
  OBVIOUS
<1>2. p \in Seq(S) /\ Len(p) = n - 1 /\ \A i \in 1 .. n - 1 : p[i] = s[i]
  <2>1. \A k \in 0 .. Len(s) : /\ SubSeq(s, 1, k) \in Seq(S) /\ Len(SubSeq(s, 1, k)) = k
                              /\ \A i \in 1 .. k : SubSeq(s, 1, k)[i] = s[i]
    OBVIOUS
  <2>2. n - 1 \in 0 .. Len(s)
    BY <1>1
  <2> QED BY <2>1, <2>2, Zenon
<1>3. s[n] \in Range(s)
  BY <1>1, RangeOfList
<1>4. \A i, j \in 1 .. n : s[i] = s[j] => i = j
  BY RangeOfList
<1> HIDE DEF p
<1>5. Range(p) = Range(s) \ {s[n]}
  <2>1. \A x : x \in Range(p) <=> \E i \in 1 .. n - 1 : s[i] = x
    BY <1>1, <1>2, RangeOfList
  <2>2. \A x : x \in Range(s) <=> \E i \in 1 .. n : s[i] = x
    BY RangeOfList
  <2> QED BY <1>1, <1>4, <2>1, <2>2
<1>6. IsInjective(p)
  BY <1>1, <1>2, <1>4 DEF IsInjective
<1> QED BY <1>2, <1>3, <1>5, <1>6 DEF p

\* Pushing an element that is not in the list.
LEMMA PushList ==
    ASSUME NEW S, NEW s \in Seq(S), NEW e \in S
    PROVE  /\ Append(s, e) \in Seq(S)
           /\ Len(Append(s, e)) = Len(s) + 1
           /\ Range(Append(s, e)) = Range(s) \cup {e}
           /\ IsInjective(s) /\ e \notin Range(s) => IsInjective(Append(s, e))
<1> DEFINE n == Len(s)
           p == Append(s, e)
<1>1. /\ n \in Nat /\ p \in Seq(S) /\ Len(p) = n + 1
      /\ \A i \in 1 .. n : p[i] = s[i]
      /\ p[n + 1] = e
  OBVIOUS
<1> HIDE DEF p
<1>2. \A x : x \in Range(p) <=> \E i \in 1 .. n + 1 : p[i] = x
  BY <1>1, RangeOfList
<1>3. \A x : x \in Range(s) <=> \E i \in 1 .. n : s[i] = x
  BY RangeOfList
<1>4. Range(p) = Range(s) \cup {e}
  BY <1>1, <1>2, <1>3
<1>5. ASSUME IsInjective(s), e \notin Range(s) PROVE IsInjective(p)
  <2>1. \A i, j \in 1 .. n : s[i] = s[j] => i = j
    BY <1>5, RangeOfList
  <2> SUFFICES ASSUME NEW i \in 1 .. n + 1, NEW j \in 1 .. n + 1, p[i] = p[j]
               PROVE  i = j
    BY <1>1 DEF IsInjective
  <2>2. CASE i \in 1 .. n /\ j \in 1 .. n
    BY <1>1, <2>1, <2>2
  <2>3. CASE i = n + 1 \/ j = n + 1
    BY <1>1, <1>3, <1>5, <2>3
  <2> QED BY <1>1, <2>2, <2>3
<1> QED BY <1>1, <1>4, <1>5 DEF p

\* The places of two lists that are joined.
LEMMA JoinPlaces ==
    ASSUME NEW S, NEW s \in Seq(S), NEW r \in Seq(S)
    PROVE  /\ s \o r \in Seq(S) /\ Len(s \o r) = Len(s) + Len(r)
           /\ \A i \in 1 .. Len(s) : (s \o r)[i] = s[i]
           /\ \A i \in 1 .. Len(r) : (s \o r)[Len(s) + i] = r[i]
OBVIOUS

\* Joining two lists that have no element in common.
LEMMA JoinLists ==
    ASSUME NEW S, NEW s \in Seq(S), NEW r \in Seq(S)
    PROVE  /\ s \o r \in Seq(S)
           /\ Len(s \o r) = Len(s) + Len(r)
           /\ Range(s \o r) = Range(s) \cup Range(r)
           /\ IsInjective(s) /\ IsInjective(r) /\ Range(s) \cap Range(r) = {}
              => IsInjective(s \o r)
<1> DEFINE n == Len(s)
           m == Len(r)
           p == s \o r
<1>1. /\ n \in Nat /\ m \in Nat /\ p \in Seq(S) /\ Len(p) = n + m
      /\ \A i \in 1 .. n : p[i] = s[i]
      /\ \A i \in 1 .. m : p[n + i] = r[i]
  OBVIOUS
<1> HIDE DEF n, m, p
<1>2. \A x : x \in Range(p) <=> \E i \in 1 .. n + m : p[i] = x
  <2>1. DOMAIN p = 1 .. n + m
    BY <1>1
  <2> QED BY <2>1, Zenon DEF Range
<1>3. \A x : x \in Range(s) <=> \E i \in 1 .. n : s[i] = x
  BY RangeOfList DEF n
<1>4. \A x : x \in Range(r) <=> \E i \in 1 .. m : r[i] = x
  BY RangeOfList DEF m
<1>5. \A i \in 1 .. n + m : i \in 1 .. n \/ \E k \in 1 .. m : i = n + k
  <2> TAKE i \in 1 .. n + m
  <2>1. i > n => i - n \in 1 .. m /\ i = n + (i - n)
    BY <1>1
  <2> QED BY <1>1, <2>1
<1>6. \A i \in 1 .. n : i \in 1 .. n + m
  BY <1>1
<1>7. \A i \in 1 .. m : n + i \in 1 .. n + m
  BY <1>1
<1>8. Range(p) = Range(s) \cup Range(r)
  <2>1. ASSUME NEW x \in Range(p) PROVE x \in Range(s) \cup Range(r)
    <3>1. PICK i \in 1 .. n + m : p[i] = x
      BY <1>2, Zenon
    <3>2. CASE i \in 1 .. n
      BY <1>1, <1>3, <3>1, <3>2
    <3>3. ASSUME NEW k \in 1 .. m, i = n + k PROVE x \in Range(r)
      BY <1>1, <1>4, <3>1, <3>3
    <3> QED BY <1>5, <3>2, <3>3
  <2>2. ASSUME NEW x \in Range(s) PROVE x \in Range(p)
    BY <1>1, <1>2, <1>3, <1>6
  <2>3. ASSUME NEW x \in Range(r) PROVE x \in Range(p)
    BY <1>1, <1>2, <1>4, <1>7
  <2> QED BY <2>1, <2>2, <2>3
<1>9. ASSUME IsInjective(s), IsInjective(r), Range(s) \cap Range(r) = {}
      PROVE  IsInjective(p)
  <2>1. \A i, j \in 1 .. n : s[i] = s[j] => i = j
    BY <1>9, RangeOfList DEF n
  <2>2. \A i, j \in 1 .. m : r[i] = r[j] => i = j
    BY <1>9, RangeOfList DEF m
  <2>3. \A i \in 1 .. n, j \in 1 .. m : s[i] # r[j]
    BY <1>3, <1>4, <1>9
  <2> SUFFICES ASSUME NEW i \in 1 .. n + m, NEW j \in 1 .. n + m, p[i] = p[j]
               PROVE  i = j
    BY <1>1 DEF IsInjective
  <2>4. \A k \in 1 .. n : k \in Int /\ p[k] = s[k]
    BY <1>1
  <2>5. \A k \in 1 .. m : k \in Int /\ p[n + k] = r[k]
    BY <1>1
  <2>6. CASE i \in 1 .. n /\ j \in 1 .. n
    BY <2>1, <2>4, <2>6
  <2>7. ASSUME i \in 1 .. n, NEW k \in 1 .. m, j = n + k PROVE FALSE
    BY <2>3, <2>4, <2>5, <2>7
  <2>8. ASSUME NEW k \in 1 .. m, i = n + k, j \in 1 .. n PROVE FALSE
    BY <2>3, <2>4, <2>5, <2>8
  <2>9. ASSUME NEW k \in 1 .. m, NEW l \in 1 .. m, i = n + k, j = n + l PROVE i = j
    BY <2>2, <2>5, <2>9
  <2> QED BY <1>5, <2>6, <2>7, <2>8, <2>9
<1> QED BY <1>1, <1>8, <1>9 DEF n, m, p

\* Taking the head of a queue.
LEMMA HeadTail ==
    ASSUME NEW S, NEW s \in Seq(S), s # <<>>
    PROVE  /\ Head(s) \in S /\ Head(s) \in Range(s)
           /\ Tail(s) \in Seq(S) /\ Len(Tail(s)) = Len(s) - 1
           /\ Range(s) = {Head(s)} \cup Range(Tail(s))
           /\ IsInjective(s) => /\ IsInjective(Tail(s))
                                /\ Head(s) \notin Range(Tail(s))
<1> DEFINE n == Len(s)
           p == Tail(s)
<1>1. /\ n \in Nat \ {0} /\ p \in Seq(S) /\ Len(p) = n - 1
      /\ \A i \in 1 .. n - 1 : p[i] = s[i + 1]
      /\ Head(s) = s[1]
  OBVIOUS
<1>2. Head(s) \in S
  OBVIOUS
<1> HIDE DEF p
<1>3. \A x : x \in Range(s) <=> \E i \in 1 .. n : s[i] = x
  BY RangeOfList
<1>4. \A x : x \in Range(p) <=> \E i \in 1 .. n - 1 : s[i + 1] = x
  BY <1>1, RangeOfList
<1>5. \A i \in 1 .. n : i = 1 \/ \E k \in 1 .. n - 1 : i = k + 1
  <2> TAKE i \in 1 .. n
  <2>1. i # 1 => i - 1 \in 1 .. n - 1 /\ i = (i - 1) + 1
    BY <1>1
  <2> QED BY <1>1, <2>1
<1>6. Range(s) = {Head(s)} \cup Range(p)
  <2>1. ASSUME NEW x \in Range(s) PROVE x \in {Head(s)} \cup Range(p)
    BY <1>1, <1>3, <1>4, <1>5
  <2>2. ASSUME NEW x \in Range(p) PROVE x \in Range(s)
    BY <1>1, <1>3, <1>4
  <2>3. Head(s) \in Range(s)
    BY <1>1, <1>3
  <2> QED BY <2>1, <2>2, <2>3
<1>7. ASSUME IsInjective(s) PROVE IsInjective(p) /\ Head(s) \notin Range(p)
  <2>1. \A i, j \in 1 .. n : s[i] = s[j] => i = j
    BY <1>7, RangeOfList
  <2>2. IsInjective(p)
    BY <1>1, <2>1 DEF IsInjective
  <2>3. Head(s) \notin Range(p)
    BY <1>1, <1>4, <2>1
  <2> QED BY <2>2, <2>3
<1> QED BY <1>1, <1>2, <1>6, <1>7 DEF p
=============================================================================
