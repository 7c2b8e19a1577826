----------------------------- MODULE ListLemmas -----------------------------
(***************************************************************************)
(* Lemmas about sequences and listings that several proofs need: what a       *)
(* sequence holds after it grew, shrank or was cut, the least of a set of     *)
(* numbers, and the places of the members of a finite set in their order.     *)
(***************************************************************************)
EXTENDS Integers, SequencesExt, FiniteSetsExt, TLAPS, FiniteSetTheorems, SequenceTheorems,
        WellFoundedInduction

----------------------------------------------------------------------------
(* Sequences.                                                                 *)

(* A function over 1..m is a sequence of length m.                            *)
LEMMA SequenceOf ==
  ASSUME NEW S, NEW m \in Nat, NEW f \in [1..m -> S]
  PROVE  f \in Seq(S) /\ Len(f) = m /\ DOMAIN f = 1..m
<1>1. f \in Seq(S)
  BY SeqDef
<1>2. 1..Len(f) = 1..m /\ Len(f) \in Nat
  BY <1>1, LenProperties
<1>3. Len(f) = m
  BY <1>2
<1> QED
  BY <1>1, <1>3

(* What a sequence holds.                                                     *)
LEMMA ToSetOfSeq ==
  ASSUME NEW S, NEW s \in Seq(S)
  PROVE  \A x : x \in ToSet(s) <=> \E k \in 1..Len(s) : s[k] = x
<1>1. DOMAIN s = 1..Len(s)
  BY LenProperties
<1> QED
  BY <1>1 DEF ToSet

(* Two sequences, one after the other, hold what either holds.                *)
LEMMA ToSetConcat ==
  ASSUME NEW S, NEW s \in Seq(S), NEW t \in Seq(S)
  PROVE  ToSet(s \o t) = ToSet(s) \cup ToSet(t)
<1> DEFINE u == s \o t
<1>1. /\ u \in Seq(S) /\ Len(u) = Len(s) + Len(t) /\ Len(s) \in Nat /\ Len(t) \in Nat
      /\ \A i \in 1..Len(s) + Len(t) : u[i] = IF i <= Len(s) THEN s[i] ELSE t[i - Len(s)]
  BY ConcatProperties, LenProperties
<1> HIDE DEF u
<1>2. ASSUME NEW x \in ToSet(u) PROVE x \in ToSet(s) \cup ToSet(t)
  <2>1. PICK k \in 1..Len(u) : u[k] = x
    BY <1>1, <1>2, ToSetOfSeq
  <2>2. CASE k <= Len(s)
    BY <1>1, <2>1, <2>2, ToSetOfSeq
  <2>3. CASE ~(k <= Len(s))
    <3>1. k - Len(s) \in 1..Len(t) /\ t[k - Len(s)] = x
      BY <1>1, <2>1, <2>3
    <3> QED
      BY <3>1, ToSetOfSeq
  <2> QED
    BY <2>2, <2>3
<1>3. ASSUME NEW x \in ToSet(s) PROVE x \in ToSet(u)
  <2>1. PICK k \in 1..Len(s) : s[k] = x
    BY <1>3, ToSetOfSeq
  <2>2. k \in 1..Len(u) /\ u[k] = x
    BY <1>1, <2>1
  <2> QED
    BY <1>1, <2>2, ToSetOfSeq
<1>4. ASSUME NEW x \in ToSet(t) PROVE x \in ToSet(u)
  <2>1. PICK k \in 1..Len(t) : t[k] = x
    BY <1>4, ToSetOfSeq
  <2>2. k + Len(s) \in 1..Len(u) /\ ~(k + Len(s) <= Len(s)) /\ (k + Len(s)) - Len(s) = k
    BY <1>1, <2>1
  <2>3. u[k + Len(s)] = x
    BY <1>1, <2>1, <2>2
  <2> QED
    BY <1>1, <2>2, <2>3, ToSetOfSeq
<1>5. ToSet(u) = ToSet(s) \cup ToSet(t)
  BY <1>2, <1>3, <1>4
<1> QED
  BY <1>5 DEF u

(* One element more.                                                          *)
LEMMA ToSetAppend ==
  ASSUME NEW S, NEW s \in Seq(S), NEW e \in S
  PROVE  ToSet(Append(s, e)) = ToSet(s) \cup {e}
<1> DEFINE u == Append(s, e)
<1>1. /\ u \in Seq(S) /\ Len(u) = Len(s) + 1 /\ Len(s) \in Nat
      /\ \A i \in 1..Len(s) : u[i] = s[i]
      /\ u[Len(s) + 1] = e
  BY AppendProperties, LenProperties
<1> HIDE DEF u
<1>2. \A x : x \in ToSet(u) <=> x \in ToSet(s) \/ x = e
  <2> SUFFICES ASSUME NEW x PROVE x \in ToSet(u) <=> x \in ToSet(s) \/ x = e
    OBVIOUS
  <2>1. x \in ToSet(u) <=> \E k \in 1..Len(s) + 1 : u[k] = x
    BY <1>1, ToSetOfSeq
  <2>2. x \in ToSet(s) <=> \E k \in 1..Len(s) : s[k] = x
    BY ToSetOfSeq
  <2> QED
    BY <1>1, <2>1, <2>2
<1>3. ToSet(u) = ToSet(s) \cup {e}
  BY <1>2
<1> QED
  BY <1>3 DEF u

(* The first element is taken, the others stay.                               *)
LEMMA ToSetTail ==
  ASSUME NEW S, NEW s \in Seq(S), s # <<>>
  PROVE  ToSet(s) = {Head(s)} \cup ToSet(Tail(s))
<1> DEFINE u == Tail(s)
<1>1. /\ u \in Seq(S) /\ Len(u) = Len(s) - 1 /\ Len(s) \in Nat
      /\ \A i \in 1..Len(u) : u[i] = s[i + 1]
  BY HeadTailProperties, LenProperties
<1>2. Head(s) = s[1] /\ Len(s) # 0
  BY <1>1, EmptySeq
<1> HIDE DEF u
<1>3. \A x : x \in ToSet(s) <=> x \in ToSet(u) \/ x = Head(s)
  <2> SUFFICES ASSUME NEW x PROVE x \in ToSet(s) <=> x \in ToSet(u) \/ x = Head(s)
    OBVIOUS
  <2>1. x \in ToSet(u) <=> \E k \in 1..Len(s) - 1 : u[k] = x
    BY <1>1, ToSetOfSeq
  <2>2. x \in ToSet(s) <=> \E k \in 1..Len(s) : s[k] = x
    BY ToSetOfSeq
  <2>3. ASSUME NEW k \in 1..Len(s), s[k] = x PROVE x \in ToSet(u) \/ x = Head(s)
    <3>1. CASE k = 1
      BY <1>2, <2>3, <3>1
    <3>2. CASE k # 1
      <4>1. k - 1 \in 1..Len(s) - 1 /\ u[k - 1] = x
        BY <1>1, <2>3, <3>2
      <4> QED
        BY <2>1, <4>1
    <3> QED
      BY <3>1, <3>2
  <2>4. ASSUME NEW k \in 1..Len(s) - 1, u[k] = x PROVE x \in ToSet(s)
    <3>1. k + 1 \in 1..Len(s) /\ s[k + 1] = x
      BY <1>1, <2>4
    <3> QED
      BY <2>2, <3>1
  <2>5. x = Head(s) => x \in ToSet(s)
    BY <1>1, <1>2, <2>2
  <2> QED
    BY <2>1, <2>2, <2>3, <2>4, <2>5
<1>4. ToSet(s) = {Head(s)} \cup ToSet(u)
  BY <1>3
<1> QED
  BY <1>4 DEF u

(* One entry more in a queue.                                                 *)
LEMMA QueueAppended ==
  ASSUME NEW q \in Seq(Nat), IsInjective(q), NEW n \in Nat, n \notin ToSet(q)
  PROVE  /\ Append(q, n) \in Seq(Nat) /\ Len(Append(q, n)) = Len(q) + 1
         /\ ToSet(Append(q, n)) = ToSet(q) \cup {n} /\ IsInjective(Append(q, n))
<1> DEFINE r == Append(q, n)
<1>1. /\ r \in Seq(Nat) /\ Len(r) = Len(q) + 1 /\ Len(q) \in Nat
      /\ \A i \in 1..Len(q) : r[i] = q[i]
      /\ r[Len(q) + 1] = n
  BY AppendProperties, LenProperties
<1>2. ToSet(r) = ToSet(q) \cup {n}
  BY ToSetAppend
<1> HIDE DEF r
<1>3. DOMAIN r = 1..(Len(q) + 1) /\ DOMAIN q = 1..Len(q)
  BY <1>1, LenProperties
<1>4. \A i \in 1..Len(q) : q[i] # n
  BY ToSetOfSeq
<1>5. \A i, k \in 1..Len(q) : q[i] = q[k] => i = k
  BY <1>3 DEF IsInjective
<1>6. \A i, k \in 1..(Len(q) + 1) : r[i] = r[k] => i = k
  <2> SUFFICES ASSUME NEW i \in 1..(Len(q) + 1), NEW k \in 1..(Len(q) + 1), r[i] = r[k] PROVE i = k
    OBVIOUS
  <2>1. CASE i \in 1..Len(q) /\ k \in 1..Len(q)
    BY <1>1, <1>5, <2>1
  <2>2. CASE i \notin 1..Len(q) \/ k \notin 1..Len(q)
    <3>1. (i \notin 1..Len(q) => i = Len(q) + 1) /\ (k \notin 1..Len(q) => k = Len(q) + 1)
      BY <1>1
    <3> QED
      BY <1>1, <1>4, <2>2, <3>1
  <2> QED
    BY <2>1, <2>2
<1>7. IsInjective(r)
  BY <1>3, <1>6 DEF IsInjective
<1> QED
  BY <1>1, <1>2, <1>7 DEF r

(* The first entry is taken from a queue.                                     *)
LEMMA QueueTaken ==
  ASSUME NEW q \in Seq(Nat), IsInjective(q), q # <<>>
  PROVE  /\ Tail(q) \in Seq(Nat) /\ Len(Tail(q)) = Len(q) - 1 /\ Head(q) \in Nat
         /\ ToSet(q) = {Head(q)} \cup ToSet(Tail(q)) /\ Head(q) \notin ToSet(Tail(q))
         /\ IsInjective(Tail(q))
<1> DEFINE r == Tail(q)
<1>1. /\ r \in Seq(Nat) /\ Len(r) = Len(q) - 1 /\ Len(q) \in Nat /\ Head(q) \in Nat
      /\ \A i \in 1..Len(r) : r[i] = q[i + 1]
  BY HeadTailProperties, LenProperties
<1>2. ToSet(q) = {Head(q)} \cup ToSet(r)
  BY ToSetTail
<1> HIDE DEF r
<1>3. DOMAIN r = 1..Len(r) /\ DOMAIN q = 1..Len(q)
  BY <1>1, LenProperties
<1>4. Head(q) = q[1] /\ Len(q) # 0
  BY EmptySeq
<1>5. \A i, k \in 1..Len(q) : q[i] = q[k] => i = k
  BY <1>3 DEF IsInjective
<1>6. Head(q) \notin ToSet(r)
  <2>1. SUFFICES ASSUME NEW i \in 1..Len(r), r[i] = Head(q) PROVE FALSE
    BY <1>1, ToSetOfSeq
  <2>2. i + 1 \in 1..Len(q) /\ 1 \in 1..Len(q) /\ i + 1 # 1 /\ q[i + 1] = q[1]
    BY <1>1, <1>4, <2>1, SMTT(30)
  <2> QED
    BY <1>5, <2>2
<1>7. \A i, k \in 1..Len(r) : r[i] = r[k] => i = k
  <2> SUFFICES ASSUME NEW i \in 1..Len(r), NEW k \in 1..Len(r), r[i] = r[k] PROVE i = k
    OBVIOUS
  <2>1. r[i] = q[i + 1] /\ r[k] = q[k + 1]
    BY <1>1
  <2>2. i + 1 \in 1..Len(q) /\ k + 1 \in 1..Len(q)
    BY <1>1
  <2>3. i + 1 = k + 1
    BY <1>5, <2>1, <2>2
  <2> QED
    BY <2>3
<1>8. IsInjective(r)
  BY <1>3, <1>7 DEF IsInjective
<1> QED
  BY <1>1, <1>2, <1>6, <1>8 DEF r

----------------------------------------------------------------------------
(* Sets of numbers.                                                           *)

(* Sets of numbers up to a bound.                                             *)
LEMMA NumbersUpTo ==
  ASSUME NEW N \in Nat, NEW S, S \subseteq 1..N
  PROVE  S \in SUBSET Nat /\ IsFiniteSet(S)
<1>1. IsFiniteSet(1..N)
  BY FS_Interval
<1>2. S \in SUBSET (1..N) /\ S \in SUBSET Nat
  OBVIOUS
<1> QED
  BY <1>1, <1>2, FS_Subset

(* A non-empty set of numbers has a least one.                                *)
LEMMA LeastNumber ==
  ASSUME NEW S \in SUBSET Nat, S # {}
  PROVE  Min(S) \in S /\ \A y \in S : Min(S) <= y
<1>1. \E x \in S : \A y \in S : ~(<<y, x>> \in OpToRel(<, Nat))
  BY NatLessThanWellFounded, WFMin
<1>2. \A x, y \in Nat : <<y, x>> \in OpToRel(<, Nat) <=> y < x
  BY DEF OpToRel
<1>3. \E x \in S : \A y \in S : x <= y
  <2>1. PICK x \in S : \A y \in S : ~(<<y, x>> \in OpToRel(<, Nat))
    BY <1>1
  <2>2. \A y \in S : ~(y < x)
    BY <1>2, <2>1
  <2>3. \A a, b \in Nat : ~(a < b) => b <= a
    OBVIOUS
  <2> QED
    BY <2>2, <2>3
<1> QED
  BY <1>3 DEF Min

(* The smaller of two numbers.                                                *)
LEMMA MinOfTwo ==
  ASSUME NEW a \in Nat, NEW b \in Nat
  PROVE  Min({a, b}) = IF a <= b THEN a ELSE b
<1> DEFINE least(x) == x \in {a, b} /\ \A y \in {a, b} : x <= y
<1>1. least(IF a <= b THEN a ELSE b)
  OBVIOUS
<1>2. \E x \in {a, b} : \A y \in {a, b} : x <= y
  BY <1>1
<1>3. Min({a, b}) \in {a, b} /\ \A y \in {a, b} : Min({a, b}) <= y
  BY <1>2 DEF Min
<1> QED
  BY <1>3

(* A finite set and, for each member, the members up to it in some order: the *)
(* sizes of these sets number the members from 1.                             *)
LEMMA ChainRanks ==
  ASSUME NEW S, IsFiniteSet(S), NEW R \in [S -> SUBSET S], \A i \in S : i \in R[i],
         \A i, k \in S : i # k => (R[i] \subseteq R[k] /\ k \notin R[i]) \/ (R[k] \subseteq R[i] /\ i \notin R[k])
  PROVE  /\ Cardinality(S) \in Nat /\ \A i \in S : Cardinality(R[i]) \in 1..Cardinality(S)
         /\ \A i, k \in S : R[i] \subseteq R[k] /\ k \notin R[i] => Cardinality(R[i]) < Cardinality(R[k])
         /\ \A n \in 1..Cardinality(S) : \E i \in S : Cardinality(R[i]) = n
<1>1. \A i \in S : IsFiniteSet(R[i]) /\ Cardinality(R[i]) \in Nat
  BY FS_Subset, FS_CardinalityType
<1>2. \A i \in S : Cardinality(R[i]) <= Cardinality(S)
  BY FS_Subset
<1>3. \A i \in S : Cardinality(R[i]) # 0
  BY <1>1, FS_EmptySet
<1>4. \A i, k \in S : R[i] \subseteq R[k] /\ k \notin R[i] => Cardinality(R[i]) < Cardinality(R[k])
  <2> SUFFICES ASSUME NEW i \in S, NEW k \in S, R[i] \subseteq R[k], k \notin R[i]
               PROVE  Cardinality(R[i]) < Cardinality(R[k])
    OBVIOUS
  <2>1. IsFiniteSet(R[k]) /\ R[i] \in SUBSET R[k] /\ R[i] # R[k]
    BY <1>1
  <2>2. /\ Cardinality(R[i]) <= Cardinality(R[k])
        /\ Cardinality(R[k]) = Cardinality(R[i]) => R[k] = R[i]
    BY <2>1, FS_Subset
  <2> QED
    BY <1>1, <2>1, <2>2
<1>5. Cardinality(S) \in Nat
  BY FS_CardinalityType
<1> DEFINE T == 1..Cardinality(S)
<1> DEFINE f == [i \in S |-> Cardinality(R[i])]
<1>6. f \in [S -> T]
  BY <1>1, <1>2, <1>3, <1>5
<1>7. \A i, k \in S : f[i] = f[k] => i = k
  <2> SUFFICES ASSUME NEW i \in S, NEW k \in S, f[i] = f[k], i # k PROVE FALSE
    OBVIOUS
  <2>1. Cardinality(R[i]) = Cardinality(R[k])
    OBVIOUS
  <2> QED
    BY <1>1, <1>4, <2>1
<1>8. f \in Injection(S, T)
  BY <1>6, <1>7, Zenon DEF Injection, IsInjective
<1>9. IsFiniteSet(T) /\ Cardinality(T) = Cardinality(S)
  BY <1>5, FS_Interval
<1>10. f \in Surjection(S, T)
  <2> HIDE DEF f, T
  <2> QED
    BY <1>8, <1>9, FS_Injection
<1>11. \A n \in T : \E i \in S : f[i] = n
  BY <1>10 DEF Surjection
<1> QED
  BY <1>1, <1>2, <1>3, <1>4, <1>5, <1>11

(* The places of numbers in ascending order.                                  *)
LEMMA RanksUp ==
  ASSUME NEW S \in SUBSET Nat, IsFiniteSet(S)
  PROVE  /\ Cardinality(S) \in Nat
         /\ \A i \in S : Cardinality({j \in S : j <= i}) \in 1..Cardinality(S)
         /\ \A i, k \in S : i < k => Cardinality({j \in S : j <= i}) < Cardinality({j \in S : j <= k})
         /\ \A n \in 1..Cardinality(S) : \E i \in S : Cardinality({j \in S : j <= i}) = n
<1>1. PICK R : R = [i \in S |-> {j \in S : j <= i}]
  OBVIOUS
<1>2. \A i \in S : R[i] = {j \in S : j <= i}
  BY <1>1
<1>a. R \in [S -> SUBSET S]
  BY <1>1
<1>3. \A i \in S : i \in R[i]
  <2>1. \A i \in S : i <= i
    OBVIOUS
  <2> QED
    BY <1>2, <2>1
<1>4. \A i, k \in S : i < k => R[i] \subseteq R[k] /\ k \notin R[i]
  <2> SUFFICES ASSUME NEW i \in S, NEW k \in S, i < k PROVE R[i] \subseteq R[k] /\ k \notin R[i]
    OBVIOUS
  <2>1. \A j \in S : j <= i => j <= k
    OBVIOUS
  <2>2. ~(k <= i)
    OBVIOUS
  <2> QED
    BY <1>2, <2>1, <2>2
<1>5. \A i, k \in S : i # k => (R[i] \subseteq R[k] /\ k \notin R[i]) \/ (R[k] \subseteq R[i] /\ i \notin R[k])
  <2>1. \A i, k \in S : i # k => i < k \/ k < i
    OBVIOUS
  <2> QED
    BY <1>4, <2>1
<1>6. /\ Cardinality(S) \in Nat /\ \A i \in S : Cardinality(R[i]) \in 1..Cardinality(S)
      /\ \A i, k \in S : R[i] \subseteq R[k] /\ k \notin R[i] => Cardinality(R[i]) < Cardinality(R[k])
      /\ \A n \in 1..Cardinality(S) : \E i \in S : Cardinality(R[i]) = n
  BY <1>3, <1>5, <1>a, ChainRanks, ZenonT(60)
<1> QED
  BY <1>2, <1>4, <1>6, ZenonT(60)

(* And in descending order.                                                   *)
LEMMA RanksDown ==
  ASSUME NEW S \in SUBSET Nat, IsFiniteSet(S)
  PROVE  /\ Cardinality(S) \in Nat
         /\ \A i \in S : Cardinality({j \in S : j >= i}) \in 1..Cardinality(S)
         /\ \A i, k \in S : i < k => Cardinality({j \in S : j >= k}) < Cardinality({j \in S : j >= i})
         /\ \A n \in 1..Cardinality(S) : \E i \in S : Cardinality({j \in S : j >= i}) = n
<1>1. PICK R : R = [i \in S |-> {j \in S : j >= i}]
  OBVIOUS
<1>2. \A i \in S : R[i] = {j \in S : j >= i}
  BY <1>1
<1>a. R \in [S -> SUBSET S]
  BY <1>1
<1>3. \A i \in S : i \in R[i]
  <2>1. \A i \in S : i >= i
    OBVIOUS
  <2> QED
    BY <1>2, <2>1
<1>4. \A i, k \in S : i < k => R[k] \subseteq R[i] /\ i \notin R[k]
  <2> SUFFICES ASSUME NEW i \in S, NEW k \in S, i < k PROVE R[k] \subseteq R[i] /\ i \notin R[k]
    OBVIOUS
  <2>1. \A j \in S : j >= k => j >= i
    OBVIOUS
  <2>2. ~(i >= k)
    OBVIOUS
  <2> QED
    BY <1>2, <2>1, <2>2
<1>5. \A i, k \in S : i # k => (R[i] \subseteq R[k] /\ k \notin R[i]) \/ (R[k] \subseteq R[i] /\ i \notin R[k])
  <2>1. \A i, k \in S : i # k => i < k \/ k < i
    OBVIOUS
  <2> QED
    BY <1>4, <2>1
<1>6. /\ Cardinality(S) \in Nat /\ \A i \in S : Cardinality(R[i]) \in 1..Cardinality(S)
      /\ \A i, k \in S : R[i] \subseteq R[k] /\ k \notin R[i] => Cardinality(R[i]) < Cardinality(R[k])
      /\ \A n \in 1..Cardinality(S) : \E i \in S : Cardinality(R[i]) = n
  BY <1>3, <1>5, <1>a, ChainRanks, ZenonT(60)
<1> QED
  BY <1>2, <1>4, <1>6, ZenonT(60)

(* A page has at most its size, is empty only behind the end, and holds what  *)
(* has a place in it.                                                         *)
LEMMA PageFrom ==
  ASSUME NEW all \in Seq(Nat), NEW a \in Nat, NEW size \in Nat, size > 0, NEW q,
         q = SubSeq(all, a + 1, Min({Len(all), a + size}))
  PROVE  /\ q \in Seq(Nat) /\ Len(q) \in 0..size
         /\ q = <<>> => Len(all) <= a
         /\ \A k \in Nat : a <= k /\ k < a + size /\ k < Len(all) => all[k + 1] \in ToSet(q)
<1> DEFINE e == Min({Len(all), a + size})
<1>1. a + size \in Nat /\ Len(all) \in Nat
  BY LenProperties
<1>2. e = IF Len(all) <= a + size THEN Len(all) ELSE a + size
  BY <1>1, MinOfTwo
<1>3. e \in Nat /\ e <= Len(all) /\ e <= a + size
  BY <1>1, <1>2
<1> HIDE DEF e
<1>4. \A i \in (a + 1)..e : all[i] \in Nat
  BY <1>1, <1>3, ElementOfSeq
<1>5. q = SubSeq(all, a + 1, e)
  BY DEF e
<1>6. /\ SubSeq(all, a + 1, e) \in Seq(Nat)
      /\ Len(SubSeq(all, a + 1, e)) = IF a + 1 <= e THEN e - (a + 1) + 1 ELSE 0
      /\ \A i \in 1..(e - (a + 1) + 1) : SubSeq(all, a + 1, e)[i] = all[(a + 1) + i - 1]
  <2>1. a + 1 \in Int /\ e \in Int
    BY <1>3
  <2> QED
    BY <1>4, <2>1, SubSeqProperties
<1>7. /\ q \in Seq(Nat) /\ Len(q) = IF a + 1 <= e THEN e - a ELSE 0
      /\ \A i \in 1..(e - a) : q[i] = all[a + i]
  <2>1. e - (a + 1) + 1 = e - a /\ \A i \in 1..(e - a) : (a + 1) + i - 1 = a + i
    BY <1>3
  <2> QED
    BY <1>5, <1>6, <2>1
<1>8. q = <<>> => Len(all) <= a
  <2>1. q = <<>> => Len(q) = 0
    BY EmptySeq
  <2>2. Len(q) = 0 => ~(a + 1 <= e)
    BY <1>3, <1>7
  <2>3. ~(a + 1 <= e) => Len(all) <= a
    BY <1>1, <1>2
  <2> QED
    BY <2>1, <2>2, <2>3
<1>9. ASSUME NEW k \in Nat, a <= k, k < a + size, k < Len(all)
      PROVE  all[k + 1] \in ToSet(q)
  <2> DEFINE i == k + 1 - a
  <2>1. k + 1 <= e /\ a + 1 <= e /\ i \in 1..(e - a) /\ a + i = k + 1
    BY <1>1, <1>2, <1>9
  <2>2. q[i] = all[k + 1] /\ i \in 1..Len(q)
    BY <1>7, <2>1
  <2> QED
    BY <1>7, <2>2, ToSetOfSeq
<1>10. Len(q) \in 0..size
  BY <1>3, <1>7, SMTT(30)
<1> QED
  BY <1>7, <1>8, <1>9, <1>10

=============================================================================
