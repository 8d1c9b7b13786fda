------------------------ MODULE CompilerCache_proofs ------------------------
(***************************************************************************)
(* What the compiler cache keeps, for every number of runners, keys and    *)
(* objects and for all limits, and that it implements CacheSpec.           *)
(*                                                                         *)
(* TypeOK and EntriesBacked are not inductive: they do not say why a       *)
(* cleanup spares the winner its runner comes back to, or why a receipt is *)
(* still absent when it is created.  CacheInv adds, for each runner, what  *)
(* it carries (Own) and what the holder of the lock has seen of its key    *)
(* and may still rely on (Held), also while it is in a cleanup and means   *)
(* to go on to something (Ahead).  Every step changes one runner's record, *)
(* and the directory only if that runner holds the lock; Step(r) says what *)
(* such a step has to establish, StepKeeps that it then preserves the      *)
(* invariant for the others, and each action has a lemma that it is a      *)
(* Step.                                                                   *)
(*                                                                         *)
(* The limits need what the eviction loop computes: GreedyChoice shows     *)
(* that going through the access order once, deciding each entry by those  *)
(* retained before it, defines a set, KeptBounds that the set is within    *)
(* both limits, and PoisonTakesNoRoom that a poisoned entry falls out only *)
(* for the limit on entries.                                               *)
(***************************************************************************)
EXTENDS CompilerCache, TLAPS, FiniteSetTheorems, SequenceTheorems, WellFoundedInduction

\* A set of numbers that is not empty has a least one.
LEMMA Smallest ==
  ASSUME NEW S, S \subseteq Nat, S # {}
  PROVE  \E i \in S : \A j \in S : i <= j
<1> DEFINE Less == {p \in Nat \X Nat : p[1] < p[2]}
<1>1. IsWellFoundedOn(Less, Nat)
  <2>1. OpToRel(<, Nat) = Less  BY DEF OpToRel
  <2>2. QED  BY <2>1, NatLessThanWellFounded
<1>2. PICK i \in S : \A j \in S : ~(<<j, i>> \in Less)
  <2> HIDE DEF Less
  <2>1. QED  BY <1>1, WFMin
<1>3. ASSUME NEW j \in S, j < i PROVE FALSE
  <2>1. <<j, i>> \in Less  BY <1>3
  <2>2. QED  BY <1>2, <2>1
<1>4. \A j \in S : i \in Nat /\ j \in Nat /\ ~(j < i)  BY <1>3
<1>5. \A j \in S : i <= j  BY <1>4
<1>6. QED  BY <1>5

\* A set of indices that is not empty has a largest one.
LEMMA Largest ==
  ASSUME NEW n \in Nat, NEW S, S \subseteq 1..n, S # {}
  PROVE  \E i \in S : \A j \in S : j <= i
<1> DEFINE Above == {m \in Nat : \A j \in S : j <= m}
<1>1. n \in Above  OBVIOUS
<1>2. PICK i \in Above : \A m \in Above : i <= m
  <2> HIDE DEF Above
  <2>1. Above \subseteq Nat  BY DEF Above
  <2>2. QED  BY <1>1, <2>1, Smallest
<1>3. i \in S
  <2> SUFFICES ASSUME i \notin S PROVE FALSE  OBVIOUS
  <2>1. PICK j \in S : TRUE  OBVIOUS
  <2>2. i \in Nat /\ i # 0 /\ \A k \in S : k <= i - 1  BY <2>1
  <2>3. i - 1 \in Above  BY <2>2
  <2>4. QED  BY <1>2, <2>2, <2>3
<1>4. QED  BY <1>2, <1>3

\* Induction over the naturals, for a set: the library's theorems take an
\* operator, here the property is a set, and what is not in it has a least
\* member.
LEMMA SetInduction ==
  ASSUME NEW S, 0 \in S, \A n \in Nat : n \in S => n + 1 \in S
  PROVE  Nat \subseteq S
<1> DEFINE Less == {p \in Nat \X Nat : p[1] < p[2]}
           T == Nat \ S
<1>1. IsWellFoundedOn(Less, Nat)
  <2>1. OpToRel(<, Nat) = Less  BY DEF OpToRel
  <2>2. QED  BY <2>1, NatLessThanWellFounded
<1>2. SUFFICES ASSUME T # {} PROVE FALSE  OBVIOUS
<1>3. PICK x \in T : \A y \in T : ~(<<y, x>> \in Less)
  <2> HIDE DEF Less
  <2>1. T \subseteq Nat  OBVIOUS
  <2> HIDE DEF T
  <2>2. QED  BY <1>1, <1>2, <2>1, WFMin
<1>4. x \in Nat /\ x \notin S /\ x # 0  OBVIOUS
<1>5. x - 1 \in Nat /\ x - 1 \notin S  BY <1>4
<1>6. <<x - 1, x>> \in Less  BY <1>4, <1>5
<1>7. QED  BY <1>3, <1>4, <1>5, <1>6

\* What a function gives a finite set is no larger than the set.
LEMMA Image ==
  ASSUME NEW f, NEW S, IsFiniteSet(S)
  PROVE  IsFiniteSet({f[x] : x \in S}) /\ Cardinality({f[x] : x \in S}) <= Cardinality(S)
<1> DEFINE T == {f[x] : x \in S}
           g == [x \in S |-> f[x]]
<1>1. g \in Surjection(S, T)  BY DEF Surjection
<1> HIDE DEF g, T
<1>2. IsFiniteSet(T) /\ Cardinality(T) <= Cardinality(S)  BY <1>1, FS_Surjection
<1>3. QED  BY <1>2 DEF T

-----------------------------------------------------------------------------
(* Sequences without repetition.                                           *)

\* A sequence that lists the members of a set once each.
Lists(s, S) == s \in Seq(Key) /\ IsInjective(s) /\ ToSet(s) = S

\* Without a key the others are listed once each.
LEMMA Removal ==
  ASSUME NEW s, NEW S, Lists(s, S), NEW k
  PROVE  Lists(RemoveFirst(s, k), S \ {k})
<1>1. /\ s \in Seq(Key) /\ Len(s) \in Nat /\ DOMAIN s = 1..Len(s)
      /\ \A i, j \in 1..Len(s) : s[i] = s[j] => i = j
      /\ S = {s[i] : i \in 1..Len(s)}
  BY DEF Lists, IsInjective, ToSet
<1>2. CASE \A i \in 1..Len(s) : s[i] # k
  <2>1. RemoveFirst(s, k) = s  BY <1>2 DEF RemoveFirst
  <2>2. S \ {k} = S  BY <1>1, <1>2
  <2>3. QED  BY <2>1, <2>2
<1>3. ASSUME NEW n \in 1..Len(s), s[n] = k PROVE Lists(RemoveFirst(s, k), S \ {k})
  <2>1. {i \in 1..Len(s) : s[i] = k} = {n}  BY <1>1, <1>3
  <2>2. SelectInSeq(s, LAMBDA v : v = k) = n
    <3>1. Min({n}) = n  BY DEF Min
    <3>2. QED  BY <2>1, <3>1 DEF SelectInSeq
  <2> DEFINE t == RemoveAt(s, n)
  <2>3. RemoveFirst(s, k) = t  BY <1>3, <2>2 DEF RemoveFirst
  <2>4. /\ t \in Seq(Key) /\ Len(t) = Len(s) - 1
        /\ \A i \in 1..(Len(s) - 1) : t[i] = IF i < n THEN s[i] ELSE s[i + 1]
    <3> DEFINE a == SubSeq(s, 1, n - 1)
               b == SubSeq(s, n + 1, Len(s))
    <3>0. Len(s) \in Int /\ n \in Int /\ 1 <= n /\ n <= Len(s)  BY <1>1
    <3>1. a \in Seq(Key) /\ Len(a) = n - 1 /\ \A i \in 1..(n - 1) : a[i] = s[i]
      <4>1. 1 \in Int /\ n - 1 \in Int /\ \A i \in 1..(n - 1) : s[i] \in Key
        BY <1>1, <3>0, ElementOfSeq
      <4>2. /\ a \in Seq(Key)
            /\ Len(a) = IF 1 <= n - 1 THEN n - 1 - 1 + 1 ELSE 0
            /\ \A i \in 1..(n - 1 - 1 + 1) : a[i] = s[1 + i - 1]
        BY <4>1, SubSeqProperties
      <4> HIDE DEF a
      <4>3. QED  BY <3>0, <4>2
    <3>2. b \in Seq(Key) /\ Len(b) = Len(s) - n /\ \A i \in 1..(Len(s) - n) : b[i] = s[n + i]
      <4>1. n + 1 \in Int /\ \A i \in (n + 1)..Len(s) : s[i] \in Key
        BY <1>1, <3>0, ElementOfSeq
      <4>2. /\ b \in Seq(Key)
            /\ Len(b) = IF n + 1 <= Len(s) THEN Len(s) - (n + 1) + 1 ELSE 0
            /\ \A i \in 1..(Len(s) - (n + 1) + 1) : b[i] = s[n + 1 + i - 1]
        BY <3>0, <4>1, SubSeqProperties
      <4> HIDE DEF b
      <4>3. QED  BY <3>0, <4>2
    <3>3. t = a \o b  BY DEF RemoveAt
    <3> HIDE DEF a, b, t
    <3>4. t \in Seq(Key) /\ Len(t) = Len(s) - 1  BY <3>0, <3>1, <3>2, <3>3, ConcatProperties
    <3>5. ASSUME NEW i \in 1..(Len(s) - 1) PROVE t[i] = IF i < n THEN s[i] ELSE s[i + 1]
      <4>1. CASE i < n
        <5>1. i \in 1..Len(a)  BY <1>1, <3>1, <4>1
        <5>2. t[i] = a[i]  BY <3>1, <3>2, <3>3, <5>1
        <5>3. QED  BY <3>1, <4>1, <5>1, <5>2
      <4>2. CASE ~(i < n)
        <5>1. i - (n - 1) \in 1..(Len(s) - n) /\ n + (i - (n - 1)) = i + 1
          BY <1>1, <4>2
        <5>2. t[i] = b[i - (n - 1)]
          <6>1. i \in 1..(Len(a) + Len(b)) /\ ~(i <= Len(a)) /\ Len(a) = n - 1
            BY <3>0, <3>1, <3>2, <4>2
          <6>2. \A j \in 1..(Len(a) + Len(b)) :
                   (a \o b)[j] = IF j <= Len(a) THEN a[j] ELSE b[j - Len(a)]
            BY <3>1, <3>2, ConcatProperties
          <6>3. (a \o b)[i] = b[i - Len(a)]  BY <6>1, <6>2
          <6>4. QED  BY <3>3, <6>1, <6>3
        <5>3. QED  BY <3>2, <4>2, <5>1, <5>2
      <4>3. QED  BY <4>1, <4>2
    <3>6. QED  BY <3>4, <3>5
  <2> HIDE DEF t
  <2>5. IsInjective(t)
    <3> SUFFICES ASSUME NEW i \in 1..(Len(s) - 1), NEW j \in 1..(Len(s) - 1), t[i] = t[j]
                 PROVE  i = j
      BY <2>4 DEF IsInjective
    <3>1. t[i] = s[IF i < n THEN i ELSE i + 1] /\ t[j] = s[IF j < n THEN j ELSE j + 1]
      BY <2>4
    <3>2. (IF i < n THEN i ELSE i + 1) = (IF j < n THEN j ELSE j + 1)
      <4>1. /\ (IF i < n THEN i ELSE i + 1) \in 1..Len(s)
            /\ (IF j < n THEN j ELSE j + 1) \in 1..Len(s)
        BY <1>1
      <4>2. QED  BY <1>1, <3>1, <4>1
    <3>3. QED  BY <3>2
  <2>6. ToSet(t) = S \ {k}
    <3>1. ASSUME NEW x \in ToSet(t) PROVE x \in S \ {k}
      <4>1. PICK i \in 1..(Len(s) - 1) : x = t[i]  BY <2>4 DEF ToSet
      <4>2. x = s[IF i < n THEN i ELSE i + 1]  BY <2>4, <4>1
      <4>3. (IF i < n THEN i ELSE i + 1) \in 1..Len(s) \ {n}  BY <1>1
      <4>4. QED  BY <1>1, <1>3, <4>2, <4>3
    <3>2. ASSUME NEW x \in S \ {k} PROVE x \in ToSet(t)
      <4>1. PICK i \in 1..Len(s) : x = s[i]  BY <1>1
      <4>2. i # n  BY <1>3, <4>1
      <4>3. CASE i < n
        <5>1. i \in 1..(Len(s) - 1) /\ t[i] = x  BY <1>1, <2>4, <4>1, <4>3
        <5>2. QED  BY <2>4, <5>1 DEF ToSet
      <4>4. CASE i > n
        <5>1. i - 1 \in 1..(Len(s) - 1) /\ t[i - 1] = x  BY <1>1, <2>4, <4>1, <4>4
        <5>2. QED  BY <2>4, <5>1 DEF ToSet
      <4>5. QED  BY <4>2, <4>3, <4>4
    <3>3. QED  BY <3>1, <3>2
  <2>7. QED  BY <2>3, <2>4, <2>5, <2>6 DEF Lists
<1>4. QED  BY <1>2, <1>3

\* A key moved, or put, to the front.
LEMMA Fronted ==
  ASSUME NEW s, NEW S, Lists(s, S), NEW k \in Key
  PROVE  Lists(<<k>> \o RemoveFirst(s, k), S \cup {k})
<1> DEFINE t == RemoveFirst(s, k)
           u == <<k>> \o t
<1>1. t \in Seq(Key) /\ IsInjective(t) /\ ToSet(t) = S \ {k}  BY Removal DEF Lists
<1> HIDE DEF t
<1>2. /\ u \in Seq(Key) /\ Len(u) = Len(t) + 1 /\ u[1] = k /\ Len(t) \in Nat
      /\ \A i \in 1..Len(t) : u[i + 1] = t[i]
  BY <1>1
<1> HIDE DEF u
<1>3. \A i \in 2..Len(u) : i - 1 \in 1..Len(t) /\ u[i] = t[i - 1]  BY <1>2
<1>4. \A i \in 1..Len(t) : t[i] # k
  <2>1. DOMAIN t = 1..Len(t)  BY <1>1
  <2>2. \A i \in 1..Len(t) : t[i] \in ToSet(t)  BY <2>1 DEF ToSet
  <2>3. QED  BY <1>1, <2>2
<1>5. IsInjective(u)
  <2>1. \A i, j \in 1..Len(t) : t[i] = t[j] => i = j  BY <1>1 DEF IsInjective
  <2> SUFFICES ASSUME NEW i \in 1..Len(u), NEW j \in 1..Len(u), u[i] = u[j] PROVE i = j
    BY <1>2 DEF IsInjective
  <2>2. CASE i = 1 \/ j = 1  BY <2>2, <1>2, <1>3, <1>4
  <2>3. CASE i # 1 /\ j # 1
    <3>1. i - 1 \in 1..Len(t) /\ j - 1 \in 1..Len(t) /\ t[i - 1] = t[j - 1]
      BY <1>2, <1>3, <2>3
    <3>2. i - 1 = j - 1  BY <2>1, <3>1
    <3>3. QED  BY <3>2
  <2>4. QED  BY <2>2, <2>3
<1>6. ToSet(u) = S \cup {k}
  <2>1. ASSUME NEW x \in ToSet(u) PROVE x \in S \cup {k}
    <3>1. PICK i \in 1..Len(u) : x = u[i]  BY <1>2 DEF ToSet
    <3>2. CASE i = 1  BY <1>2, <3>1, <3>2
    <3>3. CASE i # 1
      <4>1. i - 1 \in 1..Len(t) /\ x = t[i - 1]  BY <1>2, <1>3, <3>1, <3>3
      <4>2. QED  BY <1>1, <4>1 DEF ToSet
    <3>4. QED  BY <3>2, <3>3
  <2>2. k \in ToSet(u)  BY <1>2 DEF ToSet
  <2>3. ASSUME NEW x \in S \ {k} PROVE x \in ToSet(u)
    <3>1. PICK i \in 1..Len(t) : x = t[i]  BY <1>1 DEF ToSet
    <3>2. i + 1 \in 1..Len(u) /\ x = u[i + 1]  BY <1>2, <3>1
    <3>3. QED  BY <1>2, <3>2 DEF ToSet
  <2>4. QED  BY <2>1, <2>2, <2>3
<1>7. QED  BY <1>2, <1>5, <1>6 DEF Lists, t, u

-----------------------------------------------------------------------------
(* What the cleanup retains.                                               *)

\* The keys a sequence has before k.
Before(s, k) == {s[i] : i \in {i \in DOMAIN s : \E j \in DOMAIN s : i < j /\ s[j] = k}}

\* A set that holds P, and each other member k that fits beside what it holds
\* of those before k.
Chosen(s, E, P, Fits, ks) ==
  \A k \in E : k \in ks <=> k \in P \/ <<ks \cap (P \cup Before(s, k)), k>> \in Fits

\* Going through a list once, deciding each member by what was chosen of those
\* before it, chooses a set: the one the code's loop leaves.
LEMMA GreedyChoice ==
  ASSUME NEW s, NEW T, Lists(s, T), NEW E, E \subseteq T, NEW P, NEW Fits
  PROVE  \E ks \in SUBSET E : Chosen(s, E, P, Fits, ks)
<1> DEFINE Good(ks, k) == k \in P \/ <<ks \cap (P \cup Before(s, k)), k>> \in Fits
           Upto(n) == {s[i] : i \in {i \in DOMAIN s : i <= n}}
           Right(n, ks) == /\ E \cap P \subseteq ks
                           /\ ks \subseteq P \cup Upto(n)
                           /\ \A k \in E \cap Upto(n) : k \in ks <=> Good(ks, k)
           All == {n \in Nat : n <= Len(s) => \E ks \in SUBSET E : Right(n, ks)}
<1>1. /\ s \in Seq(Key) /\ Len(s) \in Nat /\ DOMAIN s = 1..Len(s)
      /\ \A i, j \in 1..Len(s) : s[i] = s[j] => i = j
      /\ T = {s[i] : i \in 1..Len(s)}
  BY DEF Lists, IsInjective, ToSet
<1>2. 0 \in All
  <2>1. Upto(0) = {}  BY <1>1
  <2>2. Right(0, E \cap P)  BY <2>1
  <2>3. QED  BY <2>2
<1>3. ASSUME NEW n \in Nat, n \in All PROVE n + 1 \in All
  <2> HIDE DEF Right, Upto, Good
  <2> SUFFICES ASSUME n + 1 <= Len(s) PROVE \E ks \in SUBSET E : Right(n + 1, ks)
    OBVIOUS
  <2>1. PICK ks \in SUBSET E : Right(n, ks)
    <3>1. n <= Len(s)  BY <1>1
    <3>2. QED  BY <1>3, <3>1
  <2> USE DEF Right, Upto, Good
  <2> DEFINE k0 == s[n + 1]
             new == IF k0 \in E /\ Good(ks, k0) THEN ks \cup {k0} ELSE ks
  <2>2. n + 1 \in 1..Len(s)  BY <1>1
  <2>3. Upto(n + 1) = Upto(n) \cup {k0}
    <3>1. \A i \in 1..Len(s) : i <= n + 1 <=> i <= n \/ i = n + 1  OBVIOUS
    <3>2. QED  BY <1>1, <2>2, <3>1
  <2>4. k0 \notin Upto(n)  BY <1>1, <2>2
  <2>5. \A i \in 1..Len(s) : Before(s, s[i]) = {s[j] : j \in {j \in 1..Len(s) : j < i}}
    BY <1>1 DEF Before
  <2>6. \A k \in Upto(n) : k0 \notin Before(s, k)
    <3> SUFFICES ASSUME NEW i \in 1..Len(s), i <= n, k0 \in Before(s, s[i]) PROVE FALSE
      BY <1>1
    <3>1. PICK j \in 1..Len(s) : j < i /\ k0 = s[j]  BY <2>5
    <3>2. j = n + 1  BY <1>1, <2>2, <3>1
    <3>3. QED  BY <3>1, <3>2
  <2>7. k0 \notin Before(s, k0)
    <3> SUFFICES ASSUME k0 \in Before(s, k0) PROVE FALSE  OBVIOUS
    <3>1. Before(s, k0) = {s[j] : j \in {j \in 1..Len(s) : j < n + 1}}  BY <2>2, <2>5
    <3> HIDE DEF k0
    <3>2. PICK j \in 1..Len(s) : j < n + 1 /\ k0 = s[j]  BY <3>1
    <3>3. j = n + 1  BY <1>1, <2>2, <3>2 DEF k0
    <3>4. QED  BY <3>2, <3>3
  <2>8. new \in SUBSET E /\ ks \subseteq new /\ new \ {k0} = ks \ {k0}  OBVIOUS
  <2>9. k0 \in P => new = ks  BY <2>1
  <2>10. ASSUME NEW k \in E \cap Upto(n + 1) PROVE Good(new, k) <=> Good(ks, k)
    <3>1. k0 \notin Before(s, k)  BY <2>3, <2>6, <2>7
    <3>2. CASE k0 \in P  BY <2>9, <3>2
    <3>3. CASE k0 \notin P
      <4>1. new \cap (P \cup Before(s, k)) = ks \cap (P \cup Before(s, k))
        BY <2>8, <3>1, <3>3
      <4>2. QED  BY <4>1
    <3>4. QED  BY <3>2, <3>3
  <2>11. k0 \in E => (k0 \in new <=> Good(ks, k0))
    <3>1. CASE k0 \in P  BY <2>1, <3>1
    <3>2. CASE k0 \notin P
      <4>1. k0 \notin ks  BY <2>1, <2>4, <3>2
      <4>2. QED  BY <4>1
    <3>3. QED  BY <3>1, <3>2
  <2> HIDE DEF new, k0, Good
  <2>12. Right(n + 1, new)
    <3>1. E \cap P \subseteq new /\ new \subseteq P \cup Upto(n + 1)
      <4>1. ks \subseteq P \cup Upto(n) /\ E \cap P \subseteq ks  BY <2>1
      <4> HIDE DEF Upto
      <4>2. QED  BY <4>1, <2>3, <2>8
    <3>2. ASSUME NEW k \in E \cap Upto(n + 1) PROVE k \in new <=> Good(new, k)
      <4>1. \A l \in E \cap Upto(n) : l \in ks <=> Good(ks, l)  BY <2>1
      <4> HIDE DEF Upto
      <4>2. CASE k = k0  BY <4>2, <2>10, <2>11
      <4>3. CASE k # k0
        <5>1. k \in E \cap Upto(n) /\ (k \in new <=> k \in ks)  BY <2>3, <2>8, <4>3
        <5>2. QED  BY <2>10, <4>1, <5>1
      <4>4. QED  BY <4>2, <4>3
    <3>3. QED  BY <3>1, <3>2
  <2>13. QED  BY <2>8, <2>12
<1> HIDE DEF All
<1>4. Nat \subseteq All  BY <1>2, <1>3, SetInduction
<1>5. PICK ks \in SUBSET E : Right(Len(s), ks)
  <2>1. Len(s) \in All /\ Len(s) <= Len(s)  BY <1>1, <1>4
  <2> HIDE DEF Right
  <2>2. QED  BY <2>1 DEF All
<1>6. E \subseteq Upto(Len(s))  BY <1>1
<1>7. \A k \in E : k \in ks <=> Good(ks, k)
  <2>1. \A k \in E \cap Upto(Len(s)) : k \in ks <=> Good(ks, k)  BY <1>5
  <2> HIDE DEF Upto, Good
  <2>2. QED  BY <1>6, <2>1
<1>8. QED  BY <1>7 DEF Chosen

\* The keys with a receipt or a marker: those the access order lists.
Present == {k \in Key : k \in poison \/ receipt[k] # None}

\* An entry has a receipt or a marker.
LEMMA EntriesPresent == Entries \subseteq Present
BY CacheAssumption DEF Entries, Present, Poisoned

\* The set the cleanup retains is the one its definition describes.
LEMMA KeptRight ==
  ASSUME Lists(used, Present), NEW r
  PROVE  /\ Kept(r) \in SUBSET Entries
         /\ \A k \in Entries :
               k \in Kept(r) <=> \/ k \in Protected(r)
                                 \/ Room(Kept(r) \cap (Protected(r) \cup Newer(k)), k)
<1> DEFINE Right(ks) == \A k \in Entries :
              k \in ks <=> k \in Protected(r) \/ Room(ks \cap (Protected(r) \cup Newer(k)), k)
<1>1. \E ks \in SUBSET Entries : Right(ks)
  <2>1. PICK s : s = used  OBVIOUS
  <2>2. PICK T : T = Present  OBVIOUS
  <2>3. PICK E : E = Entries  OBVIOUS
  <2>4. PICK P : P = Protected(r)  OBVIOUS
  <2>5. PICK Fits : Fits = {p \in (SUBSET Entries) \X Entries : Room(p[1], p[2])}  OBVIOUS
  <2>6. \E ks \in SUBSET E : Chosen(s, E, P, Fits, ks)
    <3>1. Lists(s, T) /\ E \subseteq T  BY <2>1, <2>2, <2>3, EntriesPresent
    <3>2. QED  BY <3>1, GreedyChoice
  <2>7. PICK ks \in SUBSET E : \A k \in E :
            k \in ks <=> k \in P \/ <<ks \cap (P \cup Before(s, k)), k>> \in Fits
    BY <2>6 DEF Chosen
  <2>8. ASSUME NEW k \in Entries
        PROVE  <<ks \cap (P \cup Before(s, k)), k>> \in Fits
                 <=> Room(ks \cap (Protected(r) \cup Newer(k)), k)
    <3>1. Before(s, k) = Newer(k)  BY <2>1 DEF Before, Newer
    <3>2. <<ks \cap (P \cup Before(s, k)), k>> \in (SUBSET Entries) \X Entries  BY <2>3, <2>7
    <3>3. QED  BY <2>4, <2>5, <3>1, <3>2
  <2>9. QED  BY <2>3, <2>4, <2>7, <2>8
<1>2. Kept(r) = CHOOSE ks \in SUBSET Entries : Right(ks)  BY DEF Kept
<1> HIDE DEF Right
<1>3. Kept(r) \in SUBSET Entries /\ Right(Kept(r))  BY <1>1, <1>2
<1>4. QED  BY <1>3 DEF Right

\* A set of keys that is listed is finite, and so are its objects.
LEMMA ListedFinite ==
  ASSUME Lists(used, Present), NEW ks, ks \subseteq Present
  PROVE  /\ IsFiniteSet(ks)
         /\ IsFiniteSet(Objects(ks))
         /\ Cardinality(Objects(ks)) <= Cardinality(ks)
<1>1. PICK s : s = used  OBVIOUS
<1>2. PICK T : T = Present  OBVIOUS
<1>3. PICK f : f = receipt  OBVIOUS
<1>4. s \in Seq(Key) /\ DOMAIN s = 1..Len(s) /\ Len(s) \in Nat /\ T = {s[i] : i \in 1..Len(s)}
  BY <1>1, <1>2 DEF Lists, ToSet
<1>5. IsFiniteSet(T)
  <2>1. IsFiniteSet(1..Len(s))  BY <1>4, FS_Interval
  <2>2. QED  BY <1>4, <2>1, Image
<1>6. IsFiniteSet(ks)  BY <1>2, <1>5, FS_Subset
<1>7. IsFiniteSet({f[k] : k \in ks}) /\ Cardinality({f[k] : k \in ks}) <= Cardinality(ks)
  BY <1>6, Image
<1> DEFINE os == {f[k] : k \in ks} \cap Obj
<1>8. /\ IsFiniteSet(os) /\ Cardinality(os) <= Cardinality({f[k] : k \in ks})
  BY <1>7, FS_Subset
<1>9. Objects(ks) = os  BY <1>3 DEF Objects
<1> HIDE DEF os
<1>10. Cardinality(os) <= Cardinality(ks)
  <2>1. /\ Cardinality(os) \in Nat /\ Cardinality({f[k] : k \in ks}) \in Nat
        /\ Cardinality(ks) \in Nat
    BY <1>6, <1>7, <1>8, FS_CardinalityType
  <2>2. QED  BY <2>1, <1>7, <1>8
<1>11. QED  BY <1>6, <1>8, <1>9, <1>10

\* The protected keys are at most one.
LEMMA OneProtected == ASSUME NEW r PROVE \E k : Protected(r) \subseteq {k}
BY DEF Protected

\* What the cleanup retains is within both limits.
LEMMA KeptBounds ==
  ASSUME Lists(used, Present), NEW r
  PROVE  /\ Cardinality(Kept(r)) <= MaxEntries
         /\ Cardinality(Objects(Kept(r))) <= MaxBytes
<1>1. PICK K : K = Kept(r)  OBVIOUS
<1>2. PICK P : P = Protected(r)  OBVIOUS
<1>3. PICK s : s = used  OBVIOUS
<1>4. PICK T : T = Present  OBVIOUS
<1>5. /\ K \in SUBSET Entries /\ K \subseteq T
      /\ \A k \in K : k \in P \/ Room(K \cap (P \cup Newer(k)), k)
  BY <1>1, <1>2, <1>4, KeptRight, EntriesPresent
<1>6. /\ s \in Seq(Key) /\ DOMAIN s = 1..Len(s) /\ Len(s) \in Nat
      /\ T = {s[i] : i \in 1..Len(s)}
      /\ \A i, j \in 1..Len(s) : s[i] = s[j] => i = j
  BY <1>3, <1>4 DEF Lists, ToSet, IsInjective
<1>7. IsFiniteSet(K) /\ Cardinality(K) \in Nat  BY <1>4, <1>5, ListedFinite, FS_CardinalityType
<1>8. /\ IsFiniteSet(Objects(K)) /\ Cardinality(Objects(K)) \in Nat
      /\ Cardinality(Objects(K)) <= Cardinality(K)
  BY <1>4, <1>5, ListedFinite, FS_CardinalityType
<1>9. CASE K \subseteq P
  <2>1. PICK k : P \subseteq {k}  BY <1>2, OneProtected
  <2>2. IsFiniteSet({k}) /\ Cardinality({k}) = 1  BY FS_Singleton
  <2>3. Cardinality(K) <= 1
    <3>1. K \in SUBSET {k}  BY <1>9, <2>1
    <3>2. QED  BY <2>2, <3>1, FS_Subset
  <2>4. Cardinality(Objects(K)) <= 1  BY <1>7, <1>8, <2>3
  <2>5. QED  BY <1>1, <1>7, <1>8, <2>3, <2>4, CacheAssumption
<1>10. CASE ~(K \subseteq P)
  <2> DEFINE Is == {i \in 1..Len(s) : s[i] \in K \ P}
  <2>1. Is # {} /\ Is \subseteq 1..Len(s)  BY <1>5, <1>6, <1>10
  <2> HIDE DEF Is
  <2>2. PICK i \in Is : \A j \in Is : j <= i  BY <1>6, <2>1, Largest
  <2>3. PICK k : k = s[i]  OBVIOUS
  <2>4. k \in K \ P /\ i \in 1..Len(s)  BY <2>3 DEF Is
  <2>5. PICK ks : ks = K \cap (P \cup Newer(k))  OBVIOUS
  <2>6. Room(ks, k)  BY <1>5, <2>4, <2>5
  <2>7. K = ks \cup {k}
    <3> SUFFICES ASSUME NEW l \in K, l \notin P, l # k PROVE l \in Newer(k)
      BY <2>4, <2>5
    <3>1. PICK j \in 1..Len(s) : l = s[j]  BY <1>5, <1>6
    <3>2. j \in Is  BY <3>1 DEF Is
    <3>3. j < i
      <4>1. j # i  BY <2>3, <3>1
      <4>2. QED  BY <2>2, <2>4, <3>2, <4>1
    <3>4. QED  BY <1>3, <1>6, <2>3, <2>4, <3>1, <3>3 DEF Newer
  <2>8. IsFiniteSet(ks)
    <3>1. ks \in SUBSET K  BY <2>5
    <3>2. QED  BY <1>7, <3>1, FS_Subset
  <2>9. Cardinality(K) <= Cardinality(ks) + 1
    <3>1. Cardinality(ks) \in Nat  BY <2>8, FS_CardinalityType
    <3>2. Cardinality(ks \cup {k}) = IF k \in ks THEN Cardinality(ks) ELSE Cardinality(ks) + 1
      BY <2>8, FS_AddElement
    <3>3. QED  BY <2>7, <3>1, <3>2
  <2>10. Cardinality(ks) < MaxEntries /\ Cardinality(Objects(K)) <= MaxBytes
    BY <2>6, <2>7 DEF Room
  <2>11. Cardinality(ks) \in Nat  BY <2>8, FS_CardinalityType
  <2>12. QED  BY <1>1, <1>7, <2>9, <2>10, <2>11, CacheAssumption
<1>11. QED  BY <1>9, <1>10

\* A poisoned key is evicted only when the entries are too many: no object of
\* its own makes room.
LEMMA PoisonTakesNoRoom ==
  ASSUME Lists(used, Present), NEW r, NEW k \in Evicted(r), receipt[k] \notin Obj
  PROVE  Cardinality(Entries) > MaxEntries
<1>1. PICK K : K = Kept(r)  OBVIOUS
<1>2. PICK ks : ks = K \cap (Protected(r) \cup Newer(k))  OBVIOUS
<1>3. PICK E : E = Entries  OBVIOUS
<1>4. k \in E \ K /\ K \subseteq E /\ ~Room(ks, k)
  BY <1>1, <1>2, <1>3, KeptRight DEF Evicted
<1>5. IsFiniteSet(E) /\ Cardinality(E) \in Nat
  BY <1>3, EntriesPresent, ListedFinite, FS_CardinalityType
<1>6. Objects(ks \cup {k}) \subseteq Objects(K)  BY <1>2 DEF Objects
<1>7. Cardinality(Objects(ks \cup {k})) <= MaxBytes
  <2>1. PICK A : A = Objects(K)  OBVIOUS
  <2>2. PICK B : B = Objects(ks \cup {k})  OBVIOUS
  <2>3. K \subseteq Present  BY <1>3, <1>4, EntriesPresent
  <2>4. IsFiniteSet(A) /\ Cardinality(A) <= MaxBytes  BY <1>1, <2>1, <2>3, ListedFinite, KeptBounds
  <2>5. B \in SUBSET A  BY <1>6, <2>1, <2>2
  <2>6. IsFiniteSet(B) /\ Cardinality(B) <= Cardinality(A)  BY <2>4, <2>5, FS_Subset
  <2>7. Cardinality(A) \in Nat /\ Cardinality(B) \in Nat  BY <2>4, <2>6, FS_CardinalityType
  <2>8. QED  BY <2>2, <2>4, <2>6, <2>7, CacheAssumption
<1>8. ~(Cardinality(ks) < MaxEntries)  BY <1>4, <1>7 DEF Room
<1>9. ks \in SUBSET (E \ {k}) /\ IsFiniteSet(E \ {k}) /\ Cardinality(E \ {k}) = Cardinality(E) - 1
  BY <1>2, <1>4, <1>5, FS_RemoveElement
<1>10. Cardinality(ks) <= Cardinality(E \ {k}) /\ Cardinality(ks) \in Nat
  BY <1>9, FS_Subset, FS_CardinalityType
<1>11. QED  BY <1>3, <1>5, <1>8, <1>9, <1>10, CacheAssumption

\* A cleanup that has nothing left to do leaves the cache within its limits.
LEMMA CleanIsTidy ==
  ASSUME Lists(used, Present), NEW r, artifact \subseteq Obj,
         Evicted(r) = {}, Unreferenced = {}
  PROVE  /\ Cardinality(Entries) <= MaxEntries
         /\ Cardinality(artifact) <= MaxBytes
         /\ artifact \subseteq {receipt[k] : k \in Key}
<1>1. PICK E : E = Entries  OBVIOUS
<1>2. PICK A : A = artifact  OBVIOUS
<1>3. PICK B : B = Objects(Entries)  OBVIOUS
<1>4. E = Kept(r)  BY <1>1, KeptRight DEF Evicted
<1>5. A \subseteq {receipt[k] : k \in Key}  BY <1>2 DEF Unreferenced
<1>6. A \in SUBSET B  BY <1>2, <1>3, <1>5 DEF Objects, Entries
<1>7. IsFiniteSet(B) /\ Cardinality(B) <= MaxBytes
  BY <1>1, <1>3, <1>4, EntriesPresent, ListedFinite, KeptBounds
<1>8. Cardinality(A) <= Cardinality(B) /\ Cardinality(A) \in Nat /\ Cardinality(B) \in Nat
  BY <1>6, <1>7, FS_Subset, FS_CardinalityType
<1>9. Cardinality(A) <= MaxBytes  BY <1>7, <1>8, CacheAssumption
<1>10. QED  BY <1>1, <1>2, <1>4, <1>5, <1>9, KeptBounds

-----------------------------------------------------------------------------
(* The inductive invariant.                                                *)

\* Where the lock's holder is.
Inside == {"stat", "sweep", "hit", "miss", "compare", "rewrite", "link", "receipt", "won"}

Record == [pc : PCs, key : Key \cup {None}, obj : Obj \cup {None}, win : Obj \cup {None},
           next : {None, "hit", "miss", "compare", "link", "won"}]

\* What a runner does once the cleanup it may be in is over.
Ahead(r) == IF run[r].pc \in {"stat", "sweep"} THEN run[r].next ELSE run[r].pc

\* What a runner carries is there from the moment it is needed.
Own(r) ==
  /\ run[r].pc \notin {"idle", "refused", "vanished", "evicted"} => run[r].key \in Key
  /\ run[r].pc \in {"stat", "sweep"} => run[r].next \in {"hit", "miss", "compare", "link", "won"}
  /\ Ahead(r) \in {"publish", "compare", "link", "receipt"} => run[r].obj \in Obj
  /\ run[r].pc \in {"copy", "linked", "rewrite"} => run[r].win \in Obj

\* What the cleanup leaves behind.
Tidy == /\ Cardinality(Entries) <= MaxEntries
        /\ Cardinality(artifact) <= MaxBytes
        /\ artifact \subseteq {receipt[k] : k \in Key}
        /\ Malformed \cup Dominated = {}

\* What the holder of the lock has seen of its key is still so.
Held(r) ==
  /\ Ahead(r) \in {"hit", "compare", "won"} =>
        /\ receipt[run[r].key] = run[r].win
        /\ run[r].win \in artifact
        /\ run[r].key \notin poison
  /\ Ahead(r) \in {"link", "receipt"} =>
        receipt[run[r].key] = None /\ run[r].key \notin poison
  /\ run[r].pc = "receipt" => run[r].obj \in artifact
  /\ run[r].pc = "rewrite" => receipt[run[r].key] = Torn /\ run[r].key \notin poison
  /\ run[r].pc \in {"hit", "miss", "compare", "link", "won"} => Tidy

\* What the directory holds.
DiskOK == /\ receipt \in [Key -> Obj \cup {None, Torn, Mark}]
          /\ poison \subseteq Key
          /\ artifact \subseteq Obj
          /\ Lists(used, Present)
          /\ ReceiptBacked

CacheInv == /\ lock \in Runner \cup {None}
            /\ staged \subseteq Runner /\ listed \subseteq Runner
            /\ run \in [Runner -> Record]
            /\ DiskOK
            /\ \A r \in Runner : /\ run[r].pc \in Inside <=> lock = r
                                 /\ Own(r)
                                 /\ Held(r)

-----------------------------------------------------------------------------
(* How a runner moves.                                                     *)

\* The records g are those of f but for r's, which has these fields.
Put(f, g, r, p, k, o, w, n) ==
  /\ g \in [Runner -> Record]
  /\ \A q \in Runner \ {r} : g[q] = f[q]
  /\ g[r].pc = p /\ g[r].key = k /\ g[r].obj = o /\ g[r].win = w /\ g[r].next = n

Moved(r, p, k, o, w, n) == Put(run, run', r, p, k, o, w, n)

\* One field changed.
LEMMA PutPc ==
  ASSUME NEW f \in [Runner -> Record], NEW r \in Runner, NEW v \in PCs
  PROVE  Put(f, [f EXCEPT ![r].pc = v], r, v, f[r].key, f[r].obj, f[r].win, f[r].next)
BY DEF Put, Record

\* The key.
LEMMA PutKey ==
  ASSUME NEW f \in [Runner -> Record], NEW r \in Runner, NEW v \in Key
  PROVE  Put(f, [f EXCEPT ![r].key = v], r, f[r].pc, v, f[r].obj, f[r].win, f[r].next)
BY DEF Put, Record

\* The object.
LEMMA PutObj ==
  ASSUME NEW f \in [Runner -> Record], NEW r \in Runner, NEW v \in Obj
  PROVE  Put(f, [f EXCEPT ![r].obj = v], r, f[r].pc, f[r].key, v, f[r].win, f[r].next)
BY DEF Put, Record

\* The winner.
LEMMA PutWin ==
  ASSUME NEW f \in [Runner -> Record], NEW r \in Runner, NEW v \in Obj \cup {None}
  PROVE  Put(f, [f EXCEPT ![r].win = v], r, f[r].pc, f[r].key, f[r].obj, v, f[r].next)
BY DEF Put, Record

\* Where to go on after the cleanup.
LEMMA PutNext ==
  ASSUME NEW f \in [Runner -> Record], NEW r \in Runner, NEW v \in {"hit", "miss", "compare", "link", "won"}
  PROVE  Put(f, [f EXCEPT ![r].next = v], r, f[r].pc, f[r].key, f[r].obj, f[r].win, v)
BY DEF Put, Record

\* A runner goes on with the fields it has.
LEMMA GotoMoves ==
  ASSUME run \in [Runner -> Record], NEW r \in Runner, NEW p \in PCs, Goto(r, p)
  PROVE  Moved(r, p, run[r].key, run[r].obj, run[r].win, run[r].next)
<1>1. PICK f : f = run  OBVIOUS
<1>2. Put(f, [f EXCEPT ![r].pc = p], r, p, f[r].key, f[r].obj, f[r].win, f[r].next)
  BY <1>1, PutPc
<1>3. QED  BY <1>1, <1>2 DEF Goto, Moved

\* To a fresh record, or one that only says how the run ended.
LEMMA FreshMoves ==
  ASSUME run \in [Runner -> Record], NEW r \in Runner, NEW p \in PCs,
         run' = [run EXCEPT ![r] = [Idle EXCEPT !.pc = p]]
  PROVE  Moved(r, p, None, None, None, None)
<1>0. PICK m : m = [Idle EXCEPT !.pc = p]  OBVIOUS
<1>1. /\ m \in Record /\ m.pc = p /\ m.key = None /\ m.obj = None
      /\ m.win = None /\ m.next = None
  BY <1>0 DEF Idle, Record
<1>2. run' = [run EXCEPT ![r] = m]  BY <1>0
<1>3. QED  BY <1>1, <1>2 DEF Moved, Put

\* A runner that has left, or was killed, starts afresh.
LEMMA IdleMoves ==
  ASSUME run \in [Runner -> Record], NEW r \in Runner, run' = [run EXCEPT ![r] = Idle]
  PROVE  Moved(r, "idle", None, None, None, None)
<1>1. /\ Idle \in Record /\ Idle.pc = "idle" /\ Idle.key = None /\ Idle.obj = None
      /\ Idle.win = None /\ Idle.next = None
  BY DEF Idle, Record, PCs
<1>2. QED  BY <1>1 DEF Moved, Put

\* A runner enters the cleanup.
LEMMA CleanMoves ==
  ASSUME run \in [Runner -> Record], NEW r \in Runner, NEW w \in Obj \cup {None},
         NEW n \in {"hit", "miss", "compare", "link", "won"}, Clean(r, w, n)
  PROVE  Moved(r, "stat", run[r].key, run[r].obj, w, n)
<1>1. PICK f : f = run  OBVIOUS
<1>2. PICK g : g = [f EXCEPT ![r].pc = "stat"]  OBVIOUS
<1>3. PICK h : h = [g EXCEPT ![r].win = w]  OBVIOUS
<1>4. Put(f, g, r, "stat", f[r].key, f[r].obj, f[r].win, f[r].next)
  <2>1. "stat" \in PCs  BY DEF PCs
  <2>2. QED  BY <1>1, <1>2, <2>1, PutPc
<1>5. Put(g, h, r, g[r].pc, g[r].key, g[r].obj, w, g[r].next)
  <2>1. g \in [Runner -> Record]  BY <1>4 DEF Put
  <2>2. QED  BY <1>3, <2>1, PutWin
<1>6. Put(h, [h EXCEPT ![r].next = n], r, h[r].pc, h[r].key, h[r].obj, h[r].win, n)
  <2>1. h \in [Runner -> Record]  BY <1>5 DEF Put
  <2>2. QED  BY <2>1, PutNext
<1>7. run' = [h EXCEPT ![r].next = n]  BY <1>1, <1>2, <1>3 DEF Clean
<1>8. QED  BY <1>1, <1>4, <1>5, <1>6, <1>7 DEF Moved, Put

-----------------------------------------------------------------------------
(* What one step of one runner has to establish.                           *)

Step(r) ==
  /\ run' \in [Runner -> Record]
  /\ \A q \in Runner \ {r} : run'[q] = run[q]
  /\ run'[r].pc \in Inside => lock \in {r, None}
  /\ lock' = IF run'[r].pc \in Inside THEN r ELSE IF lock = r THEN None ELSE lock
  /\ lock = r \/ UNCHANGED disk
  /\ staged' \subseteq Runner /\ listed' \subseteq Runner
  /\ DiskOK'
  /\ Own(r)'
  /\ Held(r)'

\* What is read from receipts, markers and objects depends on nothing else.
LEMMA FilesSame ==
  ASSUME UNCHANGED <<receipt, poison, artifact>>
  PROVE  /\ Tidy <=> Tidy'
         /\ Present' = Present
         /\ ReceiptBacked <=> ReceiptBacked'
         /\ Entries' = Entries
BY DEF Tidy, Present, ReceiptBacked, Entries, Malformed, Dominated, Poisoned, Winner

\* An untouched directory is in order still.
LEMMA DiskSame ==
  ASSUME DiskOK, UNCHANGED disk
  PROVE  DiskOK'
BY FilesSame DEF DiskOK, disk

\* A runner that leaves, or stays outside.
LEMMA StepOutside ==
  ASSUME CacheInv, NEW r \in Runner, NEW p, NEW k, NEW o, NEW w, NEW n,
         Moved(r, p, k, o, w, n), p \notin Inside,
         lock' = IF lock = r THEN None ELSE lock,
         staged' \subseteq Runner, listed' \subseteq Runner,
         lock = r \/ UNCHANGED disk, DiskOK',
         p \notin {"idle", "refused", "vanished", "evicted"} => k \in Key,
         p = "publish" => o \in Obj,
         p \in {"copy", "linked"} => w \in Obj
  PROVE  Step(r)
<1>1. run'[r].pc = p /\ Ahead(r)' = p  BY DEF Moved, Put, Inside, Ahead
<1>2. Own(r)'  BY <1>1 DEF Own, Moved, Put, Inside
<1>3. Held(r)'  BY <1>1 DEF Held, Inside
<1>4. QED  BY <1>1, <1>2, <1>3 DEF Step, Moved, Put

\* A step of one runner keeps the invariant for all of them: the others do
\* not hold the lock, or their files are as they were.
LEMMA StepKeeps ==
  ASSUME CacheInv, NEW r \in Runner, Step(r)
  PROVE  CacheInv'
<1>1. run'[r].pc \in Inside <=> lock' = r
  BY CacheAssumption DEF Step, CacheInv
<1>2. ASSUME NEW q \in Runner \ {r} PROVE /\ run'[q].pc \in Inside <=> lock' = q
                                          /\ Own(q)'
                                          /\ Held(q)'
  <2>1. run'[q] = run[q]  BY DEF Step
  <2>2. run[q].pc \in Inside <=> lock = q  BY DEF CacheInv
  <2>3. run[q].pc \in Inside <=> lock' = q  BY <2>2, CacheAssumption DEF Step
  <2>4. Ahead(q)' = Ahead(q)  BY <2>1 DEF Ahead
  <2>5. Own(q)'
    <3>1. Own(q)  BY DEF CacheInv
    <3>2. QED  BY <2>1, <2>4, <3>1 DEF Own
  <2>6. Held(q)'
    <3>1. CASE lock = r
      <4>1. run'[q].pc \notin Inside  BY <2>1, <2>2, <3>1
      <4>2. Ahead(q)' = run'[q].pc  BY <4>1 DEF Ahead, Inside
      <4>3. QED  BY <4>1, <4>2 DEF Held, Inside
    <3>2. CASE UNCHANGED disk
      <4>1. Held(q)  BY DEF CacheInv
      <4>2. Tidy <=> Tidy'  BY <3>2, FilesSame DEF disk
      <4>3. receipt' = receipt /\ poison' = poison /\ artifact' = artifact  BY <3>2 DEF disk
      <4>4. QED  BY <2>1, <2>4, <4>1, <4>2, <4>3 DEF Held
    <3>3. QED  BY <3>1, <3>2 DEF Step
  <2>7. QED  BY <2>1, <2>3, <2>5, <2>6
<1>3. lock' \in Runner \cup {None}  BY DEF Step, CacheInv
<1>4. QED  BY <1>1, <1>2, <1>3 DEF Step, CacheInv

-----------------------------------------------------------------------------
(* The steps outside, and those that leave.                                *)

\* What CacheInv says of one runner.
LEMMA OfOne ==
  ASSUME CacheInv, NEW r \in Runner
  PROVE  /\ run \in [Runner -> Record] /\ run[r] \in Record /\ run[r].pc \in PCs
         /\ run[r].key \in Key \cup {None} /\ run[r].obj \in Obj \cup {None}
         /\ run[r].win \in Obj \cup {None}
         /\ run[r].next \in {None, "hit", "miss", "compare", "link", "won"}
         /\ run[r].pc \in Inside <=> lock = r
         /\ DiskOK /\ Own(r) /\ Held(r)
         /\ staged \subseteq Runner /\ listed \subseteq Runner /\ lock \in Runner \cup {None}
BY DEF CacheInv, Record

\* An exception ends the run.
LEMMA FailStep ==
  ASSUME CacheInv, NEW r \in Runner, NEW p \in {"refused", "vanished", "evicted"},
         Fail(r, p), UNCHANGED staged, lock = r \/ UNCHANGED disk, DiskOK'
  PROVE  Step(r)
<1>1. Moved(r, p, None, None, None, None)
  <2>1. run \in [Runner -> Record] /\ p \in PCs  BY OfOne DEF PCs
  <2>2. QED  BY <2>1, FreshMoves DEF Fail
<1>2. p \notin Inside  BY DEF Inside
<1>3. lock' = IF lock = r THEN None ELSE lock  BY DEF Fail
<1>4. staged' \subseteq Runner /\ listed' \subseteq Runner  BY OfOne DEF Fail
<1>5. p \notin {"publish", "copy", "linked"}  OBVIOUS
<1>6. QED  BY <1>1, <1>2, <1>3, <1>4, <1>5, StepOutside

\* A step of a runner that is outside the lock and stays there.
LEMMA StartStep ==
  ASSUME CacheInv, NEW r \in Runner, NEW k \in Key, Start(r, k)
  PROVE  Step(r)
<1>1. PICK f : f = run  OBVIOUS
<1>2. PICK g : g = [f EXCEPT ![r].pc = "lookup"]  OBVIOUS
<1>3. f \in [Runner -> Record]  BY <1>1, OfOne
<1>4. Put(f, g, r, "lookup", f[r].key, f[r].obj, f[r].win, f[r].next)
  <2>1. "lookup" \in PCs  BY DEF PCs
  <2>2. QED  BY <1>2, <1>3, <2>1, PutPc
<1>5. Put(g, [g EXCEPT ![r].key = k], r, g[r].pc, k, g[r].obj, g[r].win, g[r].next)
  <2>1. g \in [Runner -> Record]  BY <1>4 DEF Put
  <2>2. QED  BY <2>1, PutKey
<1>6. run' = [g EXCEPT ![r].key = k]  BY <1>1, <1>2 DEF Start
<1>7. Moved(r, "lookup", k, run[r].obj, run[r].win, run[r].next)
  BY <1>1, <1>4, <1>5, <1>6 DEF Moved, Put
<1>8. lock # r  BY OfOne DEF Start, At, Inside
<1>9. /\ "lookup" \notin Inside
      /\ lock' = IF lock = r THEN None ELSE lock
      /\ staged' \subseteq Runner /\ listed' \subseteq Runner /\ UNCHANGED disk
  BY <1>8, OfOne DEF Start, disk, Inside
<1>10. DiskOK'  BY <1>9, OfOne, DiskSame
<1>11. QED  BY <1>7, <1>9, <1>10, StepOutside

\* A runner that goes on, without the lock, with the fields it has.
LEMMA GotoOutside ==
  ASSUME CacheInv, NEW r \in Runner, NEW p \in {"build", "publish", "copy", "linked"},
         Goto(r, p), run[r].key \in Key, p = "publish" => run[r].obj \in Obj,
         p \in {"copy", "linked"} => run[r].win \in Obj,
         lock' = IF lock = r THEN None ELSE lock,
         UNCHANGED <<staged, listed>>, lock = r \/ UNCHANGED disk, DiskOK'
  PROVE  Step(r)
<1>1. PICK k \in Key : k = run[r].key  OBVIOUS
<1>2. PICK o : o = run[r].obj  OBVIOUS
<1>3. PICK w : w = run[r].win  OBVIOUS
<1>4. PICK n : n = run[r].next  OBVIOUS
<1>5. Moved(r, p, k, o, w, n)
  <2>1. run \in [Runner -> Record] /\ p \in PCs  BY OfOne DEF PCs
  <2>2. QED  BY <1>1, <1>2, <1>3, <1>4, <2>1, GotoMoves
<1>6. p \notin Inside /\ staged' \subseteq Runner /\ listed' \subseteq Runner
  BY OfOne DEF Inside
<1>7. QED  BY <1>2, <1>3, <1>5, <1>6, StepOutside

\* A build ends with an object to publish.
LEMMA BuildStep ==
  ASSUME CacheInv, NEW r \in Runner, NEW o \in Obj, Build(r, o)
  PROVE  Step(r)
<1>1. PICK f : f = run  OBVIOUS
<1>2. PICK g : g = [f EXCEPT ![r].pc = "publish"]  OBVIOUS
<1>3. f \in [Runner -> Record]  BY <1>1, OfOne
<1>4. Put(f, g, r, "publish", f[r].key, f[r].obj, f[r].win, f[r].next)
  <2>1. "publish" \in PCs  BY DEF PCs
  <2>2. QED  BY <1>2, <1>3, <2>1, PutPc
<1>5. Put(g, [g EXCEPT ![r].obj = o], r, g[r].pc, g[r].key, o, g[r].win, g[r].next)
  <2>1. g \in [Runner -> Record]  BY <1>4 DEF Put
  <2>2. QED  BY <2>1, PutObj
<1>6. run' = [g EXCEPT ![r].obj = o]  BY <1>1, <1>2 DEF Build
<1>7. PICK k : k = run[r].key  OBVIOUS
<1>8. PICK w : w = run[r].win  OBVIOUS
<1>9. PICK n : n = run[r].next  OBVIOUS
<1>10. Moved(r, "publish", k, o, w, n)
  BY <1>1, <1>4, <1>5, <1>6, <1>7, <1>8, <1>9 DEF Moved, Put
<1>11. lock # r  BY OfOne DEF Build, At, Inside
<1>12. /\ "publish" \notin Inside
       /\ lock' = IF lock = r THEN None ELSE lock
       /\ staged' \subseteq Runner /\ listed' \subseteq Runner /\ UNCHANGED disk
       /\ k \in Key
  BY <1>7, <1>11, OfOne DEF Build, disk, Inside, Own, At
<1>13. DiskOK'  BY <1>12, OfOne, DiskSame
<1>14. QED  BY <1>10, <1>12, <1>13, StepOutside

\* A runner leaves, or is killed, wherever it is.
LEMMA LeaveStep ==
  ASSUME CacheInv, NEW r \in Runner, Leave(r) \/ Crash(r)
  PROVE  Step(r)
<1>1. Moved(r, "idle", None, None, None, None)
  <2>1. run \in [Runner -> Record] /\ run' = [run EXCEPT ![r] = Idle]
    BY OfOne DEF Leave, Crash
  <2>2. QED  BY <2>1, IdleMoves
<1>2. lock' = IF lock = r THEN None ELSE lock
  <2>1. CASE Leave(r)
    <3>1. lock # r  BY <2>1, OfOne DEF Leave, Inside
    <3>2. QED  BY <2>1, <3>1 DEF Leave
  <2>2. CASE Crash(r)  BY <2>2 DEF Crash
  <2>3. QED  BY <2>1, <2>2
<1>3. /\ "idle" \notin Inside
      /\ staged' \subseteq Runner /\ listed' \subseteq Runner /\ UNCHANGED disk
  BY OfOne DEF Leave, Crash, Inside, disk
<1>4. DiskOK'  BY <1>3, OfOne, DiskSame
<1>5. QED  BY <1>1, <1>2, <1>3, <1>4, StepOutside

\* The other steps that leave the disk alone and end outside.
LEMMA QuietStep ==
  ASSUME CacheInv, NEW r \in Runner,
         \/ Refuse(r) \/ GiveUp(r) \/ PoisonFails(r) \/ LinkFails(r) \/ CopyGone(r)
         \/ \E d \in Runner : StatVanished(r, d)
  PROVE  Step(r)
<1>1. UNCHANGED disk /\ UNCHANGED staged
  BY DEF Refuse, GiveUp, PoisonFails, LinkFails, CopyGone, StatVanished, disk
<1>2. DiskOK'  BY <1>1, OfOne, DiskSame
<1>3. PICK p \in {"refused", "vanished", "evicted"} : Fail(r, p)
  BY DEF Refuse, GiveUp, PoisonFails, LinkFails, CopyGone, StatVanished
<1>4. QED  BY <1>1, <1>2, <1>3, FailStep

\* A publisher copies its object without the lock.
LEMMA CopyStep ==
  ASSUME CacheInv, NEW r \in Runner, Copy(r)
  PROVE  Step(r)
<1>1. lock # r /\ run[r].key \in Key /\ run[r].win \in Obj
  BY OfOne DEF Copy, At, Own, Inside
<1>2. UNCHANGED disk  BY DEF Copy, disk
<1>3. DiskOK'  BY <1>2, OfOne, DiskSame
<1>4. QED  BY <1>1, <1>2, <1>3, GotoOutside DEF Copy

\* After a miss the lock is released and the build begins.
LEMMA MissStep ==
  ASSUME CacheInv, NEW r \in Runner, Miss(r)
  PROVE  Step(r)
<1>1. lock = r /\ run[r].key \in Key
  BY OfOne DEF Miss, At, Own, Inside
<1>2. UNCHANGED disk  BY DEF Miss, disk
<1>3. DiskOK'  BY <1>2, OfOne, DiskSame
<1>4. QED  BY <1>1, <1>2, <1>3, GotoOutside DEF Miss

-----------------------------------------------------------------------------
(* The steps of the lock's holder.                                         *)

\* A return with the object in hand.
LEMMA ReturnStep ==
  ASSUME CacheInv, NEW r \in Runner, Hit(r) \/ Share(r) \/ Won(r)
  PROVE  Step(r)
<1>1. /\ lock = r /\ run[r].key \in Key /\ run[r].win \in Obj
      /\ receipt[run[r].key] = run[r].win
  <2>1. run[r].pc \in {"hit", "compare", "won"}  BY DEF Hit, Share, Won, At
  <2>2. Ahead(r) \in {"hit", "compare", "won"}  BY <2>1 DEF Ahead
  <2>3. QED  BY <2>1, <2>2, OfOne DEF Inside, Own, Held, DiskOK
<1>2. PICK p \in {"copy", "linked"} : Return(r, p)  BY DEF Hit, Share, Won
<1>3. DiskOK'
  <2>1. PICK k \in Key : k = run[r].key  BY <1>1
  <2>2. PICK s : s = used  OBVIOUS
  <2>3. PICK S : S = Present  OBVIOUS
  <2>4. Lists(s, S)  BY <2>2, <2>3, OfOne DEF DiskOK
  <2>5. Lists(<<k>> \o RemoveFirst(s, k), S \cup {k})  BY <2>4, Fronted
  <2>6. k \in S  BY <1>1, <2>1, <2>3, CacheAssumption DEF Present
  <2>7. UNCHANGED <<receipt, poison, artifact>>  BY <1>2 DEF Return
  <2>8. Present' = S  BY <2>3, <2>7, FilesSame
  <2>9. used' = <<k>> \o RemoveFirst(s, k)  BY <1>2, <2>1, <2>2 DEF Return, Touched
  <2>10. S \cup {k} = S  BY <2>6
  <2>11. Lists(used, Present)'
    <3>1. Lists(used', S)  BY <2>5, <2>9, <2>10
    <3>2. QED  BY <2>8, <3>1 DEF Lists
  <2>12. ReceiptBacked'  BY <2>7, OfOne, FilesSame DEF DiskOK
  <2>13. QED  BY <2>7, <2>11, <2>12, OfOne DEF DiskOK
<1>4. Goto(r, p) /\ lock' = None /\ UNCHANGED <<staged, listed>>  BY <1>2 DEF Return
<1>5. QED  BY <1>1, <1>3, <1>4, GotoOutside

\* The lock is taken, or kept, with the disk as it was.
LEMMA LookupStep ==
  ASSUME CacheInv, NEW r \in Runner, Lookup(r)
  PROVE  Step(r)
<1>1. PICK k \in Key : k = run[r].key  BY OfOne DEF Lookup, At, Own
<1>2. PICK w : w = Winner(k)  OBVIOUS
<1>3. PICK n \in {"hit", "miss"} : n = IF Winner(k) = None THEN "miss" ELSE "hit"  OBVIOUS
<1>4. w \in Obj \cup {None}  BY <1>2, OfOne DEF Winner, DiskOK
<1>5. lock = None /\ lock' = r /\ Usable(k) /\ Clean(r, w, n) /\ UNCHANGED <<staged, disk>>
  BY <1>1, <1>2, <1>3 DEF Lookup, Acquire
<1>6. PICK o : o = run[r].obj  OBVIOUS
<1>7. Moved(r, "stat", k, o, w, n)
  <2>1. run \in [Runner -> Record] /\ n \in {"hit", "miss", "compare", "link", "won"}  BY OfOne
  <2>2. QED  BY <1>1, <1>4, <1>5, <1>6, <2>1, CleanMoves
<1>8. DiskOK'  BY <1>5, OfOne, DiskSame
<1>9. Ahead(r)' = n /\ run'[r].pc = "stat" /\ run'[r].key = k /\ run'[r].win = w /\ run'[r].next = n
  BY <1>7 DEF Moved, Put, Ahead
<1>10. n = "hit" => receipt[k] = w /\ w \in artifact /\ k \notin poison
  BY <1>2, <1>3, <1>5 DEF Winner, Usable, Poisoned
<1>11. Own(r)'  BY <1>1, <1>9 DEF Own
<1>12. Held(r)'
  <2>1. receipt' = receipt /\ poison' = poison /\ artifact' = artifact  BY <1>5 DEF disk
  <2>2. QED  BY <1>9, <1>10, <2>1 DEF Held
<1>13. staged' \subseteq Runner /\ listed' \subseteq Runner  BY <1>5, OfOne DEF Clean
<1>14. QED  BY <1>5, <1>7, <1>8, <1>9, <1>11, <1>12, <1>13 DEF Step, Moved, Put, Inside

\* A publish takes the lock, and will compare or be the first.
LEMMA PublishStep ==
  ASSUME CacheInv, NEW r \in Runner, Publish(r)
  PROVE  Step(r)
<1>1. PICK k \in Key : k = run[r].key  BY OfOne DEF Publish, At, Own
<1>2. PICK w : w = Winner(k)  OBVIOUS
<1>3. PICK n \in {"link", "compare"} : n = IF receipt[k] = None THEN "link" ELSE "compare"  OBVIOUS
<1>4. w \in Obj \cup {None}  BY <1>2, OfOne DEF Winner, DiskOK
<1>5. lock = None /\ lock' = r /\ Usable(k) /\ Clean(r, w, n) /\ UNCHANGED <<staged, disk>>
  BY <1>1, <1>2, <1>3 DEF Publish, Acquire
<1>6. PICK o : o = run[r].obj  OBVIOUS
<1>7. Moved(r, "stat", k, o, w, n)
  <2>1. run \in [Runner -> Record] /\ n \in {"hit", "miss", "compare", "link", "won"}  BY OfOne
  <2>2. QED  BY <1>1, <1>4, <1>5, <1>6, <2>1, CleanMoves
<1>8. DiskOK'  BY <1>5, OfOne, DiskSame
<1>9. /\ Ahead(r)' = n /\ run'[r].pc = "stat" /\ run'[r].key = k /\ run'[r].obj = o
      /\ run'[r].win = w /\ run'[r].next = n
  BY <1>7 DEF Moved, Put, Ahead
<1>10. n = "compare" => receipt[k] = w /\ w \in artifact
  <2>1. receipt[k] # None => Winner(k) # None  BY <1>5 DEF Usable
  <2>2. QED  BY <1>2, <1>3, <2>1 DEF Winner
<1>11. (n = "link" => receipt[k] = None) /\ k \notin poison
  BY <1>3, <1>5 DEF Usable, Poisoned
<1>12. o \in Obj  BY <1>6, OfOne DEF Publish, At, Own, Ahead
<1>13. Own(r)'  BY <1>1, <1>9, <1>12 DEF Own
<1>14. Held(r)'
  <2>1. receipt' = receipt /\ poison' = poison /\ artifact' = artifact  BY <1>5 DEF disk
  <2>2. QED  BY <1>9, <1>10, <1>11, <2>1 DEF Held
<1>15. staged' \subseteq Runner /\ listed' \subseteq Runner  BY <1>5, OfOne DEF Clean
<1>16. QED  BY <1>5, <1>7, <1>8, <1>9, <1>13, <1>14, <1>15 DEF Step, Moved, Put, Inside

\* The holder looks at a staging directory, or has looked at all of them.
LEMMA StatStep ==
  ASSUME CacheInv, NEW r \in Runner, StatDone(r) \/ \E d \in Runner : StatStaging(r, d)
  PROVE  Step(r)
<1>1. lock = r /\ lock' = lock /\ UNCHANGED <<staged, disk>> /\ listed' \subseteq listed
  BY OfOne DEF StatDone, StatStaging, At, Inside
<1>2. DiskOK'  BY <1>1, OfOne, DiskSame
<1>3. PICK p \in {"stat", "sweep"} : Moved(r, p, run[r].key, run[r].obj, run[r].win, run[r].next)
  <2>1. CASE StatDone(r)
    <3>1. run \in [Runner -> Record] /\ "sweep" \in PCs  BY OfOne DEF PCs
    <3>2. QED  BY <2>1, <3>1, GotoMoves DEF StatDone
  <2>2. CASE UNCHANGED run /\ run[r].pc = "stat"
    BY <2>2, OfOne DEF Moved, Put
  <2>3. QED  BY <2>1, <2>2 DEF StatStaging, At
<1>4. run[r].pc = "stat"  BY DEF StatDone, StatStaging, At
<1>5. /\ run'[r].pc = p /\ run'[r].key = run[r].key /\ run'[r].obj = run[r].obj
      /\ run'[r].win = run[r].win /\ run'[r].next = run[r].next
  BY <1>3 DEF Moved, Put
<1>6. Ahead(r)' = Ahead(r)  BY <1>4, <1>5 DEF Ahead
<1>7. Own(r)'  BY <1>4, <1>5, <1>6, OfOne DEF Own
<1>8. Held(r)'
  <2>1. receipt' = receipt /\ poison' = poison /\ artifact' = artifact  BY <1>1 DEF disk
  <2>2. QED  BY <1>5, <1>6, <2>1, OfOne DEF Held
<1>9. staged' \subseteq Runner /\ listed' \subseteq Runner  BY <1>1, OfOne
<1>10. QED  BY <1>1, <1>2, <1>3, <1>5, <1>7, <1>8, <1>9 DEF Step, Moved, Put, Inside

\* The cleanup is over: the directory is tidy, and the runner goes on.
LEMMA CleanDoneStep ==
  ASSUME CacheInv, NEW r \in Runner, CleanDone(r)
  PROVE  Step(r)
<1>1. lock = r /\ lock' = lock /\ UNCHANGED <<staged, listed, disk>>
  BY OfOne DEF CleanDone, At, Inside
<1>2. DiskOK'  BY <1>1, OfOne, DiskSame
<1>3. PICK n : n = run[r].next  OBVIOUS
<1>4. n \in {"hit", "miss", "compare", "link", "won"}
  BY <1>3, OfOne DEF CleanDone, At, Own
<1>5. Moved(r, n, run[r].key, run[r].obj, run[r].win, run[r].next)
  <2>1. run \in [Runner -> Record] /\ n \in PCs  BY <1>4, OfOne DEF PCs
  <2>2. QED  BY <1>3, <2>1, GotoMoves DEF CleanDone
<1>6. /\ run'[r].pc = n /\ run'[r].key = run[r].key /\ run'[r].obj = run[r].obj
      /\ run'[r].win = run[r].win /\ run'[r].next = run[r].next
  BY <1>5 DEF Moved, Put
<1>7. Ahead(r)' = n /\ Ahead(r) = n  BY <1>3, <1>4, <1>6 DEF Ahead, CleanDone, At
<1>8. Own(r)'  BY <1>4, <1>6, <1>7, OfOne DEF Own, CleanDone, At
<1>9. Tidy
  <2>1. Evicted(r) = {} /\ Unreferenced = {} /\ Malformed \cup Dominated = {}
    BY DEF CleanDone
  <2>2. Lists(used, Present) /\ artifact \subseteq Obj  BY OfOne DEF DiskOK
  <2>3. QED  BY <2>1, <2>2, CleanIsTidy DEF Tidy
<1>10. Held(r)'
  <2>1. receipt' = receipt /\ poison' = poison /\ artifact' = artifact  BY <1>1 DEF disk
  <2>2. Tidy'  BY <1>9, <2>1, FilesSame
  <2>3. QED  BY <1>4, <1>6, <1>7, <2>1, <2>2, OfOne DEF Held
<1>11. QED
  BY <1>1, <1>2, <1>4, <1>5, <1>6, <1>8, <1>10, OfOne DEF Step, Moved, Put, Inside

\* A removal by the cleanup: what its runner has seen of its key stays.
LEMMA SweepStep ==
  ASSUME CacheInv, NEW r \in Runner, At(r, "sweep"),
         UNCHANGED <<lock, staged, listed, run>>, DiskOK', poison' \subseteq poison,
         receipt[run[r].key] = None => receipt'[run[r].key] = None,
         Ahead(r) \in {"hit", "compare", "won"} =>
            receipt'[run[r].key] = receipt[run[r].key] /\ run[r].win \in artifact'
  PROVE  Step(r)
<1>1. lock = r /\ "sweep" \in Inside  BY OfOne DEF At, Inside
<1>2. run' = run /\ Ahead(r)' = Ahead(r)  BY DEF Ahead
<1>3. Own(r)'  BY <1>2, OfOne DEF Own
<1>4. Held(r)'
  <2>1. Held(r) /\ run[r].pc = "sweep" /\ Ahead(r) # "receipt"
    BY OfOne DEF At, Own, Ahead
  <2>2. QED  BY <1>2, <2>1 DEF Held
<1>5. QED  BY <1>1, <1>2, <1>3, <1>4, OfOne DEF Step, At

\* What the holder's key has while it means to come back to it.
LEMMA Awaited ==
  ASSUME CacheInv, NEW r \in Runner, Ahead(r) \in {"hit", "compare", "won"}, At(r, "sweep")
  PROVE  /\ run[r].key \in Key /\ run[r].key \in Entries
         /\ receipt[run[r].key] = run[r].win /\ run[r].win \in artifact /\ run[r].win \in Obj
         /\ run[r].key \notin poison
         /\ run[r].key \in Protected(r)
<1>1. /\ run[r].key \in Key
      /\ receipt[run[r].key] = run[r].win /\ run[r].win \in artifact /\ run[r].win \in Obj
      /\ run[r].key \notin poison
  BY OfOne DEF Own, Held, At, DiskOK
<1>2. run[r].key \in Entries  BY <1>1 DEF Entries
<1>3. run[r].key \in Protected(r)  BY DEF Protected, Ahead, At
<1>4. QED  BY <1>1, <1>2, <1>3

\* A key loses its receipt, and its place in the order unless a marker stays.
LEMMA DropDisk ==
  ASSUME DiskOK, NEW k \in Key, receipt' = [receipt EXCEPT ![k] = None],
         UNCHANGED artifact,
         \/ k \in poison /\ UNCHANGED <<poison, used>>
         \/ poison' = poison \ {k} /\ used' = RemoveFirst(used, k)
  PROVE  DiskOK'
<1>1. /\ receipt' \in [Key -> Obj \cup {None, Torn, Mark}] /\ poison' \subseteq Key
      /\ artifact' \subseteq Obj /\ receipt'[k] = None
      /\ \A l \in Key \ {k} : receipt'[l] = receipt[l]
  BY DEF DiskOK
<1>2. ReceiptBacked'  BY <1>1, CacheAssumption DEF DiskOK, ReceiptBacked
<1>3. Lists(used, Present)'
  <2>1. PICK s : s = used  OBVIOUS
  <2>2. PICK S : S = Present  OBVIOUS
  <2>3. Lists(s, S)  BY <2>1, <2>2 DEF DiskOK
  <2>4. CASE k \in poison /\ UNCHANGED <<poison, used>>
    <3>1. Present' = S  BY <1>1, <2>2, <2>4 DEF Present
    <3>2. Lists(used', S)  BY <2>1, <2>3, <2>4
    <3>3. QED  BY <3>1, <3>2 DEF Lists
  <2>5. CASE poison' = poison \ {k} /\ used' = RemoveFirst(used, k)
    <3>1. Present' = S \ {k}  BY <1>1, <2>2, <2>5 DEF Present
    <3>2. Lists(RemoveFirst(s, k), S \ {k})  BY <2>3, Removal
    <3>3. Lists(used', S \ {k})  BY <2>1, <2>5, <3>2
    <3>4. QED  BY <3>1, <3>3 DEF Lists
  <2>6. QED  BY <2>4, <2>5
<1>4. QED  BY <1>1, <1>2, <1>3 DEF DiskOK

\* A receipt that fails is never the one its runner comes back to.
LEMMA SweepMalformedStep ==
  ASSUME CacheInv, NEW r \in Runner, NEW k \in Key, SweepMalformed(r, k)
  PROVE  Step(r)
<1>1. At(r, "sweep") /\ k \in Malformed /\ receipt' = [receipt EXCEPT ![k] = None]
  BY DEF SweepMalformed
<1>2. DiskOK'
  <2>1. UNCHANGED <<poison, artifact>>  BY DEF SweepMalformed
  <2>2. \/ k \in poison /\ UNCHANGED used
        \/ poison' = poison \ {k} /\ used' = RemoveFirst(used, k)
    BY <2>1 DEF SweepMalformed
  <2>3. QED  BY <1>1, <2>1, <2>2, OfOne, DropDisk
<1>3. receipt \in [Key -> Obj \cup {None, Torn, Mark}]  BY OfOne DEF DiskOK
<1>4. ASSUME Ahead(r) \in {"hit", "compare", "won"} PROVE run[r].key # k
  <2>1. Winner(run[r].key) # None  BY <1>1, <1>4, Awaited, CacheAssumption DEF Winner
  <2>2. receipt[run[r].key] # Torn  BY <1>1, <1>4, Awaited, CacheAssumption
  <2>3. QED  BY <1>1, <2>1, <2>2 DEF Malformed
<1>5. receipt[run[r].key] = None => receipt'[run[r].key] = None
  BY <1>1, <1>3
<1>6. Ahead(r) \in {"hit", "compare", "won"} =>
            receipt'[run[r].key] = receipt[run[r].key] /\ run[r].win \in artifact'
  BY <1>1, <1>3, <1>4, Awaited DEF SweepMalformed
<1>7. QED  BY <1>1, <1>2, <1>5, <1>6, SweepStep DEF SweepMalformed

\* Nor is one that a marker dominates.
LEMMA SweepDominatedStep ==
  ASSUME CacheInv, NEW r \in Runner, NEW k \in Key, SweepDominated(r, k)
  PROVE  Step(r)
<1>1. At(r, "sweep") /\ k \in poison /\ receipt' = [receipt EXCEPT ![k] = None]
  BY DEF SweepDominated, Dominated
<1>2. DiskOK'
  <2>1. UNCHANGED <<poison, artifact, used>>  BY DEF SweepDominated
  <2>2. QED  BY <1>1, <2>1, OfOne, DropDisk
<1>3. receipt \in [Key -> Obj \cup {None, Torn, Mark}]  BY OfOne DEF DiskOK
<1>4. receipt[run[r].key] = None => receipt'[run[r].key] = None
  BY <1>1, <1>3
<1>5. Ahead(r) \in {"hit", "compare", "won"} =>
            receipt'[run[r].key] = receipt[run[r].key] /\ run[r].win \in artifact'
  BY <1>1, <1>3, Awaited DEF SweepDominated
<1>6. QED  BY <1>1, <1>2, <1>4, <1>5, SweepStep DEF SweepDominated

\* Nor an evicted one: the cleanup retains its own key.
LEMMA EvictStep ==
  ASSUME CacheInv, NEW r \in Runner, NEW k \in Key, Evict(r, k)
  PROVE  Step(r)
<1>1. At(r, "sweep") /\ k \in Evicted(r) /\ receipt' = [receipt EXCEPT ![k] = None]
  BY DEF Evict
<1>2. DiskOK'
  <2>1. UNCHANGED artifact /\ poison' = poison \ {k} /\ used' = RemoveFirst(used, k)
    BY DEF Evict
  <2>2. QED  BY <1>1, <2>1, OfOne, DropDisk
<1>3. receipt \in [Key -> Obj \cup {None, Torn, Mark}]  BY OfOne DEF DiskOK
<1>4. ASSUME Ahead(r) \in {"hit", "compare", "won"} PROVE run[r].key # k
  <2>1. run[r].key \in Entries /\ run[r].key \in Protected(r)  BY <1>1, <1>4, Awaited
  <2>2. run[r].key \in Kept(r)  BY <2>1, OfOne, KeptRight DEF DiskOK
  <2>3. QED  BY <1>1, <2>2 DEF Evicted
<1>5. receipt[run[r].key] = None => receipt'[run[r].key] = None
  BY <1>1, <1>3
<1>6. Ahead(r) \in {"hit", "compare", "won"} =>
            receipt'[run[r].key] = receipt[run[r].key] /\ run[r].win \in artifact'
  BY <1>1, <1>3, <1>4, Awaited DEF Evict
<1>7. QED  BY <1>1, <1>2, <1>5, <1>6, SweepStep DEF Evict

\* A collected object is no receipt's.
LEMMA CollectStep ==
  ASSUME CacheInv, NEW r \in Runner, NEW o \in Obj, Collect(r, o)
  PROVE  Step(r)
<1>1. /\ At(r, "sweep") /\ UNCHANGED <<lock, receipt, poison, used, staged, listed, run>>
      /\ artifact' = artifact \ {o} /\ \A k \in Key : receipt[k] # o
  BY DEF Collect, Unreferenced
<1>2. DiskOK'
  <2>1. DiskOK  BY OfOne
  <2>2. ReceiptBacked'  BY <1>1, <2>1 DEF DiskOK, ReceiptBacked
  <2>3. Present' = Present  BY <1>1 DEF Present
  <2>4. Lists(used, Present)'  BY <1>1, <2>1, <2>3 DEF DiskOK, Lists
  <2>5. QED  BY <1>1, <2>1, <2>2, <2>4 DEF DiskOK
<1>3. Ahead(r) \in {"hit", "compare", "won"} =>
            receipt'[run[r].key] = receipt[run[r].key] /\ run[r].win \in artifact'
  BY <1>1, Awaited
<1>4. QED  BY <1>1, <1>2, <1>3, SweepStep

\* A key that is present gets another sign of it.
LEMMA MarkDisk ==
  ASSUME DiskOK, NEW k \in Key, k \in Present, UNCHANGED <<artifact, used>>,
         NEW v \in {None, Torn, Mark},
         receipt' = receipt \/ receipt' = [receipt EXCEPT ![k] = v],
         poison' = poison \/ poison' = poison \cup {k},
         v = None => k \in poison'
  PROVE  DiskOK'
<1>1. /\ receipt' \in [Key -> Obj \cup {None, Torn, Mark}] /\ poison' \subseteq Key
      /\ artifact' \subseteq Obj
  BY DEF DiskOK
<1>2. ReceiptBacked'
  <2>1. \A l \in Key : receipt'[l] \in Obj => receipt'[l] = receipt[l]
    BY CacheAssumption DEF DiskOK
  <2>2. QED  BY <2>1 DEF DiskOK, ReceiptBacked
<1>3. Present' = Present
  <2>1. \A l \in Key \ {k} : (l \in poison' <=> l \in poison) /\ receipt'[l] = receipt[l]
    BY DEF DiskOK
  <2>2. k \in poison' \/ receipt'[k] # None
    <3>1. CASE receipt' = receipt  BY <3>1 DEF Present
    <3>2. CASE receipt' = [receipt EXCEPT ![k] = v]  BY <3>2 DEF DiskOK
    <3>3. QED  BY <3>1, <3>2
  <2>3. QED  BY <2>1, <2>2 DEF Present
<1>4. Lists(used, Present)'  BY <1>3 DEF DiskOK, Lists
<1>5. QED  BY <1>1, <1>2, <1>4 DEF DiskOK

\* The key of a runner that compares has its winner for a receipt.
LEMMA Comparing ==
  ASSUME CacheInv, NEW r \in Runner, At(r, "compare")
  PROVE  /\ lock = r /\ run[r].key \in Key /\ run[r].key \in Present
         /\ run[r].win \in Obj /\ receipt[run[r].key] = run[r].win /\ run[r].win \in artifact
         /\ run[r].key \notin poison
<1>1. Ahead(r) = "compare" /\ lock = r  BY OfOne DEF Ahead, At, Inside
<1>2. /\ run[r].key \in Key /\ run[r].win \in Obj /\ receipt[run[r].key] = run[r].win
      /\ run[r].win \in artifact /\ run[r].key \notin poison
  BY <1>1, OfOne DEF Own, Held, At, DiskOK
<1>3. run[r].key \in Present  BY <1>2, CacheAssumption DEF Present
<1>4. QED  BY <1>1, <1>2, <1>3

\* A poisoning leaves the directory in order.
LEMMA PoisonStep ==
  ASSUME CacheInv, NEW r \in Runner, PoisonByRename(r) \/ PoisonByMarker(r)
  PROVE  Step(r)
<1>1. PICK k \in Key : k = run[r].key /\ k \in Present
  BY Comparing DEF PoisonByRename, PoisonByMarker
<1>2. DiskOK'
  <2>1. /\ UNCHANGED <<artifact, used>> /\ poison' = poison \cup {k}
        /\ receipt' = receipt \/ receipt' = [receipt EXCEPT ![k] = None]
    BY <1>1 DEF PoisonByRename, PoisonByMarker
  <2>2. None \in {None, Torn, Mark} /\ k \in poison'  BY <2>1
  <2>3. QED  BY <1>1, <2>1, <2>2, OfOne, MarkDisk
<1>3. lock = r /\ Fail(r, "refused") /\ UNCHANGED staged
  BY Comparing DEF PoisonByRename, PoisonByMarker
<1>4. QED  BY <1>2, <1>3, FailStep

\* A truncation leaves a torn receipt and a runner about to rewrite it.
LEMMA TruncateStep ==
  ASSUME CacheInv, NEW r \in Runner, Truncate(r)
  PROVE  Step(r)
<1>1. PICK k \in Key : k = run[r].key /\ k \in Present /\ k \notin poison
  BY Comparing DEF Truncate
<1>2. receipt' = [receipt EXCEPT ![k] = Torn] /\ UNCHANGED <<poison, artifact, used>>
  BY <1>1 DEF Truncate
<1>3. DiskOK'
  <2>1. Torn \in {None, Torn, Mark} /\ Torn # None  BY CacheAssumption
  <2>2. QED  BY <1>1, <1>2, <2>1, OfOne, MarkDisk
<1>4. Moved(r, "rewrite", run[r].key, run[r].obj, run[r].win, run[r].next)
  <2>1. run \in [Runner -> Record] /\ "rewrite" \in PCs  BY OfOne DEF PCs
  <2>2. QED  BY <2>1, GotoMoves DEF Truncate
<1>5. /\ run'[r].pc = "rewrite" /\ run'[r].key = k /\ run'[r].win = run[r].win
      /\ Ahead(r)' = "rewrite"
  BY <1>1, <1>4 DEF Moved, Put, Ahead
<1>6. lock = r /\ run[r].win \in Obj  BY Comparing DEF Truncate
<1>7. Own(r)'  BY <1>5, <1>6 DEF Own
<1>8. Held(r)'
  <2>1. receipt'[k] = Torn /\ k \notin poison'  BY <1>1, <1>2, OfOne DEF DiskOK
  <2>2. QED  BY <1>5, <2>1 DEF Held
<1>9. QED
  BY <1>3, <1>4, <1>5, <1>6, <1>7, <1>8, OfOne DEF Step, Moved, Put, Inside, Truncate

\* The poison record replaces the torn receipt.
LEMMA RewriteStep ==
  ASSUME CacheInv, NEW r \in Runner, RewriteReceipt(r)
  PROVE  Step(r)
<1>1. /\ lock = r /\ run[r].key \in Key /\ receipt[run[r].key] = Torn
  BY OfOne DEF RewriteReceipt, At, Own, Held, Inside
<1>2. PICK k \in Key : k = run[r].key /\ k \in Present
  BY <1>1, CacheAssumption DEF Present
<1>3. DiskOK'
  <2>1. Mark \in {None, Torn, Mark} /\ Mark # None  BY CacheAssumption
  <2>2. receipt' = [receipt EXCEPT ![k] = Mark] /\ UNCHANGED <<poison, artifact, used>>
    BY <1>2 DEF RewriteReceipt
  <2>3. QED  BY <1>2, <2>1, <2>2, OfOne, MarkDisk
<1>4. Fail(r, "refused") /\ UNCHANGED staged  BY DEF RewriteReceipt
<1>5. QED  BY <1>1, <1>3, <1>4, FailStep

\* What a first publisher knows of its key.
LEMMA Publishing ==
  ASSUME CacheInv, NEW r \in Runner, run[r].pc \in {"link", "receipt"}
  PROVE  /\ lock = r /\ run[r].key \in Key /\ run[r].obj \in Obj
         /\ receipt[run[r].key] = None /\ run[r].key \notin poison
<1>1. Ahead(r) = run[r].pc /\ lock = r  BY OfOne DEF Ahead, Inside
<1>2. QED  BY <1>1, OfOne DEF Own, Held

\* The object is there before its receipt.
LEMMA LinkStep ==
  ASSUME CacheInv, NEW r \in Runner, LinkObject(r)
  PROVE  Step(r)
<1>1. run[r].pc = "link"  BY DEF LinkObject, At
<1>2. /\ artifact' = artifact \cup {run[r].obj} /\ UNCHANGED <<receipt, poison, used>>
      /\ UNCHANGED <<lock, staged, listed>>
  BY DEF LinkObject
<1>3. DiskOK'
  <2>1. DiskOK /\ run[r].obj \in Obj  BY <1>1, OfOne, Publishing
  <2>2. ReceiptBacked'  BY <1>2, <2>1 DEF DiskOK, ReceiptBacked
  <2>3. Present' = Present  BY <1>2 DEF Present
  <2>4. Lists(used, Present)'  BY <1>2, <2>1, <2>3 DEF DiskOK, Lists
  <2>5. QED  BY <1>2, <2>1, <2>2, <2>4 DEF DiskOK
<1>4. Moved(r, "receipt", run[r].key, run[r].obj, run[r].win, run[r].next)
  <2>1. run \in [Runner -> Record] /\ "receipt" \in PCs  BY OfOne DEF PCs
  <2>2. QED  BY <2>1, GotoMoves DEF LinkObject
<1>5. /\ run'[r].pc = "receipt" /\ run'[r].key = run[r].key /\ run'[r].obj = run[r].obj
      /\ Ahead(r)' = "receipt"
  BY <1>4 DEF Moved, Put, Ahead
<1>6. Own(r)'  BY <1>1, <1>5, Publishing DEF Own
<1>7. Held(r)'  BY <1>1, <1>2, <1>5, Publishing DEF Held
<1>8. QED
  BY <1>1, <1>2, <1>3, <1>4, <1>5, <1>6, <1>7, OfOne, Publishing DEF Step, Moved, Put, Inside

\* The receipt is created, and the key comes first in the access order.
LEMMA CreateStep ==
  ASSUME CacheInv, NEW r \in Runner, CreateReceipt(r)
  PROVE  /\ Step(r)
         /\ receipt' = [receipt EXCEPT ![run[r].key] = run[r].obj]
         /\ Clean(r, run[r].obj, "won")
<1>1. run[r].pc = "receipt"  BY DEF CreateReceipt, At
<1>2. PICK k \in Key : k = run[r].key  BY <1>1, Publishing
<1>3. PICK o \in Obj : o = run[r].obj  BY <1>1, Publishing
<1>4. receipt[k] = None /\ k \notin poison /\ o \in artifact /\ lock = r
  BY <1>1, <1>2, <1>3, Publishing, OfOne DEF Held
<1>5. /\ receipt' = [receipt EXCEPT ![k] = o] /\ used' = Touched(k)
      /\ Clean(r, o, "won") /\ UNCHANGED <<lock, poison, artifact, staged>>
  BY <1>2, <1>3, <1>4 DEF CreateReceipt
<1>6. DiskOK'
  <2>1. DiskOK  BY OfOne
  <2>2. /\ receipt' \in [Key -> Obj \cup {None, Torn, Mark}] /\ receipt'[k] = o
        /\ \A l \in Key \ {k} : receipt'[l] = receipt[l]
    BY <1>5, <2>1 DEF DiskOK
  <2>3. ReceiptBacked'  BY <1>4, <1>5, <2>1, <2>2 DEF DiskOK, ReceiptBacked
  <2>4. PICK s : s = used  OBVIOUS
  <2>5. PICK S : S = Present  OBVIOUS
  <2>6. Lists(s, S)  BY <2>1, <2>4, <2>5 DEF DiskOK
  <2>7. Lists(<<k>> \o RemoveFirst(s, k), S \cup {k})  BY <2>6, Fronted
  <2>8. Present' = S \cup {k}  BY <1>5, <2>2, <2>5, CacheAssumption DEF Present
  <2>9. used' = <<k>> \o RemoveFirst(s, k)  BY <1>5, <2>4 DEF Touched
  <2>10. Lists(used', S \cup {k})  BY <2>7, <2>9
  <2>11. Lists(used, Present)'  BY <2>8, <2>10 DEF Lists
  <2>12. QED  BY <1>5, <2>1, <2>2, <2>3, <2>11 DEF DiskOK
<1>7. PICK m \in Obj \cup {None} : m = o  OBVIOUS
<1>8. Moved(r, "stat", run[r].key, run[r].obj, o, "won")
  <2>1. run \in [Runner -> Record] /\ o \in Obj \cup {None}
        /\ "won" \in {"hit", "miss", "compare", "link", "won"}
    BY OfOne
  <2>2. QED  BY <1>5, <2>1, CleanMoves
<1>9. /\ run'[r].pc = "stat" /\ run'[r].key = k /\ run'[r].win = o /\ run'[r].next = "won"
      /\ Ahead(r)' = "won"
  BY <1>2, <1>8 DEF Moved, Put, Ahead
<1>10. Own(r)'  BY <1>9 DEF Own
<1>11. Held(r)'
  <2>1. receipt'[k] = o /\ o \in artifact' /\ k \notin poison'
    BY <1>4, <1>5, OfOne DEF DiskOK
  <2>2. QED  BY <1>9, <2>1 DEF Held
<1>12. Step(r)
  <2>1. staged' \subseteq Runner /\ listed' \subseteq Runner  BY <1>5, OfOne DEF Clean
  <2>2. QED  BY <1>4, <1>5, <1>6, <1>8, <1>9, <1>10, <1>11, <2>1 DEF Step, Moved, Put, Inside
<1>13. QED  BY <1>2, <1>3, <1>5, <1>12

-----------------------------------------------------------------------------
(* The invariant holds, and what follows from it.                          *)

\* Whatever a runner does, its step does what is asked of a step.
LEMMA OneStep ==
  ASSUME CacheInv, NEW r \in Runner,
         Locked(r) \/ Unlocked(r) \/ Crash(r) \/ \E k \in Key : Start(r, k)
  PROVE  Step(r)
<1>1. CASE Locked(r)
  <2>1. CASE Cleanup(r)
    BY <2>1, StatStep, CleanDoneStep, QuietStep, SweepMalformedStep, SweepDominatedStep,
       EvictStep, CollectStep DEF Cleanup
  <2>2. CASE Hit(r) \/ Share(r) \/ Won(r)  BY <2>2, ReturnStep
  <2>3. CASE Miss(r)  BY <2>3, MissStep
  <2>4. CASE PoisonByRename(r) \/ PoisonByMarker(r)  BY <2>4, PoisonStep
  <2>5. CASE Truncate(r)  BY <2>5, TruncateStep
  <2>6. CASE RewriteReceipt(r)  BY <2>6, RewriteStep
  <2>7. CASE PoisonFails(r) \/ LinkFails(r)  BY <2>7, QuietStep
  <2>8. CASE LinkObject(r)  BY <2>8, LinkStep
  <2>9. CASE CreateReceipt(r)  BY <2>9, CreateStep
  <2>10. QED
    BY <1>1, <2>1, <2>2, <2>3, <2>4, <2>5, <2>6, <2>7, <2>8, <2>9 DEF Locked
<1>2. CASE Unlocked(r)
  <2>1. CASE Refuse(r) \/ GiveUp(r) \/ CopyGone(r)  BY <2>1, QuietStep
  <2>2. CASE Lookup(r)  BY <2>2, LookupStep
  <2>3. CASE Publish(r)  BY <2>3, PublishStep
  <2>4. CASE \E o \in Obj : Build(r, o)  BY <2>4, BuildStep
  <2>5. CASE Copy(r)  BY <2>5, CopyStep
  <2>6. CASE Leave(r)  BY <2>6, LeaveStep
  <2>7. QED  BY <1>2, <2>1, <2>2, <2>3, <2>4, <2>5, <2>6 DEF Unlocked
<1>3. CASE Crash(r)  BY <1>3, LeaveStep
<1>4. CASE \E k \in Key : Start(r, k)  BY <1>4, StartStep
<1>5. QED  BY <1>1, <1>2, <1>3, <1>4

\* Every step keeps the invariant.
LEMMA EveryStep ==
  ASSUME CacheInv, Next
  PROVE  CacheInv'
BY OneStep, StepKeeps DEF Next

\* An empty directory satisfies it.
LEMMA SafeStart == Init => CacheInv
<1> SUFFICES ASSUME Init PROVE CacheInv  OBVIOUS
<1>1. /\ Idle \in Record /\ Idle.pc = "idle" /\ Idle.key = None /\ Idle.obj = None
      /\ Idle.win = None
  BY DEF Idle, Record, PCs
<1>2. Lists(used, Present)
  <2>1. Present = {}  BY DEF Init, Present
  <2>2. Lists(<<>>, {})
    <3>1. /\ <<>> \in Seq(Key) /\ DOMAIN <<>> = {}  OBVIOUS
    <3>2. QED  BY <3>1 DEF Lists, IsInjective, ToSet
  <2>3. QED  BY <2>1, <2>2 DEF Init
<1>3. DiskOK  BY <1>2, CacheAssumption DEF Init, DiskOK, ReceiptBacked
<1>4. ASSUME NEW r \in Runner PROVE /\ run[r].pc = "idle" /\ lock # r
                                    /\ Own(r) /\ Held(r)
  <2>1. run[r] = Idle /\ lock # r  BY CacheAssumption DEF Init
  <2>2. QED  BY <1>1, <2>1 DEF Own, Held, Ahead
<1>5. run \in [Runner -> Record] /\ lock \in Runner \cup {None}
      /\ staged \subseteq Runner /\ listed \subseteq Runner
  BY <1>1 DEF Init
<1>6. QED  BY <1>3, <1>4, <1>5 DEF CacheInv, Inside

\* So does a directory nothing happens to.
LEMMA Stutters == ASSUME CacheInv, UNCHANGED vars PROVE CacheInv'
<1>1. UNCHANGED disk /\ run' = run /\ lock' = lock /\ staged' = staged /\ listed' = listed
  BY DEF vars, disk
<1>2. DiskOK'  BY <1>1, DiskSame DEF CacheInv
<1>3. ASSUME NEW r \in Runner PROVE Own(r)' /\ Held(r)'
  <2>1. Tidy <=> Tidy'  BY <1>1, FilesSame DEF disk
  <2>2. Ahead(r)' = Ahead(r)  BY <1>1 DEF Ahead
  <2>3. QED  BY <1>1, <2>1, <2>2, OfOne DEF Own, Held, disk
<1>4. QED  BY <1>1, <1>2, <1>3 DEF CacheInv

\* The invariant holds whatever runners do, and wherever they are killed.
THEOREM Invariance == Spec => []CacheInv
<1>1. Init => CacheInv  BY SafeStart
<1>2. CacheInv /\ [Next]_vars => CacheInv'  BY EveryStep, Stutters
<1>3. QED  BY <1>1, <1>2, PTL DEF Spec

\* The types hold; the access order lists exactly the keys a file stands for,
\* and only the holder of the lock is in a locked section.
THEOREM TypesHold == Spec => []TypeOK
<1>1. CacheInv => TypeOK
  BY DEF CacheInv, DiskOK, Lists, Present, Record, Inside, TypeOK
<1>2. QED  BY <1>1, Invariance, PTL

\* What an entry says is there, and a validated winner stays until it is used.
THEOREM EntriesAreBacked == Spec => []EntriesBacked
<1>1. ASSUME CacheInv PROVE EntriesBacked
  <2>1. ReceiptBacked  BY <1>1 DEF CacheInv, DiskOK
  <2>2. WinnerInPlace
    <3> SUFFICES ASSUME NEW r \in Runner, run[r].pc \in {"hit", "compare", "won"}
                 PROVE  receipt[run[r].key] = run[r].win /\ run[r].win \in artifact
      BY DEF WinnerInPlace
    <3>1. Ahead(r) \in {"hit", "compare", "won"}  BY DEF Ahead
    <3>2. QED  BY <1>1, <3>1, OfOne DEF Held
  <2>3. QED  BY <2>1, <2>2 DEF EntriesBacked
<1>2. QED  BY <1>1, Invariance, PTL

-----------------------------------------------------------------------------
(* The action properties.                                                  *)

\* Where a runner is after it went on.
LEMMA GotoPc ==
  ASSUME CacheInv, NEW r \in Runner, NEW p, Goto(r, p)
  PROVE  run'[r].pc = p
BY OfOne DEF Goto, Record

\* Where a runner is after an exception.
LEMMA FailPc ==
  ASSUME CacheInv, NEW r \in Runner, NEW p, Fail(r, p)
  PROVE  run'[r].pc = p
<1>1. PICK m : m = [Idle EXCEPT !.pc = p]  OBVIOUS
<1>2. m.pc = p  BY <1>1 DEF Idle
<1>3. run' = [run EXCEPT ![r] = m]  BY <1>1 DEF Fail
<1>4. QED  BY <1>2, <1>3, OfOne

\* The only steps of the lock's holder after which its run goes on.
LEMMA GoesOn ==
  ASSUME CacheInv, NEW r \in Runner, lock = r,
         Locked(r) \/ Unlocked(r) \/ Crash(r) \/ \E k \in Key : Start(r, k),
         run'[r].pc \in {"linked", "build", "copy"}
  PROVE  Hit(r) \/ Share(r) \/ Won(r) \/ Miss(r)
<1>1. run[r].pc \in Inside  BY OfOne
<1>2. ~Unlocked(r)
  BY <1>1, OfOne, CacheAssumption
  DEF Unlocked, Refuse, Lookup, Publish, GiveUp, Build, Copy, CopyGone, Leave,
      Acquire, At, Inside
<1>3. ~Crash(r)
  <2>1. Idle.pc = "idle"  BY DEF Idle
  <2>2. QED  BY <2>1, OfOne DEF Crash
<1>4. \A k \in Key : ~Start(r, k)  BY <1>1 DEF Start, At, Inside
<1>5. ~Cleanup(r)
  <2>1. ~StatDone(r)  BY GotoPc DEF StatDone
  <2>2. ~CleanDone(r)
    <3> SUFFICES ASSUME CleanDone(r) PROVE FALSE  OBVIOUS
    <3>1. PICK n : n = run[r].next  OBVIOUS
    <3>2. run'[r].pc = n  BY <3>1, GotoPc DEF CleanDone
    <3>3. n \in {"hit", "miss", "compare", "link", "won"}
      BY <3>1, OfOne DEF CleanDone, Own, At
    <3>4. QED  BY <3>2, <3>3
  <2>3. \A d \in Runner : ~StatVanished(r, d)  BY FailPc DEF StatVanished
  <2>4. run' # run  BY <1>1 DEF Inside
  <2>5. QED
    BY <2>1, <2>2, <2>3, <2>4
    DEF Cleanup, StatStaging, SweepMalformed, SweepDominated, Evict, Collect
<1>6. ~(\/ PoisonByRename(r) \/ PoisonByMarker(r) \/ RewriteReceipt(r)
        \/ PoisonFails(r) \/ LinkFails(r))
  BY FailPc DEF PoisonByRename, PoisonByMarker, RewriteReceipt, PoisonFails, LinkFails
<1>7. ~(Truncate(r) \/ LinkObject(r))  BY GotoPc DEF Truncate, LinkObject
<1>8. ~CreateReceipt(r)
  <2> SUFFICES ASSUME CreateReceipt(r) PROVE FALSE  OBVIOUS
  <2>1. Clean(r, run[r].obj, "won")  BY CreateStep
  <2>2. PICK o \in Obj \cup {None} : o = run[r].obj  BY OfOne
  <2>3. "won" \in {"hit", "miss", "compare", "link", "won"} /\ run \in [Runner -> Record]
    BY OfOne
  <2>4. Moved(r, "stat", run[r].key, run[r].obj, o, "won")  BY <2>1, <2>2, <2>3, CleanMoves
  <2>5. QED  BY <2>4 DEF Moved, Put
<1>9. QED  BY <1>2, <1>3, <1>4, <1>5, <1>6, <1>7, <1>8 DEF Locked

\* A run that goes on leaves the cache within its limits and without litter.
THEOREM LeftInBounds == Spec => BoundedOnReturn
<1> DEFINE Bounded == \A r \in Runner :
          lock = r /\ run'[r].pc \in {"linked", "build", "copy"} =>
             /\ Cardinality(Entries') <= MaxEntries
             /\ Cardinality(artifact') <= MaxBytes
             /\ artifact' \subseteq {receipt'[k] : k \in Key}
             /\ Malformed' \cup Dominated' = {}
<1>1. ASSUME CacheInv, [Next]_vars PROVE [Bounded]_vars
  <2> SUFFICES ASSUME Next, NEW r \in Runner, lock = r,
                      run'[r].pc \in {"linked", "build", "copy"}
               PROVE  Tidy'
    BY <1>1 DEF Tidy
  <2>1. PICK q \in Runner : Locked(q) \/ Unlocked(q) \/ Crash(q) \/ \E k \in Key : Start(q, k)
    BY DEF Next
  <2>2. q = r
    <3>1. q # r => run'[r] = run[r]  BY <1>1, <2>1, OneStep DEF Step
    <3>2. run[r].pc \in Inside  BY <1>1, OfOne
    <3>3. QED  BY <3>1, <3>2 DEF Inside
  <2>3. Hit(r) \/ Share(r) \/ Won(r) \/ Miss(r)  BY <1>1, <2>1, <2>2, GoesOn
  <2>4. Tidy
    <3>1. run[r].pc \in {"hit", "miss", "compare", "link", "won"}
      BY <2>3 DEF Hit, Share, Won, Miss, At
    <3>2. QED  BY <1>1, <3>1, OfOne DEF Held
  <2>5. UNCHANGED <<receipt, poison, artifact>>
    BY <2>3 DEF Hit, Share, Won, Miss, Return, disk
  <2>6. QED  BY <2>4, <2>5, FilesSame
<1>2. QED  BY <1>1, Invariance, PTL DEF Spec, BoundedOnReturn

\* A divergent key stays refused until it is one entry too many.
THEOREM PoisonStays == Spec => PoisonKept
<1> DEFINE Kept1 == \A k \in Key : Poisoned(k) /\ ~Poisoned(k)' =>
                       Cardinality(Entries) > MaxEntries
<1>1. ASSUME CacheInv, [Next]_vars PROVE [Kept1]_vars
  <2> SUFFICES ASSUME Next, NEW k \in Key, Poisoned(k), ~Poisoned(k)'
               PROVE  Cardinality(Entries) > MaxEntries
    BY <1>1
  <2>1. PICK r \in Runner : Locked(r) \/ Unlocked(r) \/ Crash(r) \/ \E j \in Key : Start(r, j)
    BY DEF Next
  <2>2. ~(receipt' = receipt /\ poison \subseteq poison')  BY DEF Poisoned
  <2>3. receipt \in [Key -> Obj \cup {None, Torn, Mark}] /\ Lists(used, Present)
    BY <1>1 DEF CacheInv, DiskOK
  <2>4. CASE Unlocked(r) \/ Crash(r) \/ \E j \in Key : Start(r, j)
    BY <2>2, <2>4
    DEF Unlocked, Refuse, Lookup, Publish, GiveUp, Build, Copy, CopyGone, Leave, Crash,
        Start, disk
  <2>5. CASE \/ Hit(r) \/ Share(r) \/ Won(r) \/ Miss(r) \/ PoisonFails(r) \/ LinkFails(r)
             \/ LinkObject(r) \/ PoisonByMarker(r)
    BY <2>2, <2>5
    DEF Hit, Share, Won, Miss, PoisonFails, LinkFails, LinkObject, PoisonByMarker, Return, disk
  <2>6. CASE PoisonByRename(r) \/ Truncate(r)
    <3>1. receipt[run[r].key] \in Obj /\ poison \subseteq poison'
          /\ \A j \in Key \ {run[r].key} : receipt'[j] = receipt[j]
      BY <1>1, <2>3, <2>6, Comparing DEF PoisonByRename, Truncate
    <3>2. QED  BY <3>1, CacheAssumption DEF Poisoned
  <2>7. CASE RewriteReceipt(r)
    <3>1. /\ poison' = poison
          /\ \A j \in Key : receipt'[j] = receipt[j] \/ receipt'[j] = Mark
      BY <2>3, <2>7 DEF RewriteReceipt
    <3>2. QED  BY <3>1 DEF Poisoned
  <2>8. CASE CreateReceipt(r)
    <3>1. poison' = poison /\ receipt[run[r].key] = None
          /\ \A j \in Key \ {run[r].key} : receipt'[j] = receipt[j]
      <4>1. run[r].pc = "receipt" /\ poison' = poison  BY <2>8 DEF CreateReceipt, At
      <4>2. receipt' = [receipt EXCEPT ![run[r].key] = run[r].obj]  BY <1>1, <2>8, CreateStep
      <4>3. QED  BY <1>1, <2>3, <4>1, <4>2, Publishing
    <3>2. QED  BY <3>1, CacheAssumption DEF Poisoned
  <2>9. CASE Cleanup(r)
    <3>1. ~(StatDone(r) \/ CleanDone(r) \/ (\E o \in Obj : Collect(r, o))
            \/ \E d \in Runner : StatStaging(r, d) \/ StatVanished(r, d))
      BY <2>2 DEF StatDone, CleanDone, Collect, StatStaging, StatVanished, disk
    <3>2. PICK j \in Key : SweepMalformed(r, j) \/ SweepDominated(r, j) \/ Evict(r, j)
      BY <2>9, <3>1 DEF Cleanup
    <3>3. CASE SweepMalformed(r, j)
      <4>1. poison' = poison /\ receipt[j] \in Obj \cup {Torn}
            /\ \A l \in Key \ {j} : receipt'[l] = receipt[l]
        BY <2>3, <3>3 DEF SweepMalformed, Malformed
      <4>2. QED  BY <4>1, CacheAssumption DEF Poisoned
    <3>4. CASE SweepDominated(r, j)
      <4>1. poison' = poison /\ j \in poison
            /\ \A l \in Key \ {j} : receipt'[l] = receipt[l]
        BY <2>3, <3>4 DEF SweepDominated, Dominated
      <4>2. QED  BY <4>1 DEF Poisoned
    <3>5. CASE Evict(r, j)
      <4>1. poison' = poison \ {j} /\ \A l \in Key \ {j} : receipt'[l] = receipt[l]
        BY <2>3, <3>5 DEF Evict
      <4>2. j = k  BY <4>1 DEF Poisoned
      <4>3. k \in Evicted(r) /\ Dominated = {}  BY <3>5, <4>2 DEF Evict
      <4>4. receipt[k] \notin Obj
        <5>1. k \in poison => receipt[k] = None  BY <4>3 DEF Dominated
        <5>2. QED  BY <5>1, CacheAssumption DEF Poisoned
      <4>5. QED  BY <2>3, <4>3, <4>4, PoisonTakesNoRoom
    <3>6. QED  BY <3>2, <3>3, <3>4, <3>5
  <2>10. QED
    BY <2>1, <2>4, <2>5, <2>6, <2>7, <2>8, <2>9 DEF Locked
<1>2. QED  BY <1>1, Invariance, PTL DEF Spec, PoisonKept

-----------------------------------------------------------------------------
(* The refinement of CacheSpec.                                            *)

\* What a key's files stand for.
LEMMA Reading ==
  ASSUME CacheInv, NEW k \in Key
  PROVE  /\ Poisoned(k) => EntryOf(k) = Mark
         /\ ~Poisoned(k) /\ receipt[k] # Torn => EntryOf(k) = receipt[k]
         /\ \A r \in Runner : /\ receipt[k] = Torn /\ ~Poisoned(k)
                               /\ run[r].pc = "rewrite" /\ run[r].key = k
                               => EntryOf(k) = run[r].win
         /\ /\ receipt[k] = Torn /\ ~Poisoned(k)
            /\ (\A r \in Runner : ~(run[r].pc = "rewrite" /\ run[r].key = k))
            => EntryOf(k) = None
<1>1. ASSUME NEW r \in Runner, run[r].pc = "rewrite", run[r].key = k
      PROVE  Rewriting(k) = {r}
  <2>1. ASSUME NEW q \in Runner, run[q].pc = "rewrite" PROVE q = r
    <3>1. lock = q /\ lock = r  BY <1>1, <2>1, OfOne DEF Inside
    <3>2. QED  BY <3>1
  <2>2. QED  BY <1>1, <2>1 DEF Rewriting, At
<1>2. (\A r \in Runner : ~(run[r].pc = "rewrite" /\ run[r].key = k)) => Rewriting(k) = {}  BY DEF Rewriting, At
<1>3. QED  BY <1>1, <1>2 DEF EntryOf, Poison

\* The same after a step.
LEMMA ReadingAfter ==
  ASSUME CacheInv', NEW k \in Key
  PROVE  /\ Poisoned(k)' => EntryOf(k)' = Mark
         /\ ~Poisoned(k)' /\ receipt'[k] # Torn => EntryOf(k)' = receipt'[k]
         /\ \A r \in Runner : /\ receipt'[k] = Torn /\ ~Poisoned(k)'
                               /\ run'[r].pc = "rewrite" /\ run'[r].key = k
                               => EntryOf(k)' = run'[r].win
         /\ /\ receipt'[k] = Torn /\ ~Poisoned(k)'
            /\ (\A r \in Runner : ~(run'[r].pc = "rewrite" /\ run'[r].key = k))
            => EntryOf(k)' = None
<1>1. ASSUME NEW r \in Runner, run'[r].pc = "rewrite", run'[r].key = k
      PROVE  Rewriting(k)' = {r}
  <2>1. ASSUME NEW q \in Runner, run'[q].pc = "rewrite" PROVE q = r
    <3>1. lock' = q /\ lock' = r  BY <1>1, <2>1 DEF CacheInv, Inside
    <3>2. QED  BY <3>1
  <2>2. QED  BY <1>1, <2>1 DEF Rewriting, At
<1>2. (\A r \in Runner : ~(run'[r].pc = "rewrite" /\ run'[r].key = k)) => Rewriting(k)' = {}
  BY DEF Rewriting, At
<1>3. QED  BY <1>1, <1>2 DEF EntryOf, Poison

\* What the abstract cache sees of a step.
Same == \A k \in Key : EntryOf(k)' = EntryOf(k)
NoneMoves == \A q \in Runner : Handed(q)' = Handed(q)
Turns(k, v) == EntryOf(k)' = v /\ \A l \in Key \ {k} : EntryOf(l)' = EntryOf(l)
Gets(r, v) == Handed(r)' = v /\ \A q \in Runner \ {r} : Handed(q)' = Handed(q)

\* The same in CacheSpec's words.
LEMMA Translation ==
  /\ Same /\ NoneMoves => UNCHANGED Cache!vars
  /\ \A k \in Key : EntryOf(k) \in Obj /\ Turns(k, Mark) /\ NoneMoves => Cache!Next
  /\ \A k \in Key : EntryOf(k) # None /\ Turns(k, None) /\ NoneMoves => Cache!Next
  /\ \A k \in Key, o \in Obj : EntryOf(k) = None /\ Turns(k, o) /\ NoneMoves => Cache!Next
  /\ \A k \in Key, r \in Runner :
        Handed(r) = None /\ EntryOf(k) \in Obj /\ Gets(r, <<k, EntryOf(k)>>) /\ Same => Cache!Next
  /\ \A r \in Runner : Handed(r) # None /\ Gets(r, None) /\ Same => Cache!Next
<1>1. /\ \A k \in Key : [l \in Key |-> EntryOf(l)][k] = EntryOf(k)
      /\ \A r \in Runner : [q \in Runner |-> Handed(q)][r] = Handed(r)
  OBVIOUS
<1>2. NoneMoves => [q \in Runner |-> Handed(q)]' = [q \in Runner |-> Handed(q)]
  BY DEF NoneMoves
<1>3. Same => [l \in Key |-> EntryOf(l)]' = [l \in Key |-> EntryOf(l)]
  BY DEF Same
<1>4. ASSUME NEW k \in Key, NEW v, Turns(k, v)
      PROVE  [l \in Key |-> EntryOf(l)]' = [[l \in Key |-> EntryOf(l)] EXCEPT ![k] = v]
  BY <1>4 DEF Turns
<1>5. ASSUME NEW r \in Runner, NEW v, Gets(r, v)
      PROVE  [q \in Runner |-> Handed(q)]' = [[q \in Runner |-> Handed(q)] EXCEPT ![r] = v]
  BY <1>5 DEF Gets
<1>6. Same /\ NoneMoves => UNCHANGED Cache!vars  BY <1>2, <1>3 DEF Cache!vars
<1>7. ASSUME NEW k \in Key, EntryOf(k) \in Obj, Turns(k, Mark), NoneMoves PROVE Cache!Next
  <2>1. Cache!Diverge(k)  BY <1>1, <1>2, <1>4, <1>7 DEF Cache!Diverge, Poison
  <2>2. QED  BY <2>1 DEF Cache!Next
<1>8. ASSUME NEW k \in Key, EntryOf(k) # None, Turns(k, None), NoneMoves PROVE Cache!Next
  <2>1. Cache!Forget(k)  BY <1>1, <1>2, <1>4, <1>8 DEF Cache!Forget
  <2>2. QED  BY <2>1 DEF Cache!Next
<1>9. ASSUME NEW k \in Key, NEW o \in Obj, EntryOf(k) = None, Turns(k, o), NoneMoves
      PROVE  Cache!Next
  <2>1. Cache!Publish(k, o)  BY <1>1, <1>2, <1>4, <1>9 DEF Cache!Publish
  <2>2. QED  BY <2>1 DEF Cache!Next
<1>10. ASSUME NEW k \in Key, NEW r \in Runner, Handed(r) = None, EntryOf(k) \in Obj,
              Gets(r, <<k, EntryOf(k)>>), Same
       PROVE  Cache!Next
  <2>1. PICK v : v = <<k, EntryOf(k)>>  OBVIOUS
  <2>2. [q \in Runner |-> Handed(q)]' = [[q \in Runner |-> Handed(q)] EXCEPT ![r] = v]
    BY <1>5, <1>10, <2>1
  <2>3. Cache!Deliver(r, k)  BY <1>1, <1>3, <1>10, <2>1, <2>2 DEF Cache!Deliver
  <2>4. QED  BY <2>3 DEF Cache!Next
<1>11. ASSUME NEW r \in Runner, Handed(r) # None, Gets(r, None), Same PROVE Cache!Next
  <2>1. Cache!Finish(r)  BY <1>1, <1>3, <1>5, <1>11 DEF Cache!Finish
  <2>2. QED  BY <2>1 DEF Cache!Next
<1>12. QED  BY <1>6, <1>7, <1>8, <1>9, <1>10, <1>11

\* A key whose files are as they were, beside a runner that does not rewrite.
LEMMA EntryStays ==
  ASSUME CacheInv, CacheInv', NEW r \in Runner, Step(r),
         run[r].pc # "rewrite", run'[r].pc # "rewrite",
         NEW k \in Key, receipt'[k] = receipt[k], k \in poison' <=> k \in poison
  PROVE  EntryOf(k)' = EntryOf(k)
<1>1. Poisoned(k)' <=> Poisoned(k)  BY DEF Poisoned
<1>2. \A q \in Runner : run'[q] = run[q] \/ (q = r /\ run[q].pc # "rewrite" /\ run'[q].pc # "rewrite")
  BY DEF Step
<1>3. CASE receipt[k] = Torn /\ ~Poisoned(k)
  <2>1. CASE \E q \in Runner : run[q].pc = "rewrite" /\ run[q].key = k
    <3>1. PICK q \in Runner : run[q].pc = "rewrite" /\ run[q].key = k  BY <2>1
    <3>2. run'[q] = run[q]  BY <1>2, <3>1
    <3>3. EntryOf(k) = run[q].win  BY <1>3, <3>1, Reading
    <3>4. EntryOf(k)' = run'[q].win  BY <1>1, <1>3, <3>1, <3>2, ReadingAfter
    <3>5. QED  BY <3>2, <3>3, <3>4
  <2>2. CASE \A q \in Runner : ~(run[q].pc = "rewrite" /\ run[q].key = k)
    <3>1. \A q \in Runner : ~(run'[q].pc = "rewrite" /\ run'[q].key = k)  BY <1>2, <2>2
    <3>2. EntryOf(k) = None  BY <1>3, <2>2, Reading
    <3>3. EntryOf(k)' = None  BY <1>1, <1>3, <3>1, ReadingAfter
    <3>4. QED  BY <3>2, <3>3
  <2>3. QED  BY <2>1, <2>2
<1>4. CASE ~(receipt[k] = Torn /\ ~Poisoned(k))
  BY <1>1, <1>4, Reading, ReadingAfter
<1>5. QED  BY <1>3, <1>4

\* What a runner was handed is its own affair.
LEMMA OthersHold ==
  ASSUME NEW r \in Runner, Step(r)
  PROVE  /\ \A q \in Runner \ {r} : Handed(q)' = Handed(q)
         /\ run[r].pc \notin {"copy", "linked"} => Handed(r) = None
         /\ run'[r].pc \notin {"copy", "linked"} => Handed(r)' = None
BY DEF Step, Handed

\* A step that leaves receipts and markers alone, of a runner that neither
\* rewrites nor holds anything before and after.
LEMMA Unseen ==
  ASSUME CacheInv, CacheInv', NEW r \in Runner, Step(r),
         UNCHANGED <<receipt, poison>>,
         run[r].pc \notin {"rewrite", "copy", "linked"},
         run'[r].pc \notin {"rewrite", "copy", "linked"}
  PROVE  Same /\ NoneMoves
<1>1. Same  BY EntryStays DEF Same
<1>2. NoneMoves  BY OthersHold DEF NoneMoves
<1>3. QED  BY <1>1, <1>2

\* A runner gives up, loses or finishes with what it holds.
LEMMA Dropping ==
  ASSUME CacheInv, CacheInv', NEW r \in Runner, Step(r),
         UNCHANGED <<receipt, poison>>,
         run[r].pc \in {"copy", "linked"},
         run'[r].pc \notin {"rewrite", "copy", "linked"}
  PROVE  Cache!Next
<1>1. Same  BY EntryStays DEF Same
<1>2. Handed(r) # None
  <2>1. run[r].key \in Key /\ run[r].win \in Obj  BY OfOne DEF Own
  <2>2. QED  BY <2>1, CacheAssumption DEF Handed
<1>3. Gets(r, None)  BY OthersHold DEF Gets
<1>4. QED  BY <1>1, <1>2, <1>3, Translation

\* A runner is handed its key's object.
LEMMA Delivering ==
  ASSUME CacheInv, CacheInv', NEW r \in Runner, Step(r), Hit(r) \/ Share(r) \/ Won(r)
  PROVE  Cache!Next
<1>1. run[r].pc \in {"hit", "compare", "won"}  BY DEF Hit, Share, Won, At
<1>2. PICK p \in {"copy", "linked"} : Return(r, p)  BY DEF Hit, Share, Won
<1>3. PICK k \in Key : k = run[r].key  BY <1>1, OfOne DEF Own
<1>4. Ahead(r) \in {"hit", "compare", "won"}  BY <1>1 DEF Ahead
<1>5. receipt[k] = run[r].win /\ run[r].win \in Obj /\ k \notin poison
  BY <1>3, <1>4, OfOne DEF Held, DiskOK
<1>6. EntryOf(k) = run[r].win
  BY <1>5, Reading, CacheAssumption DEF Poisoned
<1>7. Moved(r, p, run[r].key, run[r].obj, run[r].win, run[r].next)
  <2>1. run \in [Runner -> Record] /\ p \in PCs  BY OfOne DEF PCs
  <2>2. QED  BY <1>2, <2>1, GotoMoves DEF Return
<1>8. run'[r].pc = p /\ run'[r].key = run[r].key /\ run'[r].win = run[r].win
  BY <1>7 DEF Moved, Put
<1>9. Handed(r)' = <<k, EntryOf(k)>>  BY <1>3, <1>6, <1>8 DEF Handed
<1>10. Gets(r, <<k, EntryOf(k)>>)  BY <1>9, OthersHold DEF Gets
<1>11. Same
  <2>1. UNCHANGED <<receipt, poison>>  BY <1>2 DEF Return
  <2>2. QED  BY <1>1, <1>8, <2>1, EntryStays DEF Same
<1>12. Handed(r) = None  BY <1>1 DEF Handed
<1>13. EntryOf(k) \in Obj  BY <1>5, <1>6
<1>14. QED  BY <1>10, <1>11, <1>12, <1>13, Translation

\* Divergence is recorded, on the receipt or beside it.
LEMMA Diverging ==
  ASSUME CacheInv, CacheInv', NEW r \in Runner, Step(r), PoisonByRename(r) \/ PoisonByMarker(r)
  PROVE  Cache!Next
<1>1. PICK k \in Key : k = run[r].key
  BY Comparing DEF PoisonByRename, PoisonByMarker
<1>2. /\ run[r].pc = "compare" /\ receipt[k] \in Obj /\ k \notin poison
      /\ poison' = poison \cup {k} /\ Fail(r, "refused")
      /\ receipt' = receipt \/ receipt' = [receipt EXCEPT ![k] = None]
  BY <1>1, Comparing DEF PoisonByRename, PoisonByMarker, At
<1>3. run'[r].pc = "refused"  BY <1>2, FailPc
<1>4. EntryOf(k) \in Obj  BY <1>2, Reading, CacheAssumption DEF Poisoned
<1>5. EntryOf(k)' = Mark  BY <1>2, ReadingAfter DEF Poisoned
<1>6. ASSUME NEW l \in Key \ {k} PROVE EntryOf(l)' = EntryOf(l)
  <2>1. receipt'[l] = receipt[l] /\ (l \in poison' <=> l \in poison)
    BY <1>2, OfOne DEF DiskOK
  <2>2. QED  BY <1>2, <1>3, <2>1, EntryStays
<1>7. NoneMoves  BY <1>2, <1>3, OthersHold DEF NoneMoves
<1>8. QED  BY <1>4, <1>5, <1>6, <1>7, Translation DEF Turns

\* A truncated receipt still counts as its object while its runner rewrites it.
LEMMA Truncating ==
  ASSUME CacheInv, CacheInv', NEW r \in Runner, Step(r), Truncate(r)
  PROVE  Same /\ NoneMoves
<1>1. PICK k \in Key : k = run[r].key  BY Comparing DEF Truncate
<1>2. /\ run[r].pc = "compare" /\ receipt[k] = run[r].win /\ run[r].win \in Obj
      /\ k \notin poison /\ UNCHANGED poison /\ receipt' = [receipt EXCEPT ![k] = Torn]
      /\ lock = r
  BY <1>1, Comparing DEF Truncate, At
<1>3. receipt'[k] = Torn /\ \A l \in Key \ {k} : receipt'[l] = receipt[l]
  BY <1>2, OfOne DEF DiskOK
<1>4. Moved(r, "rewrite", run[r].key, run[r].obj, run[r].win, run[r].next)
  <2>1. run \in [Runner -> Record] /\ "rewrite" \in PCs  BY OfOne DEF PCs
  <2>2. QED  BY <2>1, GotoMoves DEF Truncate
<1>5. run'[r].pc = "rewrite" /\ run'[r].key = k /\ run'[r].win = run[r].win
  BY <1>1, <1>4 DEF Moved, Put
<1>6. EntryOf(k) = run[r].win  BY <1>2, Reading, CacheAssumption DEF Poisoned
<1>7. EntryOf(k)' = run[r].win
  <2>1. ~Poisoned(k)'  BY <1>2, <1>3, CacheAssumption DEF Poisoned
  <2>2. QED  BY <1>3, <1>5, <2>1, ReadingAfter
<1>8. \A q \in Runner : run[q].pc # "rewrite"
  <2>1. \A q \in Runner : run[q].pc = "rewrite" => q = r  BY <1>2, OfOne DEF Inside
  <2>2. QED  BY <1>2, <2>1
<1>9. \A q \in Runner : run'[q].pc = "rewrite" => run'[q].key = k
  BY <1>5, <1>8 DEF Step
<1>10. ASSUME NEW l \in Key \ {k} PROVE EntryOf(l)' = EntryOf(l)
  <2>1. receipt'[l] = receipt[l] /\ (Poisoned(l)' <=> Poisoned(l))
    BY <1>2, <1>3 DEF Poisoned
  <2>2. CASE receipt[l] = Torn /\ ~Poisoned(l)
    <3>1. EntryOf(l) = None  BY <1>8, <2>2, Reading
    <3>2. EntryOf(l)' = None  BY <1>9, <2>1, <2>2, ReadingAfter
    <3>3. QED  BY <3>1, <3>2
  <2>3. CASE ~(receipt[l] = Torn /\ ~Poisoned(l))
    BY <2>1, <2>3, Reading, ReadingAfter
  <2>4. QED  BY <2>2, <2>3
<1>11. Same  BY <1>6, <1>7, <1>10 DEF Same
<1>12. NoneMoves  BY <1>2, <1>5, OthersHold DEF NoneMoves
<1>13. QED  BY <1>11, <1>12

\* The end of a rewriting: the poison record, or a receipt left torn.
LEMMA Rewritten ==
  ASSUME CacheInv, CacheInv', NEW r \in Runner, Step(r), run[r].pc = "rewrite",
         RewriteReceipt(r) \/ PoisonFails(r) \/ Crash(r)
  PROVE  Cache!Next
<1>1. PICK k \in Key : k = run[r].key  BY OfOne DEF Own
<1>2. /\ lock = r /\ run[r].win \in Obj /\ receipt[k] = Torn /\ k \notin poison
  BY <1>1, OfOne DEF Own, Held, Inside
<1>3. run'[r].pc \in {"refused", "idle"}
  <2>1. Idle.pc = "idle"  BY DEF Idle
  <2>2. QED  BY <2>1, FailPc, OfOne DEF RewriteReceipt, PoisonFails, Crash
<1>4. EntryOf(k) = run[r].win
  <2>1. ~Poisoned(k)  BY <1>2, CacheAssumption DEF Poisoned
  <2>2. QED  BY <1>1, <1>2, <2>1, Reading
<1>5. \A q \in Runner : run[q].pc = "rewrite" => q = r  BY <1>2, OfOne DEF Inside
<1>6. \A q \in Runner : run'[q].pc # "rewrite"  BY <1>3, <1>5 DEF Step
<1>7. /\ poison' = poison /\ \A l \in Key \ {k} : receipt'[l] = receipt[l]
      /\ \/ receipt'[k] = Mark
         \/ receipt'[k] = Torn
  <2>1. /\ poison' = poison
        /\ receipt' = receipt \/ receipt' = [receipt EXCEPT ![k] = Mark]
    BY <1>1 DEF RewriteReceipt, PoisonFails, Crash, disk
  <2>2. receipt \in [Key -> Obj \cup {None, Torn, Mark}]  BY OfOne DEF DiskOK
  <2>3. CASE receipt' = receipt  BY <1>2, <2>1, <2>3
  <2>4. CASE receipt' = [receipt EXCEPT ![k] = Mark]  BY <2>1, <2>2, <2>4
  <2>5. QED  BY <2>1, <2>3, <2>4
<1>8. ASSUME NEW l \in Key \ {k} PROVE EntryOf(l)' = EntryOf(l)
  <2>1. receipt'[l] = receipt[l] /\ (Poisoned(l)' <=> Poisoned(l))  BY <1>7 DEF Poisoned
  <2>2. CASE receipt[l] = Torn /\ ~Poisoned(l)
    <3>1. EntryOf(l) = None  BY <1>1, <1>5, <2>2, Reading
    <3>2. EntryOf(l)' = None  BY <1>6, <2>1, <2>2, ReadingAfter
    <3>3. QED  BY <3>1, <3>2
  <2>3. CASE ~(receipt[l] = Torn /\ ~Poisoned(l))
    BY <2>1, <2>3, Reading, ReadingAfter
  <2>4. QED  BY <2>2, <2>3
<1>9. NoneMoves  BY <1>3, OthersHold DEF NoneMoves
<1>10. CASE receipt'[k] = Mark
  <2>1. EntryOf(k)' = Mark  BY <1>10, ReadingAfter DEF Poisoned
  <2>2. QED  BY <1>2, <1>4, <1>8, <1>9, <2>1, Translation DEF Turns
<1>11. CASE receipt'[k] = Torn
  <2>1. ~Poisoned(k)'  BY <1>2, <1>7, <1>11, CacheAssumption DEF Poisoned
  <2>2. EntryOf(k)' = None  BY <1>6, <1>11, <2>1, ReadingAfter
  <2>3. EntryOf(k) # None  BY <1>2, <1>4, CacheAssumption
  <2>4. QED  BY <1>8, <1>9, <2>2, <2>3, Translation DEF Turns
<1>12. QED  BY <1>7, <1>10, <1>11

\* The cleanup runs under the lock: no runner is rewriting a receipt.
LEMMA Sweeping ==
  ASSUME CacheInv, NEW r \in Runner, At(r, "sweep")
  PROVE  \A q \in Runner : run[q].pc # "rewrite"
<1>1. lock = r  BY OfOne DEF At, Inside
<1>2. ASSUME NEW q \in Runner, run[q].pc = "rewrite" PROVE FALSE
  <2>1. lock = q  BY <1>2, OfOne DEF Inside
  <2>2. QED  BY <1>1, <1>2, <2>1 DEF At
<1>3. QED  BY <1>2

\* A receipt dropped because it fails, or is dominated, changes no entry.
LEMMA Tidying ==
  ASSUME CacheInv, CacheInv', NEW r \in Runner, Step(r), NEW j \in Key,
         SweepMalformed(r, j) \/ SweepDominated(r, j)
  PROVE  Same /\ NoneMoves
<1>1. /\ run[r].pc = "sweep" /\ run' = run /\ poison' = poison
      /\ receipt' = [receipt EXCEPT ![j] = None]
  BY DEF SweepMalformed, SweepDominated, At
<1>2. receipt'[j] = None /\ \A l \in Key \ {j} : receipt'[l] = receipt[l]
  BY <1>1, OfOne DEF DiskOK
<1>3. ASSUME NEW l \in Key \ {j} PROVE EntryOf(l)' = EntryOf(l)
  BY <1>1, <1>2, EntryStays
<1>4. EntryOf(j)' = EntryOf(j)
  <2>1. CASE j \in poison
    BY <1>1, <2>1, Reading, ReadingAfter DEF Poisoned
  <2>2. CASE j \notin poison
    <3>1. receipt[j] = Torn
      <4>1. j \in Malformed  BY <2>2 DEF SweepMalformed, SweepDominated, Dominated
      <4>2. receipt[j] \in Obj => receipt[j] \in artifact
        BY OfOne DEF DiskOK, ReceiptBacked
      <4>3. QED  BY <4>1, <4>2, CacheAssumption DEF Malformed, Winner
    <3>2. EntryOf(j) = None
      <4>1. ~Poisoned(j)  BY <2>2, <3>1, CacheAssumption DEF Poisoned
      <4>2. \A q \in Runner : run[q].pc # "rewrite"  BY <1>1, Sweeping DEF At
      <4>3. QED  BY <3>1, <4>1, <4>2, Reading
    <3>3. EntryOf(j)' = None
      <4>1. ~Poisoned(j)'  BY <1>1, <1>2, <2>2, CacheAssumption DEF Poisoned
      <4>2. QED  BY <1>2, <4>1, ReadingAfter, CacheAssumption
    <3>4. QED  BY <3>2, <3>3
  <2>3. QED  BY <2>1, <2>2
<1>5. Same  BY <1>3, <1>4 DEF Same
<1>6. NoneMoves  BY <1>1, OthersHold DEF NoneMoves
<1>7. QED  BY <1>5, <1>6

\* An evicted entry is forgotten.
LEMMA Evicting ==
  ASSUME CacheInv, CacheInv', NEW r \in Runner, Step(r), NEW j \in Key, Evict(r, j)
  PROVE  Cache!Next
<1>1. /\ run[r].pc = "sweep" /\ run' = run /\ poison' = poison \ {j}
      /\ receipt' = [receipt EXCEPT ![j] = None]
  BY DEF Evict, At
<1>2. receipt'[j] = None /\ \A l \in Key \ {j} : receipt'[l] = receipt[l]
  BY <1>1, OfOne DEF DiskOK
<1>3. EntryOf(j) # None
  <2>1. j \in Entries  BY DEF Evict, Evicted
  <2>2. CASE Poisoned(j)  BY <2>2, Reading, CacheAssumption
  <2>3. CASE ~Poisoned(j)
    <3>1. receipt[j] \in Obj  BY <2>1, <2>3 DEF Entries
    <3>2. QED  BY <2>3, <3>1, Reading, CacheAssumption
  <2>4. QED  BY <2>2, <2>3
<1>4. EntryOf(j)' = None
  <2>1. ~Poisoned(j)'  BY <1>1, <1>2, CacheAssumption DEF Poisoned
  <2>2. QED  BY <1>2, <2>1, ReadingAfter, CacheAssumption
<1>5. ASSUME NEW l \in Key \ {j} PROVE EntryOf(l)' = EntryOf(l)
  BY <1>1, <1>2, EntryStays
<1>6. NoneMoves  BY <1>1, OthersHold DEF NoneMoves
<1>7. QED  BY <1>3, <1>4, <1>5, <1>6, Translation DEF Turns

\* The created receipt is the key's first publication.
LEMMA Creating ==
  ASSUME CacheInv, CacheInv', NEW r \in Runner, Step(r), CreateReceipt(r)
  PROVE  Cache!Next
<1>1. run[r].pc = "receipt"  BY DEF CreateReceipt, At
<1>2. PICK k \in Key : k = run[r].key  BY <1>1, Publishing
<1>3. PICK o \in Obj : o = run[r].obj  BY <1>1, Publishing
<1>4. receipt[k] = None /\ k \notin poison  BY <1>1, <1>2, Publishing
<1>5. receipt' = [receipt EXCEPT ![k] = o] /\ Clean(r, o, "won") /\ poison' = poison
  BY <1>2, <1>3, CreateStep DEF CreateReceipt
<1>6. receipt'[k] = o /\ \A l \in Key \ {k} : receipt'[l] = receipt[l]
  BY <1>5, OfOne DEF DiskOK
<1>7. run'[r].pc = "stat"
  <2>1. "won" \in {"hit", "miss", "compare", "link", "won"} /\ run \in [Runner -> Record]
        /\ o \in Obj \cup {None}
    BY OfOne
  <2>2. Moved(r, "stat", run[r].key, run[r].obj, o, "won")  BY <1>5, <2>1, CleanMoves
  <2>3. QED  BY <2>2 DEF Moved, Put
<1>8. EntryOf(k) = None  BY <1>4, Reading, CacheAssumption DEF Poisoned
<1>9. EntryOf(k)' = o
  BY <1>4, <1>5, <1>6, ReadingAfter, CacheAssumption DEF Poisoned
<1>10. ASSUME NEW l \in Key \ {k} PROVE EntryOf(l)' = EntryOf(l)
  BY <1>1, <1>5, <1>6, <1>7, EntryStays
<1>11. NoneMoves  BY <1>1, <1>7, OthersHold DEF NoneMoves
<1>12. QED  BY <1>8, <1>9, <1>10, <1>11, Translation DEF Turns

\* A copy is still the object that was handed out.
LEMMA Copying ==
  ASSUME CacheInv, CacheInv', NEW r \in Runner, Step(r), Copy(r)
  PROVE  Same /\ NoneMoves
<1>1. run[r].pc = "copy" /\ UNCHANGED <<receipt, poison>>  BY DEF Copy, At, disk
<1>2. Moved(r, "linked", run[r].key, run[r].obj, run[r].win, run[r].next)
  <2>1. run \in [Runner -> Record] /\ "linked" \in PCs  BY OfOne DEF PCs
  <2>2. QED  BY <2>1, GotoMoves DEF Copy
<1>3. run'[r].pc = "linked" /\ run'[r].key = run[r].key /\ run'[r].win = run[r].win
  BY <1>2 DEF Moved, Put
<1>4. Same  BY <1>1, <1>3, EntryStays DEF Same
<1>5. Handed(r)' = Handed(r)  BY <1>1, <1>3 DEF Handed
<1>6. QED  BY <1>4, <1>5, OthersHold DEF NoneMoves

\* Where a runner is when it enters the cleanup.
LEMMA CleanPc ==
  ASSUME CacheInv, NEW r \in Runner, NEW w, NEW n, Clean(r, w, n)
  PROVE  run'[r].pc = "stat"
BY OfOne DEF Clean, Record

\* Every step of a runner is one of the abstract cache's, or none.
LEMMA CacheStep ==
  ASSUME CacheInv, CacheInv', NEW r \in Runner, Step(r),
         Locked(r) \/ Unlocked(r) \/ Crash(r) \/ \E k \in Key : Start(r, k)
  PROVE  Cache!Next \/ UNCHANGED Cache!vars
<1>1. Idle.pc = "idle"  BY DEF Idle
<1>2. CASE Locked(r)
  <2>1. CASE Cleanup(r)
    <3>1. CASE StatDone(r) \/ CleanDone(r) \/ \E d \in Runner : StatStaging(r, d) \/ StatVanished(r, d)
      <4>1. run[r].pc \in {"stat", "sweep"} /\ UNCHANGED <<receipt, poison>>
        BY <3>1 DEF StatDone, CleanDone, StatStaging, StatVanished, At, disk
      <4>2. run'[r].pc \notin {"rewrite", "copy", "linked"}
        <5>1. CASE StatDone(r)  BY <5>1, GotoPc DEF StatDone
        <5>2. CASE CleanDone(r)
          <6>1. PICK n : n = run[r].next  OBVIOUS
          <6>2. run'[r].pc = n  BY <5>2, <6>1, GotoPc DEF CleanDone
          <6>3. n \in {"hit", "miss", "compare", "link", "won"}
            BY <5>2, <6>1, OfOne DEF CleanDone, Own, At
          <6>4. QED  BY <6>2, <6>3
        <5>3. CASE \E d \in Runner : StatStaging(r, d)  BY <4>1, <5>3 DEF StatStaging
        <5>4. CASE \E d \in Runner : StatVanished(r, d)  BY <5>4, FailPc DEF StatVanished
        <5>5. QED  BY <3>1, <5>1, <5>2, <5>3, <5>4
      <4>3. QED  BY <4>1, <4>2, Unseen, Translation
    <3>2. CASE \E k \in Key : SweepMalformed(r, k) \/ SweepDominated(r, k)
      BY <3>2, Tidying, Translation
    <3>3. CASE \E k \in Key : Evict(r, k)  BY <3>3, Evicting
    <3>4. CASE \E o \in Obj : Collect(r, o)
      <4>1. run[r].pc = "sweep" /\ UNCHANGED <<receipt, poison, run>>  BY <3>4 DEF Collect, At
      <4>2. QED  BY <4>1, Unseen, Translation
    <3>5. QED  BY <2>1, <3>1, <3>2, <3>3, <3>4 DEF Cleanup
  <2>2. CASE Hit(r) \/ Share(r) \/ Won(r)  BY <2>2, Delivering
  <2>3. CASE Miss(r) \/ LinkObject(r) \/ LinkFails(r) \/ (PoisonFails(r) /\ run[r].pc = "compare")
    <3>1. /\ run[r].pc \in {"miss", "link", "receipt", "compare"}
          /\ UNCHANGED <<receipt, poison>>
      BY <2>3 DEF Miss, LinkObject, LinkFails, PoisonFails, At, disk
    <3>2. run'[r].pc \in {"build", "receipt", "refused"}
      BY <2>3, GotoPc, FailPc DEF Miss, LinkObject, LinkFails, PoisonFails
    <3>3. QED  BY <3>1, <3>2, Unseen, Translation
  <2>4. CASE PoisonByRename(r) \/ PoisonByMarker(r)  BY <2>4, Diverging
  <2>5. CASE Truncate(r)  BY <2>5, Truncating, Translation
  <2>6. CASE RewriteReceipt(r) \/ (PoisonFails(r) /\ run[r].pc = "rewrite")
    BY <2>6, Rewritten DEF RewriteReceipt, At
  <2>7. CASE CreateReceipt(r)  BY <2>7, Creating
  <2>8. PoisonFails(r) => run[r].pc \in {"compare", "rewrite"}  BY DEF PoisonFails, At
  <2>9. QED  BY <1>2, <2>1, <2>2, <2>3, <2>4, <2>5, <2>6, <2>7, <2>8 DEF Locked
<1>3. CASE Unlocked(r)
  <2>1. CASE Refuse(r) \/ Lookup(r) \/ Publish(r) \/ (\E o \in Obj : Build(r, o))
    <3>1. run[r].pc \in {"lookup", "publish", "build"} /\ UNCHANGED <<receipt, poison>>
      BY <2>1 DEF Refuse, Lookup, Publish, Build, At, disk
    <3>2. run'[r].pc \in {"refused", "stat", "publish"}
      <4>1. CASE Refuse(r)  BY <4>1, FailPc DEF Refuse
      <4>2. CASE Lookup(r) \/ Publish(r)
        <5>1. PICK w, n : Clean(r, w, n)  BY <4>2 DEF Lookup, Publish
        <5>2. QED  BY <5>1, CleanPc
      <4>3. CASE \E o \in Obj : Build(r, o)  BY <4>3, OfOne DEF Build, Record
      <4>4. QED  BY <2>1, <4>1, <4>2, <4>3
    <3>3. QED  BY <3>1, <3>2, Unseen, Translation
  <2>2. CASE GiveUp(r) \/ CopyGone(r) \/ Leave(r)
    <3>1. /\ run[r].pc \in {"build", "copy", "linked", "refused", "vanished", "evicted"}
          /\ UNCHANGED <<receipt, poison>>
      BY <2>2 DEF GiveUp, CopyGone, Leave, At, disk
    <3>2. run'[r].pc \in {"refused", "evicted", "idle"}
      BY <1>1, <2>2, FailPc, OfOne DEF GiveUp, CopyGone, Leave
    <3>3. QED  BY <3>1, <3>2, Unseen, Dropping, Translation
  <2>3. CASE Copy(r)  BY <2>3, Copying, Translation
  <2>4. QED  BY <1>3, <2>1, <2>2, <2>3 DEF Unlocked
<1>4. CASE Crash(r)
  <2>1. UNCHANGED <<receipt, poison>> /\ run'[r].pc = "idle"
    BY <1>1, <1>4, OfOne DEF Crash, disk
  <2>2. CASE run[r].pc = "rewrite"  BY <1>4, <2>2, Rewritten
  <2>3. CASE run[r].pc # "rewrite"  BY <2>1, <2>3, Unseen, Dropping, Translation
  <2>4. QED  BY <2>2, <2>3
<1>5. CASE \E k \in Key : Start(r, k)
  <2>1. UNCHANGED <<receipt, poison>> /\ run[r].pc = "idle" /\ run'[r].pc = "lookup"
    BY <1>5, OfOne DEF Start, disk, At, Record
  <2>2. QED  BY <2>1, Unseen, Translation
<1>6. QED  BY <1>2, <1>3, <1>4, <1>5

\* The directory implements the abstract cache, wherever runners are killed.
THEOREM SharesOneObject == Spec => SharedCache
<1>1. Init => Cache!Init
  <2> SUFFICES ASSUME Init PROVE Cache!Init  OBVIOUS
  <2>1. CacheInv  BY SafeStart
  <2>2. \A k \in Key : EntryOf(k) = None
    BY <2>1, Reading, CacheAssumption DEF Init, Poisoned
  <2>3. Idle.pc = "idle"  BY DEF Idle
  <2>4. \A r \in Runner : Handed(r) = None  BY <2>3 DEF Init, Handed
  <2>5. QED  BY <2>2, <2>4 DEF Cache!Init
<1>2. CacheInv /\ [Next]_vars => CacheInv'  BY EveryStep, Stutters
<1>3. CacheInv /\ CacheInv' /\ [Next]_vars => [Cache!Next]_(Cache!vars)
  <2>1. ASSUME CacheInv, CacheInv', Next PROVE Cache!Next \/ UNCHANGED Cache!vars
    BY <2>1, OneStep, CacheStep DEF Next
  <2>2. ASSUME UNCHANGED vars PROVE UNCHANGED Cache!vars
    <3>1. Same  BY <2>2 DEF vars, Same, EntryOf, Poisoned, Rewriting, At
    <3>2. NoneMoves  BY <2>2 DEF vars, NoneMoves, Handed
    <3>3. QED  BY <3>1, <3>2, Translation
  <2>3. QED  BY <2>1, <2>2
<1>4. QED  BY <1>1, <1>2, <1>3, Invariance, PTL DEF Spec, SharedCache, Cache!Spec
=============================================================================
