-------------------------- MODULE Compiler_proofs --------------------------
(***************************************************************************)
(* Two parts of the compiler.  The first is the code it generates for the  *)
(* fail effect (CatchStack); the second, under the last rule, is the order *)
(* it infers declarations in (SccOrder).                                   *)
(*                                                                         *)
(* What the code generated for the fail effect keeps, for any nesting of   *)
(* functions, loops and bodies and any number of frames and evidence       *)
(* structs, and that it implements CatchSpec.                              *)
(*                                                                         *)
(* Everything rests on counting: Above(a, n) is how many of the scopes     *)
(* inside the n-th catch, and Matched says that the frame of scope i is    *)
(* Above(act, i) frames from the top.  A way out of all but the outermost  *)
(* m scopes keeps that if it pops Above(act, m) frames; each action has a  *)
(* lemma that it does, which is what the three places the generated code   *)
(* pops at have to agree on.                                               *)
(*                                                                         *)
(* A break or continue out of a body pops nothing.  Theorems that exclude  *)
(* it assume ~BreakThrough; the invariant itself covers both kinds of      *)
(* program and says, of the ones that do it, that there are at least as    *)
(* many frames as scopes that catch.                                       *)
(*                                                                         *)
(* tarjan_scc is about paths.  Everything on the stack reaches what was    *)
(* numbered after it and a running call that was numbered before it; a     *)
(* lowlink is the number of something reached, and no lookup under a call  *)
(* found a lower one than the call's.  So a call that has found nothing    *)
(* lower than itself cuts off a closed and strongly connected segment.     *)
(***************************************************************************)
EXTENDS MC_Compiler, TLAPS, FiniteSetTheorems, SequenceTheorems, WellFoundedInduction

\* A set of numbers that is not empty has a least one.
LEMMA Smallest ==
  ASSUME NEW S, S \subseteq Nat, S # {}
  PROVE  \E i \in S : \A j \in S : i <= j
<1> DEFINE Less == {p \in Nat \X Nat : p[1] < p[2]}
<1>1. IsWellFoundedOn(Less, Nat)
  <2>1. OpToRel(<, Nat) = Less  BY DEF OpToRel
  <2>2. QED  BY <2>1, NatLessThanWellFounded
<1>2. PICK i \in S : \A j \in S : ~(<<j, i>> \in Less)
  <2> HIDE DEF Less
  <2>1. QED  BY <1>1, WFMin
<1>3. ASSUME NEW j \in S, j < i PROVE FALSE
  <2>1. <<j, i>> \in Less  BY <1>3
  <2>2. QED  BY <1>2, <2>1
<1>4. \A j \in S : i \in Nat /\ j \in Nat /\ ~(j < i)  BY <1>3
<1>5. \A j \in S : i <= j  BY <1>4
<1>6. QED  BY <1>5

\* A set of indices that is not empty has a largest one.
LEMMA Largest ==
  ASSUME NEW n \in Nat, NEW S, S \subseteq 1..n, S # {}
  PROVE  \E i \in S : \A j \in S : j <= i
<1> DEFINE Above == {m \in Nat : \A j \in S : j <= m}
<1>1. n \in Above  OBVIOUS
<1>2. PICK i \in Above : \A m \in Above : i <= m
  <2> HIDE DEF Above
  <2>1. Above \subseteq Nat  BY DEF Above
  <2>2. QED  BY <1>1, <2>1, Smallest
<1>3. i \in S
  <2> SUFFICES ASSUME i \notin S PROVE FALSE  OBVIOUS
  <2>1. PICK j \in S : TRUE  OBVIOUS
  <2>2. i \in Nat /\ i # 0 /\ \A k \in S : k <= i - 1  BY <2>1
  <2>3. i - 1 \in Above  BY <2>2
  <2>4. QED  BY <1>2, <2>2, <2>3
<1>4. QED  BY <1>2, <1>3

-----------------------------------------------------------------------------
(* The scopes that catch, counted from the inside.                         *)

\* What can be on the stack of activations.
Activation ==
    {a \in [kind : {"fn", "loop", "body"}, frame : Frame \cup {None}, evs : SUBSET Evidence] :
        a.kind # "body" => a.frame = None /\ a.evs = {}}

\* The scopes inside the n-th that catch, and how many they are.
Catching(a, n) == {i \in n + 1 .. Len(a) : a[i].frame # None}
Above(a, n) == Cardinality(Catching(a, n))

\* Indices are finite in number.
LEMMA AboveNat ==
  ASSUME NEW a \in Seq(Activation), NEW n \in Nat
  PROVE  IsFiniteSet(Catching(a, n)) /\ Above(a, n) \in Nat
<1>1. IsFiniteSet(n + 1 .. Len(a))  BY FS_Interval
<1>2. Catching(a, n) \in SUBSET (n + 1 .. Len(a))  BY DEF Catching
<1>3. QED  BY <1>1, <1>2, FS_Subset, FS_CardinalityType DEF Above

\* A catching scope adds one to those outside it, any other scope none.
LEMMA AboveStep ==
  ASSUME NEW a \in Seq(Activation), NEW n \in 1 .. Len(a)
  PROVE  Above(a, n - 1) = IF a[n].frame # None THEN Above(a, n) + 1 ELSE Above(a, n)
<1>1. n \in Nat /\ n # 0 /\ Len(a) \in Nat  OBVIOUS
<1>2. n - 1 + 1 .. Len(a) = (n + 1 .. Len(a)) \cup {n} /\ n \notin n + 1 .. Len(a)  BY <1>1
<1>3. CASE a[n].frame # None
  <2>1. Catching(a, n - 1) = Catching(a, n) \cup {n} /\ n \notin Catching(a, n)
    BY <1>2, <1>3 DEF Catching
  <2>2. QED  BY <1>1, <1>3, <2>1, AboveNat, FS_AddElement DEF Above
<1>4. CASE a[n].frame = None
  <2>1. Catching(a, n - 1) = Catching(a, n)  BY <1>2, <1>4 DEF Catching
  <2>2. QED  BY <1>4, <2>1 DEF Above
<1>5. QED  BY <1>3, <1>4

\* Further out there are no fewer.
LEMMA AboveMore ==
  ASSUME NEW a \in Seq(Activation), NEW n \in Nat, NEW m \in Nat, n <= m
  PROVE  Above(a, m) <= Above(a, n)
<1>1. Catching(a, m) \in SUBSET Catching(a, n)  BY DEF Catching
<1>2. QED  BY <1>1, AboveNat, FS_Subset DEF Above

\* The innermost scope has none inside it.
LEMMA AboveTop ==
  ASSUME NEW a \in Seq(Activation), NEW n \in Nat
  PROVE  Above(a, n) = 0 <=> \A i \in n + 1 .. Len(a) : a[i].frame = None
<1>1. Above(a, n) = 0 <=> Catching(a, n) = {}  BY AboveNat, FS_EmptySet DEF Above
<1>2. QED  BY <1>1 DEF Catching

\* The scopes inside n-th are those of the first m inside it, and those inside
\* the m-th.
LEMMA AboveSplit ==
  ASSUME NEW a \in Seq(Activation), NEW m \in 0 .. Len(a), NEW n \in 0 .. m
  PROVE  Above(a, n) = Above(SubSeq(a, 1, m), n) + Above(a, m)
<1> DEFINE b == SubSeq(a, 1, m)
<1>1. /\ b \in Seq(Activation) /\ Len(b) = m /\ Len(a) \in Nat /\ m \in Nat /\ n \in Nat
      /\ \A i \in 1 .. m : b[i] = a[i]
  BY SubSeqProperties
<1> HIDE DEF b
<1>2. n + 1 .. Len(a) = (n + 1 .. m) \cup (m + 1 .. Len(a))  BY <1>1
<1>3. Catching(a, n) = Catching(b, n) \cup Catching(a, m)
  BY <1>1, <1>2 DEF Catching
<1>4. Catching(b, n) \cap Catching(a, m) = {}  BY <1>1 DEF Catching
<1>5. /\ IsFiniteSet(Catching(b, n)) /\ IsFiniteSet(Catching(a, m))
      /\ Above(b, n) \in Nat /\ Above(a, m) \in Nat
  BY <1>1, AboveNat
<1>6. Cardinality(Catching(a, n)) =
        Cardinality(Catching(b, n)) + Cardinality(Catching(a, m)) - Cardinality({})
  BY <1>3, <1>4, <1>5, FS_Union
<1>7. Above(a, n) = Above(b, n) + Above(a, m)  BY <1>5, <1>6, FS_EmptySet DEF Above
<1>8. QED  BY <1>7 DEF b

\* A scope that is entered counts for all outside it.
LEMMA AboveAppend ==
  ASSUME NEW a \in Seq(Activation), NEW x \in Activation, NEW n \in 0 .. Len(a)
  PROVE  Above(Append(a, x), n) = IF x.frame # None THEN Above(a, n) + 1 ELSE Above(a, n)
<1> DEFINE b == Append(a, x)  k == Len(a)
<1>1. /\ b \in Seq(Activation) /\ Len(b) = k + 1 /\ b[k + 1] = x /\ k \in Nat
      /\ n \in Nat
  BY AppendProperties
<1>2. SubSeq(b, 1, k) = a  BY AppendProperties, SubSeqProperties
<1>3. Above(b, n) = Above(a, n) + Above(b, k)
  <2>1. k \in 0 .. Len(b) /\ n \in 0 .. k  BY <1>1
  <2> HIDE DEF b, k
  <2>2. QED  BY <1>1, <1>2, <2>1, AboveSplit
<1> HIDE DEF b, k
<1>4. Above(b, k + 1) = 0  BY <1>1, AboveTop
<1>5. Above(b, k + 1 - 1) = IF x.frame # None THEN Above(b, k + 1) + 1 ELSE Above(b, k + 1)
  BY <1>1, AboveStep
<1>6. Above(a, n) \in Nat /\ k + 1 - 1 = k  BY <1>1, AboveNat
<1>7. QED  BY <1>3, <1>4, <1>5, <1>6 DEF b

\* What the model counts in a stretch of scopes is what is inside its start.
LEMMA Counted ==
  ASSUME NEW a \in Seq(Activation), NEW n \in 0 .. Len(a)
  PROVE  CatchesIn(SubSeq(a, n + 1, Len(a))) = Above(a, n)
<1> DEFINE b == SubSeq(a, n + 1, Len(a))
           S == {i \in DOMAIN b : b[i].frame # None}
           f == [i \in S |-> i + n]
<1>1. /\ Len(a) \in Nat /\ n \in Nat /\ DOMAIN b = 1 .. Len(a) - n
      /\ \A i \in 1 .. Len(a) - n : b[i] = a[n + i]
  <2>1. CASE n = Len(a)
    <3>1. 1 .. Len(a) - n = {} /\ Len(a) \in Nat  BY <2>1
    <3>2. b = << >>  BY <2>1, SubSeqProperties
    <3>3. QED  BY <3>1, <3>2
  <2>2. CASE n < Len(a)
    <3>1. n + 1 \in 1 .. Len(a) + 1 /\ Len(a) \in n .. Len(a) /\ n + 1 + 0 = n + 1  OBVIOUS
    <3>2. b = [i \in 1 .. Len(a) - (n + 1) + 1 |-> a[i + (n + 1) - 1]]  OBVIOUS
    <3>3. QED  BY <3>1, <3>2
  <2>3. QED  BY <2>1, <2>2
<1> HIDE DEF b
<1>2. f \in Bijection(S, Catching(a, n))
  <2>1. ASSUME NEW i \in S PROVE f[i] \in Catching(a, n)
    BY <1>1 DEF Catching
  <2>2. ASSUME NEW i \in S, NEW j \in S, f[i] = f[j] PROVE i = j
    BY <1>1, <2>2
  <2>3. ASSUME NEW j \in Catching(a, n) PROVE \E i \in S : f[i] = j
    <3>1. j \in n + 1 .. Len(a) /\ a[j].frame # None  BY DEF Catching
    <3>2. j - n \in 1 .. Len(a) - n /\ n + (j - n) = j  BY <1>1, <3>1
    <3>3. j - n \in S  BY <1>1, <3>1, <3>2
    <3>4. QED  BY <1>1, <3>2, <3>3
  <2>4. f \in [S -> Catching(a, n)]
    <3>1. f = [i \in S |-> f[i]]  OBVIOUS
    <3> HIDE DEF f
    <3>2. QED  BY <2>1, <3>1
  <2> HIDE DEF f
  <2>5. f \in Injection(S, Catching(a, n))  BY <2>2, <2>4 DEF Injection, IsInjective
  <2>6. f \in Surjection(S, Catching(a, n))  BY <2>3, <2>4 DEF Surjection
  <2>7. QED  BY <2>5, <2>6 DEF Bijection
<1> HIDE DEF f, S
<1>3. IsFiniteSet(S)
  <2>1. IsFiniteSet(1 .. Len(a) - n)  BY <1>1, FS_Interval
  <2>2. S \in SUBSET (1 .. Len(a) - n)  BY <1>1 DEF S
  <2>3. QED  BY <2>1, <2>2, FS_Subset
<1>4. ExistsBijection(S, Catching(a, n))  BY <1>2 DEF ExistsBijection
<1>5. Cardinality(S) = Cardinality(Catching(a, n))  BY <1>3, <1>4, FS_Bijection
<1>6. CatchesIn(b) = Cardinality(S)  BY DEF CatchesIn, S
<1>7. QED  BY <1>5, <1>6 DEF b, Above

\* All of them.
LEMMA CountedAll ==
  ASSUME NEW a \in Seq(Activation)
  PROVE  CatchesIn(a) = Above(a, 0)
<1>1. SubSeq(a, 0 + 1, Len(a)) = a  BY SubSeqProperties
<1>2. 0 \in 0 .. Len(a)  OBVIOUS
<1>3. CatchesIn(SubSeq(a, 0 + 1, Len(a))) = Above(a, 0)  BY <1>2, Counted
<1>4. QED  BY <1>1, <1>3

-----------------------------------------------------------------------------
(* The frames of a stack of scopes.                                        *)

\* The frames are those of the scopes that catch, innermost on top, and no
\* frame is there twice.
Matched(a, fr) ==
  /\ Len(fr) = Above(a, 0)
  /\ \A i \in 1 .. Len(a) : a[i].frame # None => fr[Above(a, i) + 1] = a[i].frame
  /\ \A p, q \in 1 .. Len(fr) : fr[p] = fr[q] => p = q

\* What pops leave on a stack.
LEMMA Popped ==
  ASSUME NEW S, NEW s \in Seq(S), NEW k \in 0 .. Len(s)
  PROVE  LET t == SubSeq(s, k + 1, Len(s))
         IN  /\ t \in Seq(S) /\ Len(t) = Len(s) - k /\ DOMAIN t = 1 .. Len(s) - k
             /\ \A i \in 1 .. Len(s) - k : t[i] = s[k + i]
<1>1. k \in Nat /\ Len(s) \in Nat /\ k <= Len(s)  OBVIOUS
<1>2. CASE k = Len(s)
  <2>1. SubSeq(s, k + 1, Len(s)) = << >>  BY <1>1, <1>2, SubSeqEmpty
  <2>2. 1 .. Len(s) - k = {}  BY <1>1, <1>2
  <2>3. QED  BY <1>2, <2>1, <2>2
<1>3. CASE k < Len(s)
  <2>1. \A i \in k + 1 .. Len(s) : s[i] \in S  BY <1>1
  <2>2. /\ SubSeq(s, k + 1, Len(s)) \in Seq(S)
        /\ Len(SubSeq(s, k + 1, Len(s))) = IF k + 1 <= Len(s) THEN Len(s) - (k + 1) + 1 ELSE 0
        /\ \A i \in 1 .. Len(s) - (k + 1) + 1 : SubSeq(s, k + 1, Len(s))[i] = s[(k + 1) + i - 1]
    BY <1>1, <2>1, SubSeqProperties
  <2>3. Len(s) - (k + 1) + 1 = Len(s) - k /\ k + 1 <= Len(s)  BY <1>1, <1>3
  <2>4. \A i \in 1 .. Len(s) - k : (k + 1) + i - 1 = k + i  BY <1>1
  <2>5. QED  BY <2>2, <2>3, <2>4
<1>4. QED  BY <1>1, <1>2, <1>3

\* The outermost scopes of a stack.
LEMMA Outer ==
  ASSUME NEW S, NEW a \in Seq(S), NEW m \in 0 .. Len(a)
  PROVE  LET b == SubSeq(a, 1, m)
         IN  /\ b \in Seq(S) /\ Len(b) = m /\ DOMAIN b = 1 .. m
             /\ \A i \in 1 .. m : b[i] = a[i]
<1>1. m \in Nat /\ Len(a) \in Nat /\ m <= Len(a)  OBVIOUS
<1>2. \A i \in 1 .. m : a[i] \in S  BY <1>1
<1>3. /\ SubSeq(a, 1, m) \in Seq(S)
      /\ Len(SubSeq(a, 1, m)) = IF 1 <= m THEN m - 1 + 1 ELSE 0
      /\ \A i \in 1 .. m - 1 + 1 : SubSeq(a, 1, m)[i] = a[1 + i - 1]
  BY <1>1, <1>2, SubSeqProperties
<1>4. m - 1 + 1 = m /\ \A i \in 1 .. m : 1 + i - 1 = i  BY <1>1
<1>5. Len(SubSeq(a, 1, m)) = m  BY <1>1, <1>3, <1>4
<1>6. QED  BY <1>3, <1>4, <1>5

\* Leaving all but the outermost m scopes with one pop for each that catches.
LEMMA MatchedLeave ==
  ASSUME NEW a \in Seq(Activation), NEW fr \in Seq(Frame), Matched(a, fr),
         NEW m \in 0 .. Len(a)
  PROVE  Matched(SubSeq(a, 1, m), SubSeq(fr, Above(a, m) + 1, Len(fr)))
<1> DEFINE b == SubSeq(a, 1, m)  k == Above(a, m)  fs == SubSeq(fr, k + 1, Len(fr))
<1>1. /\ b \in Seq(Activation) /\ Len(b) = m /\ m \in Nat /\ Len(a) \in Nat
      /\ \A i \in 1 .. m : b[i] = a[i]
  BY Outer
<1>2. k \in Nat /\ Len(fr) \in Nat /\ Len(fr) = Above(a, 0) /\ k <= Len(fr)
  BY <1>1, AboveNat, AboveMore DEF Matched
<1>3. \A n \in 0 .. m : Above(a, n) = Above(b, n) + k  BY AboveSplit
<1>4. \A n \in 0 .. m : Above(b, n) \in Nat /\ Above(a, n) \in Nat
  <2> HIDE DEF b
  <2> TAKE n \in 0 .. m
  <2>1. n \in Nat  BY <1>1
  <2>2. QED  BY <1>1, <2>1, AboveNat
<1>5. Len(fs) = Len(fr) - k /\ \A i \in 1 .. Len(fr) - k : fs[i] = fr[k + i]
  BY <1>2, Popped
<1> HIDE DEF b, k, fs
<1>6. Len(fs) = Above(b, 0)  BY <1>1, <1>2, <1>3, <1>4, <1>5
<1>7. ASSUME NEW i \in 1 .. Len(b), b[i].frame # None
      PROVE  fs[Above(b, i) + 1] = b[i].frame
  <2>1. i \in 1 .. m /\ i \in 1 .. Len(a) /\ a[i].frame # None /\ b[i] = a[i]
        /\ i - 1 \in 0 .. m /\ i \in 0 .. m
    BY <1>1, <1>7
  <2>2. fr[Above(a, i) + 1] = a[i].frame  BY <2>1 DEF Matched
  <2>3. Above(b, i - 1) = Above(b, i) + 1  BY <1>1, <1>7, AboveStep
  <2>4. Above(b, i - 1) <= Above(b, 0)  BY <1>1, <2>1, AboveMore
  <2>5. Above(b, i) + 1 \in 1 .. Len(fr) - k  BY <1>2, <1>4, <1>5, <1>6, <2>1, <2>3, <2>4
  <2>6. fs[Above(b, i) + 1] = fr[k + (Above(b, i) + 1)]  BY <1>5, <2>5
  <2>7. k + (Above(b, i) + 1) = Above(a, i) + 1  BY <1>2, <1>3, <1>4, <2>1
  <2>8. QED  BY <2>1, <2>2, <2>6, <2>7
<1>8. ASSUME NEW p \in 1 .. Len(fs), NEW q \in 1 .. Len(fs), fs[p] = fs[q]
      PROVE  p = q
  <2>1. k + p \in 1 .. Len(fr) /\ k + q \in 1 .. Len(fr) /\ fr[k + p] = fr[k + q]
    BY <1>2, <1>5, <1>8
  <2>2. k + p = k + q  BY <2>1 DEF Matched
  <2>3. QED  BY <1>2, <2>2
<1>9. Matched(b, fs)  BY <1>6, <1>7, <1>8 DEF Matched
<1>10. QED  BY <1>9 DEF b, k, fs

\* Entering a scope that does not catch.
LEMMA MatchedEnter ==
  ASSUME NEW a \in Seq(Activation), NEW fr \in Seq(Frame), Matched(a, fr),
         NEW x \in Activation, x.frame = None
  PROVE  Matched(Append(a, x), fr)
<1> DEFINE b == Append(a, x)  k == Len(a)
<1>1. /\ b \in Seq(Activation) /\ Len(b) = k + 1 /\ b[k + 1] = x /\ k \in Nat
      /\ \A i \in 1 .. k : b[i] = a[i]
  BY AppendProperties
<1>2. \A n \in 0 .. k : Above(b, n) = Above(a, n)  BY AboveAppend
<1> HIDE DEF b
<1>3. ASSUME NEW i \in 1 .. Len(b), b[i].frame # None
      PROVE  fr[Above(b, i) + 1] = b[i].frame
  <2>1. i \in 1 .. k  BY <1>1, <1>3
  <2>2. i \in 0 .. k /\ b[i] = a[i]  BY <1>1, <2>1
  <2>3. QED  BY <1>2, <1>3, <2>1, <2>2 DEF Matched
<1>4. Above(b, 0) = Above(a, 0)  BY <1>1, <1>2
<1>5. Matched(b, fr)  BY <1>3, <1>4 DEF Matched
<1>6. QED  BY <1>5 DEF b

\* Entering one that does, with a frame that is on top of the stack and
\* nowhere else on it.
LEMMA MatchedPush ==
  ASSUME NEW a \in Seq(Activation), NEW fr \in Seq(Frame), Matched(a, fr),
         NEW x \in Activation, x.frame \in Frame \ Range(fr)
  PROVE  Matched(Append(a, x), <<x.frame>> \o fr)
<1> DEFINE b == Append(a, x)  k == Len(a)  fs == <<x.frame>> \o fr
<1>1. /\ b \in Seq(Activation) /\ Len(b) = k + 1 /\ b[k + 1] = x /\ k \in Nat
      /\ \A i \in 1 .. k : b[i] = a[i]
  BY AppendProperties
<1>2. x.frame # None  BY CatchAssumption
<1>3. \A n \in 0 .. k : Above(b, n) = Above(a, n) + 1 /\ Above(a, n) \in Nat
  <2> TAKE n \in 0 .. k
  <2>1. n \in Nat  BY <1>1
  <2>2. QED  BY <1>2, <2>1, AboveAppend, AboveNat
<1>4. Above(b, k + 1) = 0
  <2> HIDE DEF b
  <2>1. (k + 1) + 1 .. Len(b) = {} /\ k + 1 \in Nat  BY <1>1
  <2>2. QED  BY <1>1, <2>1, AboveTop
<1>5. /\ Len(fs) = Len(fr) + 1 /\ fs[1] = x.frame /\ Len(fr) \in Nat
      /\ \A p \in 1 .. Len(fr) : fs[p + 1] = fr[p]
  <2>1. <<x.frame>> \in Seq(Frame) /\ Len(<<x.frame>>) = 1 /\ <<x.frame>>[1] = x.frame
    OBVIOUS
  <2>2. /\ Len(fs) = 1 + Len(fr)
        /\ \A i \in 1 .. 1 + Len(fr) : fs[i] = IF i <= 1 THEN <<x.frame>>[i] ELSE fr[i - 1]
    BY <2>1, ConcatProperties
  <2>3. Len(fr) \in Nat  OBVIOUS
  <2> HIDE DEF fs
  <2>4. fs[1] = x.frame  BY <2>1, <2>2, <2>3
  <2>5. ASSUME NEW p \in 1 .. Len(fr) PROVE fs[p + 1] = fr[p]
    <3>1. p + 1 \in 1 .. 1 + Len(fr) /\ ~(p + 1 <= 1) /\ p + 1 - 1 = p  BY <2>3
    <3>2. QED  BY <2>2, <3>1
  <2>6. QED  BY <2>2, <2>3, <2>4, <2>5
<1>6. \A p \in 1 .. Len(fr) : fr[p] # x.frame  BY DEF Range
<1> HIDE DEF b, fs, k
<1>7. Len(fs) = Above(b, 0)  BY <1>1, <1>3, <1>5 DEF Matched
<1>8. ASSUME NEW i \in 1 .. Len(b), b[i].frame # None
      PROVE  fs[Above(b, i) + 1] = b[i].frame
  <2>1. CASE i = k + 1  BY <1>1, <1>4, <1>5, <2>1
  <2>2. CASE i # k + 1
    <3>1. i \in 1 .. k /\ i \in 0 .. k /\ i \in 1 .. Len(a) /\ b[i] = a[i]
          /\ i - 1 \in 0 .. k /\ i - 1 \in Nat
      BY <1>1, <2>2 DEF k
    <3>2. fr[Above(a, i) + 1] = a[i].frame  BY <1>8, <3>1 DEF Matched
    <3>3. Above(a, i - 1) = Above(a, i) + 1  BY <1>8, <3>1, AboveStep
    <3>4. Above(a, i - 1) <= Len(fr)  BY <3>1, AboveMore DEF Matched
    <3>5. Above(a, i) + 1 \in 1 .. Len(fr)  BY <1>3, <1>5, <3>1, <3>3, <3>4
    <3>6. Above(b, i) = Above(a, i) + 1  BY <1>3, <3>1
    <3>7. QED  BY <1>5, <3>1, <3>2, <3>5, <3>6
  <2>3. QED  BY <2>1, <2>2
<1>9. ASSUME NEW p \in 1 .. Len(fs), NEW q \in 1 .. Len(fs), fs[p] = fs[q]
      PROVE  p = q
  <2>1. \A r \in 1 .. Len(fs) : r = 1 \/ (r - 1 \in 1 .. Len(fr) /\ fs[r] = fr[r - 1])
    <3> TAKE r \in 1 .. Len(fs)
    <3>1. CASE r # 1
      <4>1. r - 1 \in 1 .. Len(fr) /\ r - 1 + 1 = r  BY <1>5, <3>1
      <4>2. QED  BY <1>5, <4>1
    <3>2. QED  BY <3>1
  <2>2. CASE p = 1  BY <1>5, <1>6, <1>9, <2>1, <2>2
  <2>3. CASE q = 1  BY <1>5, <1>6, <1>9, <2>1, <2>3
  <2>4. CASE p # 1 /\ q # 1
    <3>1. p - 1 = q - 1  BY <1>9, <2>1, <2>4 DEF Matched
    <3>2. QED  BY <1>5, <3>1
  <2>5. QED  BY <2>2, <2>3, <2>4
<1>10. Matched(b, fs)  BY <1>7, <1>8, <1>9 DEF Matched
<1>11. QED  BY <1>10 DEF b, fs

\* The frame on top is the one of the innermost scope that catches, and of no
\* other.
LEMMA TopFrame ==
  ASSUME NEW a \in Seq(Activation), NEW fr \in Seq(Frame), Matched(a, fr), fr # << >>
  PROVE  /\ \E n \in 1 .. Len(a) : a[n].frame = fr[1]
         /\ \A n \in 1 .. Len(a) :
                a[n].frame = fr[1] => Above(a, n) = 0 /\ Above(a, n - 1) = 1
<1>1. Len(fr) \in Nat /\ Len(fr) # 0 /\ 1 \in 1 .. Len(fr) /\ fr[1] # None /\ Len(a) \in Nat
  BY CatchAssumption
<1>2. ASSUME NEW n \in 1 .. Len(a), a[n].frame = fr[1]
      PROVE  Above(a, n) = 0 /\ Above(a, n - 1) = 1
  <2>1. fr[Above(a, n) + 1] = fr[1]  BY <1>1, <1>2 DEF Matched
  <2>2. /\ n \in Nat /\ n - 1 \in Nat /\ 0 <= n - 1 /\ Above(a, n) \in Nat
        /\ Above(a, n - 1) <= Above(a, 0)
    <3>1. n \in Nat /\ n - 1 \in Nat /\ 0 <= n - 1  OBVIOUS
    <3>2. QED  BY <3>1, AboveNat, AboveMore
  <2>3. Above(a, n - 1) = Above(a, n) + 1  BY <1>1, <1>2, AboveStep
  <2>4. Above(a, n) + 1 \in 1 .. Len(fr)  BY <1>1, <2>2, <2>3 DEF Matched
  <2>5. Above(a, n) + 1 = 1  BY <1>1, <2>1, <2>4 DEF Matched
  <2>6. QED  BY <2>2, <2>3, <2>5
<1>3. \E n \in 1 .. Len(a) : a[n].frame = fr[1]
  <2>1. Catching(a, 0) # {}
    <3>1. Above(a, 0) # 0  BY <1>1 DEF Matched
    <3>2. QED  BY <3>1, FS_EmptySet DEF Above
  <2>2. Catching(a, 0) \subseteq 1 .. Len(a)  BY DEF Catching
  <2>3. PICK n \in Catching(a, 0) : \A j \in Catching(a, 0) : j <= n
    BY <1>1, <2>1, <2>2, Largest
  <2>4. n \in 1 .. Len(a) /\ n \in Nat /\ a[n].frame # None  BY DEF Catching
  <2>5. \A i \in n + 1 .. Len(a) : a[i].frame = None
    <3> SUFFICES ASSUME NEW i \in n + 1 .. Len(a), a[i].frame # None PROVE FALSE  OBVIOUS
    <3>1. i \in Catching(a, 0) /\ ~(i <= n)  BY <2>4 DEF Catching
    <3>2. QED  BY <2>3, <3>1
  <2>6. Above(a, n) = 0  BY <2>4, <2>5, AboveTop
  <2>7. QED  BY <2>4, <2>6 DEF Matched
<1>4. QED  BY <1>2, <1>3

-----------------------------------------------------------------------------
(* What holds of a running program, and what is left of it on a way out.   *)

\* Every scope's evidence is live, and its own.
Backed(a, lv) ==
  \A i, j \in 1 .. Len(a) :
    a[i].evs \subseteq lv /\ (i # j => a[i].evs \cap a[j].evs = {})

\* The program is in a function, has a frame for each scope that catches and
\* the evidence of each scope; and without breaks through bodies the frames are
\* the right ones.
Sound(a, fr, lv) ==
  /\ a \in Seq(Activation) /\ fr \in Seq(Frame) /\ lv \in SUBSET Evidence
  /\ a # << >> /\ a[1].kind = "fn"
  /\ Above(a, 0) <= Len(fr)
  /\ Backed(a, lv)
  /\ ~BreakThrough => Matched(a, fr)

\* Of all that is left, this has been released: everything, or, where a raise
\* landed, the evidence of the body it landed in.
Released(a, m, gone) ==
  \A i \in (IF a[m + 1].kind = "body" THEN {m + 1} ELSE m + 1 .. Len(a)) :
    a[i].evs \subseteq gone

\* A way out of all but the outermost m scopes, with k pops and some evidence
\* dropped.
WayOut(a, lv, m, k, gone) ==
  /\ m \in 0 .. Len(a) - 1 /\ k \in Nat /\ k <= Above(a, m)
  /\ gone \in SUBSET lv /\ \A i \in 1 .. m : a[i].evs \cap gone = {}
  /\ ~BreakThrough => k = Above(a, m) /\ Released(a, m, gone)

\* The invariant.
StackInv ==
  /\ act \in Seq(Activation) /\ frames \in Seq(Frame) /\ live \in SUBSET Evidence
  /\ status \in {"run", "done", "panic", "stray"}
  /\ Running => Sound(act, frames, live)

\* The outermost scopes' share of the evidence is the same.
LEMMA BackedLeave ==
  ASSUME NEW a \in Seq(Activation), NEW lv, Backed(a, lv), NEW m \in 0 .. Len(a),
         NEW gone, \A i \in 1 .. m : a[i].evs \cap gone = {}
  PROVE  Backed(SubSeq(a, 1, m), lv \ gone)
<1> DEFINE b == SubSeq(a, 1, m)
<1>1. /\ Len(b) = m /\ \A i \in 1 .. m : b[i] = a[i]
      /\ \A i \in 1 .. m : i \in 1 .. Len(a)
  BY Outer
<1> HIDE DEF b
<1>2. Backed(b, lv \ gone)
  <2> SUFFICES ASSUME NEW i \in 1 .. m, NEW j \in 1 .. m
               PROVE  /\ a[i].evs \subseteq lv \ gone
                      /\ i # j => a[i].evs \cap a[j].evs = {}
    BY <1>1 DEF Backed
  <2>1. i \in 1 .. Len(a) /\ j \in 1 .. Len(a)  BY <1>1
  <2>2. a[i].evs \subseteq lv /\ (i # j => a[i].evs \cap a[j].evs = {})  BY <2>1 DEF Backed
  <2>3. QED  BY <2>2
<1>3. QED  BY <1>2 DEF b

\* A way out has its frames, and leaves a sound program if it leaves any.
LEMMA SoundLeave ==
  ASSUME NEW a, NEW fr, NEW lv, Sound(a, fr, lv),
         NEW m, NEW k, NEW gone, WayOut(a, lv, m, k, gone)
  PROVE  /\ k <= Len(fr) /\ SubSeq(a, 1, m) \in Seq(Activation)
         /\ SubSeq(fr, k + 1, Len(fr)) \in Seq(Frame)
         /\ m = 0 <=> SubSeq(a, 1, m) = << >>
         /\ m # 0 => Sound(SubSeq(a, 1, m), SubSeq(fr, k + 1, Len(fr)), lv \ gone)
<1> DEFINE b == SubSeq(a, 1, m)  fs == SubSeq(fr, k + 1, Len(fr))
<1>1. /\ a \in Seq(Activation) /\ fr \in Seq(Frame) /\ Len(a) \in Nat /\ Len(fr) \in Nat
      /\ Above(a, 0) <= Len(fr) /\ Backed(a, lv) /\ m \in 0 .. Len(a) /\ m \in Nat
      /\ k \in Nat /\ k <= Above(a, m) /\ a[1].kind = "fn" /\ lv \in SUBSET Evidence
  BY DEF Sound, WayOut
<1>2. /\ b \in Seq(Activation) /\ Len(b) = m /\ \A i \in 1 .. m : b[i] = a[i]
  BY <1>1, Outer
<1>3. Above(a, 0) = Above(b, 0) + Above(a, m)  BY <1>1, AboveSplit
<1>4. Above(a, 0) \in Nat /\ Above(a, m) \in Nat  BY <1>1, AboveNat
<1>5. Above(b, 0) \in Nat
  <2> HIDE DEF b
  <2>1. QED  BY <1>2, AboveNat
<1>6. k <= Len(fr) /\ k \in 0 .. Len(fr)  BY <1>1, <1>3, <1>4, <1>5
<1>7. fs \in Seq(Frame) /\ Len(fs) = Len(fr) - k  BY <1>1, <1>6, Popped
<1>8. Backed(b, lv \ gone)  BY <1>1, BackedLeave DEF WayOut
<1>9. ASSUME ~BreakThrough PROVE Matched(b, fs)
  <2>1. k = Above(a, m) /\ Matched(a, fr)  BY <1>9 DEF WayOut, Sound
  <2>2. QED  BY <1>1, <2>1, MatchedLeave
<1> HIDE DEF b, fs
<1>10. m = 0 <=> b = << >>  BY <1>2
<1>11. ASSUME m # 0 PROVE Sound(b, fs, lv \ gone)
  <2>1. 1 \in 1 .. m  BY <1>1, <1>11
  <2>2. b[1].kind = "fn"  BY <1>1, <1>2, <2>1
  <2>3. Above(b, 0) <= Len(fs)  BY <1>1, <1>3, <1>4, <1>5, <1>6, <1>7
  <2>4. QED  BY <1>1, <1>2, <1>7, <1>8, <1>9, <1>10, <1>11, <2>2, <2>3 DEF Sound
<1>12. QED  BY <1>2, <1>6, <1>7, <1>10, <1>11 DEF b, fs

\* A program that leaves scopes on a way out.
Leaves ==
  \E m \in 0 .. Len(act) - 1, k \in Nat, gone \in SUBSET live :
    WayOut(act, live, m, k, gone) /\ LeaveTo(SubSeq(act, 1, m), k, gone)

\* It goes on soundly.
LEMMA LeavesKeeps ==
  ASSUME StackInv, Running, Leaves
  PROVE  StackInv'
<1>1. PICK a, fr, lv : a = act /\ fr = frames /\ lv = live  OBVIOUS
<1>2. PICK m \in 0 .. Len(act) - 1, k \in Nat, gone \in SUBSET live :
        WayOut(act, live, m, k, gone) /\ LeaveTo(SubSeq(act, 1, m), k, gone)
  BY DEF Leaves
<1>3. Sound(a, fr, lv) /\ WayOut(a, lv, m, k, gone)  BY <1>1, <1>2 DEF StackInv
<1>4. /\ act' = SubSeq(a, 1, m) /\ frames' = SubSeq(fr, k + 1, Len(fr)) /\ live' = lv \ gone
      /\ status' = CASE ~(k <= Len(fr) /\ gone \subseteq lv) -> "fault"
                     [] SubSeq(a, 1, m) = << >> -> "done"
                     [] OTHER -> status
  BY <1>1, <1>2 DEF LeaveTo
<1>5. /\ k <= Len(fr) /\ SubSeq(a, 1, m) \in Seq(Activation)
      /\ SubSeq(fr, k + 1, Len(fr)) \in Seq(Frame)
      /\ m = 0 <=> SubSeq(a, 1, m) = << >>
      /\ m # 0 => Sound(SubSeq(a, 1, m), SubSeq(fr, k + 1, Len(fr)), lv \ gone)
  BY <1>3, SoundLeave
<1>6. gone \subseteq lv /\ lv \in SUBSET Evidence  BY <1>3 DEF WayOut, Sound
<1>7. status' = IF SubSeq(a, 1, m) = << >> THEN "done" ELSE "run"
  BY <1>4, <1>5, <1>6 DEF Running
<1>8. Running' => Sound(act', frames', live')  BY <1>4, <1>5, <1>7 DEF Running
<1>9. live' \in SUBSET Evidence /\ status' \in {"run", "done", "panic", "stray"}
  BY <1>4, <1>6, <1>7
<1>10. QED  BY <1>4, <1>5, <1>8, <1>9 DEF StackInv

\* The innermost function.
LEMMA InFunction ==
  ASSUME StackInv, Running
  PROVE  LET n == Innermost("fn")
         IN  /\ n \in 1 .. Len(act) /\ act[n].kind = "fn"
             /\ \A i \in n + 1 .. Len(act) : act[i].kind # "fn"
<1>1. PICK a : a = act  OBVIOUS
<1>2. a \in Seq(Activation) /\ a # << >> /\ a[1].kind = "fn" /\ Len(a) \in Nat
      /\ DOMAIN act = 1 .. Len(a)
  BY <1>1 DEF StackInv, Sound
<1> DEFINE S == {i \in 1 .. Len(a) : a[i].kind = "fn"}
<1>3. 1 \in S  BY <1>2
<1>4. S \subseteq 1 .. Len(a) /\ S # {}  BY <1>3
<1> HIDE DEF S
<1>5. PICK n \in S : \A j \in S : j <= n  BY <1>2, <1>4, Largest
<1>6. n \in 1 .. Len(a) /\ a[n].kind = "fn" /\ \A i \in 1 .. Len(a) : i > n => a[i].kind # "fn"
  <2>1. n \in 1 .. Len(a) /\ a[n].kind = "fn"  BY DEF S
  <2>2. ASSUME NEW i \in 1 .. Len(a), i > n, a[i].kind = "fn" PROVE FALSE
    <3>1. i \in S  BY <2>2 DEF S
    <3>2. QED  BY <1>5, <2>1, <2>2, <3>1
  <2>3. QED  BY <2>1, <2>2
<1>7. \E p \in DOMAIN act :
        act[p].kind = "fn" /\ \A i \in DOMAIN act : i > p => act[i].kind # "fn"
  BY <1>1, <1>2, <1>6
<1>8. /\ Innermost("fn") \in DOMAIN act /\ act[Innermost("fn")].kind = "fn"
      /\ \A i \in DOMAIN act : i > Innermost("fn") => act[i].kind # "fn"
  BY <1>7 DEF Innermost
<1>9. QED  BY <1>1, <1>2, <1>8

\* A scope with fresh evidence is the only one that has it.
LEMMA BackedEnter ==
  ASSUME NEW a \in Seq(Activation), NEW lv, Backed(a, lv),
         NEW x \in Activation, x.evs \cap lv = {}
  PROVE  Backed(Append(a, x), lv \cup x.evs)
<1> DEFINE b == Append(a, x)  k == Len(a)
<1>1. /\ Len(b) = k + 1 /\ b[k + 1] = x /\ k \in Nat /\ \A i \in 1 .. k : b[i] = a[i]
  BY AppendProperties
<1>2. \A i, j \in 1 .. k : a[i].evs \subseteq lv /\ (i # j => a[i].evs \cap a[j].evs = {})
  BY DEF Backed
<1> HIDE DEF b, k
<1>3. \A i \in 1 .. k + 1 : i \in 1 .. k \/ i = k + 1  BY <1>1
<1>4. ASSUME NEW i \in 1 .. k + 1, NEW j \in 1 .. k + 1
      PROVE  b[i].evs \subseteq lv \cup x.evs /\ (i # j => b[i].evs \cap b[j].evs = {})
  <2>1. CASE i \in 1 .. k /\ j \in 1 .. k
    <3>1. b[i] = a[i] /\ b[j] = a[j]  BY <1>1, <2>1
    <3>2. QED  BY <1>2, <2>1, <3>1
  <2>2. CASE i = k + 1 /\ j = k + 1  BY <1>1, <2>2
  <2>3. CASE i = k + 1 /\ j \in 1 .. k
    <3>1. b[i] = x /\ b[j] = a[j] /\ a[j].evs \subseteq lv  BY <1>1, <1>2, <2>3
    <3>2. QED  BY <3>1
  <2>4. CASE i \in 1 .. k /\ j = k + 1
    <3>1. b[i] = a[i] /\ b[j] = x /\ a[i].evs \subseteq lv  BY <1>1, <1>2, <2>4
    <3>2. QED  BY <3>1
  <2>5. QED  BY <1>3, <2>1, <2>2, <2>3, <2>4
<1>5. Backed(b, lv \cup x.evs)  BY <1>1, <1>4 DEF Backed
<1>6. QED  BY <1>5 DEF b

\* Entering keeps a program sound, with or without a frame of the scope's own.
LEMMA SoundEnter ==
  ASSUME NEW a, NEW fr, NEW lv, Sound(a, fr, lv),
         NEW x \in Activation, x.evs \cap lv = {}, NEW fs,
         (x.frame = None /\ fs = fr) \/ (x.frame \in Frame \ Range(fr) /\ fs = <<x.frame>> \o fr)
  PROVE  Sound(Append(a, x), fs, lv \cup x.evs)
<1> DEFINE b == Append(a, x)
<1>1. /\ a \in Seq(Activation) /\ fr \in Seq(Frame) /\ lv \in SUBSET Evidence /\ Backed(a, lv)
      /\ a # << >> /\ a[1].kind = "fn" /\ Above(a, 0) <= Len(fr)
      /\ ~BreakThrough => Matched(a, fr)
  BY DEF Sound
<1>2. Len(a) \in Nat /\ 1 \in 1 .. Len(a) /\ 0 \in 0 .. Len(a) /\ Len(fr) \in Nat  BY <1>1
<1>3. b \in Seq(Activation) /\ b # << >> /\ b[1].kind = "fn"  BY <1>1, <1>2, AppendProperties
<1>4. Backed(b, lv \cup x.evs)  BY <1>1, BackedEnter
<1>5. lv \cup x.evs \in SUBSET Evidence  BY <1>1 DEF Activation
<1>6. Above(a, 0) \in Nat
      /\ Above(b, 0) = IF x.frame # None THEN Above(a, 0) + 1 ELSE Above(a, 0)
  BY <1>1, <1>2, AboveNat, AboveAppend
<1>7. fs \in Seq(Frame) /\ Above(b, 0) <= Len(fs)
  <2>1. CASE x.frame = None /\ fs = fr  BY <1>1, <1>6, <2>1
  <2>2. CASE x.frame \in Frame \ Range(fr) /\ fs = <<x.frame>> \o fr
    <3>1. <<x.frame>> \in Seq(Frame) /\ Len(<<x.frame>>) = 1  BY <2>2
    <3>2. fs \in Seq(Frame) /\ Len(fs) = 1 + Len(fr)  BY <1>1, <2>2, <3>1, ConcatProperties
    <3>3. x.frame # None  BY <2>2, CatchAssumption
    <3>4. QED  BY <1>1, <1>2, <1>6, <3>2, <3>3
  <2>3. QED  BY <2>1, <2>2
<1>8. ASSUME ~BreakThrough PROVE Matched(b, fs)
  <2>1. CASE x.frame = None /\ fs = fr  BY <1>1, <1>8, <2>1, MatchedEnter
  <2>2. CASE x.frame \in Frame \ Range(fr) /\ fs = <<x.frame>> \o fr
    BY <1>1, <1>8, <2>2, MatchedPush
  <2>3. QED  BY <2>1, <2>2
<1> HIDE DEF b
<1>9. Sound(b, fs, lv \cup x.evs)  BY <1>3, <1>4, <1>5, <1>7, <1>8 DEF Sound
<1>10. QED  BY <1>9 DEF b

\* A program that enters a scope.
Enters ==
  \E x \in Activation :
    /\ act' = Append(act, x) /\ x.evs \cap live = {} /\ live' = live \cup x.evs
    /\ UNCHANGED status
    /\ \/ x.frame = None /\ frames' = frames
       \/ x.frame \in Frame \ Range(frames) /\ frames' = <<x.frame>> \o frames

\* It goes on soundly.
LEMMA EntersKeeps ==
  ASSUME StackInv, Running, Enters
  PROVE  StackInv'
<1>1. PICK a, fr, lv, fs : a = act /\ fr = frames /\ lv = live /\ fs = frames'  OBVIOUS
<1>2. PICK x \in Activation :
        /\ act' = Append(a, x) /\ x.evs \cap lv = {} /\ live' = lv \cup x.evs
        /\ UNCHANGED status
        /\ (x.frame = None /\ fs = fr) \/ (x.frame \in Frame \ Range(fr) /\ fs = <<x.frame>> \o fr)
  BY <1>1 DEF Enters
<1>3. Sound(a, fr, lv)  BY <1>1 DEF StackInv
<1>4. Sound(Append(a, x), fs, lv \cup x.evs)  BY <1>2, <1>3, SoundEnter
<1>5. Sound(act', frames', live')  BY <1>1, <1>2, <1>4
<1>6. status' = status  BY <1>2
<1>7. act' \in Seq(Activation) /\ frames' \in Seq(Frame) /\ live' \in SUBSET Evidence
  BY <1>5 DEF Sound
<1>8. QED  BY <1>5, <1>6, <1>7 DEF StackInv

\* A function, a closure, an arm or a loop is entered.
LEMMA EnterEnters ==
  ASSUME NEW kind \in {"fn", "loop"}, Enter(kind)
  PROVE  Enters
<1>1. Plain(kind) \in Activation /\ Plain(kind).frame = None /\ Plain(kind).evs = {}
  BY DEF Plain, Activation
<1>2. act' = Append(act, Plain(kind)) /\ UNCHANGED <<frames, live, status>>  BY DEF Enter
<1>3. QED  BY <1>1, <1>2 DEF Enters

\* A body is what gen_c_try_catch and gen_c_handle_expr enter.
LEMMA BodyShape ==
  ASSUME NEW f \in Frame \cup {None}, NEW evs \in SUBSET Evidence
  PROVE  Body(f, evs) \in Activation /\ Body(f, evs).frame = f /\ Body(f, evs).evs = evs
BY DEF Body, Activation

\* A try body has a frame and no evidence.
LEMMA TryEnters ==
  ASSUME EnterTry
  PROVE  Enters
<1>1. PICK f \in Frame \ Range(frames) :
        act' = Append(act, Body(f, {})) /\ frames' = <<f>> \o frames
  BY DEF EnterTry
<1>2. Body(f, {}) \in Activation /\ Body(f, {}).frame = f /\ Body(f, {}).evs = {}
  BY BodyShape
<1>3. UNCHANGED <<live, status>>  BY DEF EnterTry
<1>4. QED  BY <1>1, <1>2, <1>3 DEF Enters

\* A handled body has evidence, a frame or both.
LEMMA HandleEnters ==
  ASSUME StackInv, EnterHandle
  PROVE  Enters
<1>1. UNCHANGED status  BY DEF EnterHandle
<1>2. PICK evs \in SUBSET (Evidence \ live) :
        /\ live' = live \cup evs
        /\ \/ act' = Append(act, Body(None, evs)) /\ frames' = frames
           \/ \E f \in Frame \ Range(frames) :
                act' = Append(act, Body(f, evs)) /\ frames' = <<f>> \o frames
  BY DEF EnterHandle
<1>3. evs \in SUBSET Evidence /\ evs \cap live = {}  OBVIOUS
<1>4. CASE act' = Append(act, Body(None, evs)) /\ frames' = frames
  <2>1. /\ Body(None, evs) \in Activation /\ Body(None, evs).frame = None
        /\ Body(None, evs).evs = evs
    BY <1>3, BodyShape
  <2>2. QED  BY <1>1, <1>2, <1>3, <1>4, <2>1 DEF Enters
<1>5. ASSUME NEW f \in Frame \ Range(frames),
             act' = Append(act, Body(f, evs)), frames' = <<f>> \o frames
      PROVE  Enters
  <2>1. Body(f, evs) \in Activation /\ Body(f, evs).frame = f /\ Body(f, evs).evs = evs
    BY <1>3, BodyShape
  <2>2. QED  BY <1>1, <1>2, <1>3, <1>5, <2>1 DEF Enters
<1>6. QED  BY <1>2, <1>4, <1>5

-----------------------------------------------------------------------------
(* The ways out.                                                           *)

\* A program that leaves scopes of one function, or the function, on a way out.
Ends ==
  \E m \in 0 .. Len(act) - 1, k \in Nat, gone \in SUBSET live :
    /\ WayOut(act, live, m, k, gone) /\ LeaveTo(SubSeq(act, 1, m), k, gone)
    /\ \A i \in m + 2 .. Len(act) : act[i].kind # "fn"

\* What the actions say, by index.
LEMMA Facts ==
  ASSUME StackInv, Running
  PROVE  /\ act \in Seq(Activation) /\ Len(act) \in Nat /\ Len(act) # 0
         /\ DOMAIN act = 1 .. Len(act) /\ 1 \in 1 .. Len(act) /\ act[1].kind = "fn"
         /\ \A i \in 1 .. Len(act) :
                /\ act[i] \in Activation /\ act[i].evs \in SUBSET live
                /\ act[i].kind # "body" => act[i].frame = None /\ act[i].evs = {}
                /\ \A j \in 1 .. Len(act) : i # j => act[i].evs \cap act[j].evs = {}
<1>1. /\ act \in Seq(Activation) /\ act # << >> /\ act[1].kind = "fn"
      /\ Backed(act, live)
  BY DEF StackInv, Sound
<1>2. Len(act) \in Nat /\ Len(act) # 0 /\ DOMAIN act = 1 .. Len(act) /\ 1 \in 1 .. Len(act)
  BY <1>1
<1>3. ASSUME NEW i \in 1 .. Len(act)
      PROVE  /\ act[i] \in Activation /\ act[i].evs \in SUBSET live
             /\ act[i].kind # "body" => act[i].frame = None /\ act[i].evs = {}
             /\ \A j \in 1 .. Len(act) : i # j => act[i].evs \cap act[j].evs = {}
  <2>1. act[i] \in Activation  BY <1>1
  <2>2. act[i].kind # "body" => act[i].frame = None /\ act[i].evs = {}  BY <2>1 DEF Activation
  <2>3. QED  BY <1>1, <2>1, <2>2 DEF Backed
<1>4. QED  BY <1>1, <1>2, <1>3

\* The normal end of a body.
LEMMA EndBodyEnds ==
  ASSUME StackInv, EndBody
  PROVE  Ends
<1>1. Running /\ act[Len(act)].kind = "body"  BY DEF EndBody, Top, Last
<1>2. PICK a, m, lv : a = act /\ m = Len(act) - 1 /\ lv = live  OBVIOUS
<1>3. /\ a \in Seq(Activation) /\ Len(a) \in Nat /\ Len(a) # 0 /\ m \in 0 .. Len(a) - 1
      /\ m \in 0 .. Len(a) /\ m + 1 = Len(a) /\ Len(a) \in 1 .. Len(a)
      /\ a[Len(a)].kind = "body" /\ a[Len(a)].evs \in SUBSET lv
  BY <1>1, <1>2, Facts
<1>4. SubSeq(a, m + 1, Len(a)) = <<a[Len(a)]>>
  <2>1. PICK s : s = SubSeq(a, m + 1, Len(a))  OBVIOUS
  <2>2. Len(a) - m = 1 /\ 1 \in 1 .. 1  BY <1>3
  <2>3. Len(s) = 1 /\ s \in Seq(Activation) /\ s[1] = a[Len(a)]
    BY <1>3, <2>1, <2>2, Popped
  <2>4. s = <<s[1]>>  BY <2>3
  <2>5. QED  BY <2>1, <2>3, <2>4
<1>5. CatchesIn(<<a[Len(a)]>>) = Above(a, m)  BY <1>3, <1>4, Counted
<1>6. Above(a, m) \in Nat  BY <1>3, AboveNat
<1>7. \A i \in 1 .. m : i \in 1 .. Len(a) /\ i # Len(a)  BY <1>3
<1>8. \A i \in 1 .. m : a[i].evs \cap a[Len(a)].evs = {}
  BY <1>1, <1>2, <1>3, <1>7, Facts
<1>9. Released(a, m, a[Len(a)].evs)  BY <1>3 DEF Released
<1>10. WayOut(a, lv, m, Above(a, m), a[Len(a)].evs)
  BY <1>3, <1>6, <1>8, <1>9 DEF WayOut
<1>11. LeaveTo(SubSeq(act, 1, Len(act) - 1), CatchesIn(<<act[Len(act)]>>), act[Len(act)].evs)
  BY DEF EndBody, Top, Last, Front
<1>12. LeaveTo(SubSeq(act, 1, m), Above(a, m), a[Len(a)].evs)  BY <1>2, <1>5, <1>11
<1>13. m + 2 .. Len(act) = {}  BY <1>2, <1>3
<1>14. QED  BY <1>2, <1>3, <1>6, <1>10, <1>12, <1>13 DEF Ends

\* Leaving scopes by moving on: they have neither a frame nor evidence, or the
\* program is one with breaks through bodies.
LEMMA PlainEnds ==
  ASSUME StackInv, Running, NEW m \in 1 .. Len(act) - 1,
         BreakThrough \/ \A i \in m + 1 .. Len(act) : act[i].kind # "body",
         \A i \in m + 2 .. Len(act) : act[i].kind # "fn",
         act' = SubSeq(act, 1, m), UNCHANGED <<frames, live, status>>
  PROVE  Ends
<1>1. PICK a, lv : a = act /\ lv = live  OBVIOUS
<1>2. /\ a \in Seq(Activation) /\ Len(a) \in Nat /\ m \in 0 .. Len(a) - 1 /\ m \in 0 .. Len(a)
      /\ m \in Nat /\ m # 0 /\ \A i \in m + 1 .. Len(a) : i \in 1 .. Len(a)
  BY <1>1, Facts
<1>3. Above(a, m) \in Nat  BY <1>2, AboveNat
<1>4. ASSUME ~BreakThrough PROVE 0 = Above(a, m) /\ Released(a, m, {})
  <2>1. \A i \in m + 1 .. Len(a) : a[i].frame = None /\ a[i].evs = {}
    BY <1>1, <1>2, <1>4, Facts
  <2>2. m + 1 \in m + 1 .. Len(a)  BY <1>2
  <2>3. Released(a, m, {})  BY <2>1, <2>2 DEF Released
  <2>4. QED  BY <1>2, <2>1, <2>3, AboveTop
<1>5. WayOut(a, lv, m, 0, {})  BY <1>2, <1>3, <1>4 DEF WayOut
<1>6. SubSeq(a, 1, m) # << >>
  <2>1. Len(SubSeq(a, 1, m)) = m  BY <1>2, Outer
  <2>2. Len(<< >>) = 0  OBVIOUS
  <2>3. QED  BY <1>2, <2>1, <2>2
<1>7. LeaveTo(SubSeq(act, 1, m), 0, {})
  <2>1. frames \in Seq(Frame)  BY DEF StackInv
  <2>2. SubSeq(frames, 0 + 1, Len(frames)) = frames /\ 0 <= Len(frames)  BY <2>1
  <2>3. live \ {} = live  OBVIOUS
  <2>4. QED  BY <1>1, <1>6, <2>2, <2>3 DEF LeaveTo
<1>8. QED  BY <1>1, <1>2, <1>5, <1>7 DEF Ends

\* The end of a loop.
LEMMA EndLoopEnds ==
  ASSUME StackInv, EndLoop
  PROVE  Ends
<1>1. Running /\ act[Len(act)].kind = "loop" /\ UNCHANGED <<frames, live, status>>
      /\ act' = SubSeq(act, 1, Len(act) - 1)
  BY DEF EndLoop, Top, Last, Front
<1>2. PICK m : m = Len(act) - 1  OBVIOUS
<1>3. m \in 1 .. Len(act) - 1 /\ m + 1 = Len(act)
  <2>1. Len(act) \in Nat /\ Len(act) # 0 /\ Len(act) # 1  BY <1>1, Facts
  <2>2. QED  BY <1>2, <2>1
<1>4. \A i \in m + 1 .. Len(act) : act[i].kind # "body"
  <2>1. \A i \in m + 1 .. Len(act) : i = Len(act)  BY <1>3
  <2>2. QED  BY <1>1, <2>1
<1>5. m + 2 .. Len(act) = {}
  <2>1. Len(act) \in Nat  BY <1>1, Facts
  <2>2. QED  BY <1>2, <2>1
<1>6. QED  BY <1>1, <1>2, <1>3, <1>4, <1>5, PlainEnds

\* A return, from wherever it stands in its function.
LEMMA ReturnEnds ==
  ASSUME StackInv, Return
  PROVE  Ends
<1>1. Running  BY DEF Return
<1>2. PICK a, n, lv : a = act /\ n = Innermost("fn") /\ lv = live  OBVIOUS
<1>3. /\ a \in Seq(Activation) /\ Len(a) \in Nat /\ n \in 1 .. Len(a) /\ n \in 0 .. Len(a)
      /\ n \in Nat /\ a[n].kind = "fn" /\ a[n].frame = None /\ a[n].evs = {}
      /\ n - 1 \in 0 .. Len(a) - 1 /\ n - 1 + 1 = n
  BY <1>1, <1>2, Facts, InFunction
<1> DEFINE gone == UNION {a[i].evs : i \in n + 1 .. Len(a)}
<1>4. CatchesIn(Inner(n)) = Above(a, n - 1)
  <2>1. CatchesIn(Inner(n)) = Above(a, n)  BY <1>2, <1>3, Counted DEF Inner
  <2>2. Above(a, n - 1) = Above(a, n)  BY <1>3, AboveStep
  <2>3. QED  BY <2>1, <2>2
<1>5. EvsOf(Inner(n)) = gone
  <2>1. PICK b : b = Inner(n)  OBVIOUS
  <2>2. DOMAIN b = 1 .. Len(a) - n /\ \A i \in 1 .. Len(a) - n : b[i] = a[n + i]
    <3>1. b = SubSeq(a, n + 1, Len(a))  BY <1>2, <2>1 DEF Inner
    <3>2. QED  BY <1>3, <3>1, Popped
  <2>3. \A i \in 1 .. Len(a) - n : n + i \in n + 1 .. Len(a)  BY <1>3
  <2>4. \A j \in n + 1 .. Len(a) : j - n \in 1 .. Len(a) - n /\ n + (j - n) = j  BY <1>3
  <2>5. \A j \in n + 1 .. Len(a) : b[j - n] = a[j]  BY <2>2, <2>4
  <2>6. UNION {b[i].evs : i \in DOMAIN b} \subseteq gone  BY <2>2, <2>3
  <2>7. gone \subseteq UNION {b[i].evs : i \in DOMAIN b}  BY <2>2, <2>4, <2>5
  <2>8. QED  BY <2>1, <2>6, <2>7 DEF EvsOf
<1>6. gone \in SUBSET lv
  <2>1. \A i \in n + 1 .. Len(a) : i \in 1 .. Len(a)  BY <1>3
  <2>2. QED  BY <1>1, <1>2, <2>1, Facts
<1>7. \A i \in 1 .. n - 1 : a[i].evs \cap gone = {}
  <2> SUFFICES ASSUME NEW i \in 1 .. n - 1, NEW j \in n + 1 .. Len(a)
               PROVE  a[i].evs \cap a[j].evs = {}
    OBVIOUS
  <2>1. i \in 1 .. Len(a) /\ j \in 1 .. Len(a) /\ i # j  BY <1>3
  <2>2. QED  BY <1>1, <1>2, <2>1, Facts
<1>8. Released(a, n - 1, gone)
  <2>1. \A i \in n .. Len(a) : i = n \/ i \in n + 1 .. Len(a)  BY <1>3
  <2>2. \A i \in n .. Len(a) : a[i].evs \subseteq gone  BY <1>3, <2>1
  <2> HIDE DEF gone
  <2>3. QED  BY <1>3, <2>2 DEF Released
<1> HIDE DEF gone
<1>9. Above(a, n - 1) \in Nat  BY <1>3, AboveNat
<1>10. WayOut(a, lv, n - 1, Above(a, n - 1), gone)
  BY <1>3, <1>6, <1>7, <1>8, <1>9 DEF WayOut
<1>11. LeaveTo(SubSeq(act, 1, n - 1), CatchesIn(Inner(n)), EvsOf(Inner(n)))
  BY <1>2 DEF Return, CleanupScopes
<1>12. LeaveTo(SubSeq(act, 1, n - 1), Above(a, n - 1), gone)  BY <1>4, <1>5, <1>11
<1>13. \A i \in n - 1 + 2 .. Len(a) : a[i].kind # "fn"
  <2>1. n - 1 + 2 = n + 1  BY <1>3
  <2>2. QED  BY <1>1, <1>2, <2>1, InFunction
<1>14. QED  BY <1>2, <1>3, <1>6, <1>9, <1>10, <1>12, <1>13 DEF Ends

\* A break or a continue; one that is the last thing in its loop changes
\* nothing here.
LEMMA LoopExitEnds ==
  ASSUME StackInv, LoopExit
  PROVE  Ends \/ UNCHANGED vars
<1>1. Running /\ UNCHANGED <<frames, live, status>>  BY DEF LoopExit
<1>2. PICK n \in DOMAIN act :
        /\ act[n].kind = "loop" /\ n > Innermost("fn")
        /\ BreakThrough \/ \A i \in DOMAIN act : i > n => act[i].kind # "body"
        /\ act' = SubSeq(act, 1, n - 1) \/ act' = SubSeq(act, 1, n)
  BY DEF LoopExit
<1>3. /\ act \in Seq(Activation) /\ Len(act) \in Nat /\ DOMAIN act = 1 .. Len(act)
      /\ n \in 2 .. Len(act)
  <2>1. Innermost("fn") \in 1 .. Len(act)  BY <1>1, InFunction
  <2>2. act \in Seq(Activation) /\ Len(act) \in Nat /\ DOMAIN act = 1 .. Len(act)
    BY <1>1, Facts
  <2>3. QED  BY <1>2, <2>1, <2>2
<1>4. BreakThrough \/ \A i \in n .. Len(act) : act[i].kind # "body"
  <2>1. \A i \in n .. Len(act) : i = n \/ (i \in 1 .. Len(act) /\ i > n)  BY <1>3
  <2>2. QED  BY <1>2, <1>3, <2>1
<1>5. \A i \in n + 1 .. Len(act) : act[i].kind # "fn"
  <2>1. /\ Innermost("fn") \in 1 .. Len(act)
        /\ \A i \in Innermost("fn") + 1 .. Len(act) : act[i].kind # "fn"
    BY <1>1, InFunction
  <2>2. \A i \in n + 1 .. Len(act) : i \in Innermost("fn") + 1 .. Len(act)  BY <1>2, <1>3, <2>1
  <2>3. QED  BY <2>1, <2>2
<1>6. CASE act' = SubSeq(act, 1, n - 1)
  <2>1. PICK m : m = n - 1  OBVIOUS
  <2>2. m \in 1 .. Len(act) - 1 /\ m + 1 = n /\ m + 2 = n + 1
    BY <1>3, <2>1
  <2>3. QED  BY <1>1, <1>4, <1>5, <1>6, <2>1, <2>2, PlainEnds
<1>7. CASE act' = SubSeq(act, 1, n) /\ n # Len(act)
  <2>1. /\ n \in 1 .. Len(act) - 1 /\ \A i \in n + 1 .. Len(act) : i \in n .. Len(act)
        /\ \A i \in n + 2 .. Len(act) : i \in n + 1 .. Len(act)
    BY <1>3, <1>7
  <2>2. QED  BY <1>1, <1>4, <1>5, <1>7, <2>1, PlainEnds
<1>8. CASE act' = SubSeq(act, 1, n) /\ n = Len(act)
  <2>1. SubSeq(act, 1, Len(act)) = act  BY <1>3
  <2>2. QED  BY <1>1, <1>8, <2>1 DEF vars
<1>9. QED  BY <1>2, <1>6, <1>7, <1>8

\* The catch path of a body that catches.
LEMMA CatchLeaves ==
  ASSUME StackInv, Running, NEW n \in 1 .. Len(act), frames # << >>,
         act[n].frame = Head(frames), CatchPath(n)
  PROVE  Leaves
<1>1. PICK a, fr, lv : a = act /\ fr = frames /\ lv = live  OBVIOUS
<1>2. /\ a \in Seq(Activation) /\ Len(a) \in Nat /\ n \in 1 .. Len(a) /\ n \in Nat
      /\ n - 1 \in 0 .. Len(a) - 1 /\ n - 1 \in Nat /\ n - 1 + 1 = n
      /\ a[n].evs \in SUBSET lv /\ (a[n].kind # "body" => a[n].frame = None)
  BY <1>1, Facts
<1>3. fr \in Seq(Frame) /\ fr # << >> /\ a[n].frame = fr[1] /\ a[n].frame # None
  BY <1>1, CatchAssumption DEF StackInv
<1>4. Above(a, n - 1) = Above(a, n) + 1 /\ Above(a, n) \in Nat
  BY <1>2, <1>3, AboveStep, AboveNat
<1>5. \A i \in 1 .. n - 1 : a[i].evs \cap a[n].evs = {}
  <2>1. \A i \in 1 .. n - 1 : i \in 1 .. Len(a) /\ i # n  BY <1>2
  <2>2. QED  BY <1>1, <1>2, <2>1, Facts
<1>6. ASSUME ~BreakThrough PROVE 1 = Above(a, n - 1) /\ Released(a, n - 1, a[n].evs)
  <2>1. Matched(a, fr)  BY <1>1, <1>6 DEF StackInv, Sound
  <2>2. Above(a, n - 1) = 1  BY <1>2, <1>3, <2>1, TopFrame
  <2>3. QED  BY <1>2, <1>3, <2>2 DEF Released
<1>7. WayOut(a, lv, n - 1, 1, a[n].evs)  BY <1>2, <1>4, <1>5, <1>6 DEF WayOut
<1>8. LeaveTo(SubSeq(act, 1, n - 1), 1, a[n].evs)  BY <1>1 DEF CatchPath
<1>9. QED  BY <1>1, <1>2, <1>7, <1>8 DEF Leaves

\* A raise leaves to a catch path, or stops the program.
LEMMA RaiseLeaves ==
  ASSUME StackInv, Raise
  PROVE  Leaves \/ (UNCHANGED <<act, frames, live>> /\ status' \in {"panic", "stray"})
<1>1. Running  BY DEF Raise
<1>2. CASE frames = << >>  BY <1>2 DEF Raise
<1>3. CASE frames # << >> /\ {n \in DOMAIN act : act[n].frame = Head(frames)} # {}
  <2>1. PICK n \in {n \in DOMAIN act : act[n].frame = Head(frames)} : CatchPath(n)
    BY <1>3 DEF Raise
  <2>2. n \in 1 .. Len(act) /\ act[n].frame = Head(frames)  BY <1>1, Facts
  <2>3. QED  BY <1>1, <1>3, <2>1, <2>2, CatchLeaves
<1>4. CASE frames # << >> /\ {n \in DOMAIN act : act[n].frame = Head(frames)} = {}
  BY <1>4 DEF Raise
<1>5. QED  BY <1>2, <1>3, <1>4

\* Every step is one of these.
LEMMA Steps ==
  ASSUME StackInv, Next
  PROVE  /\ Running
         /\ \/ Enters
            \/ Ends
            \/ Raise
            \/ UNCHANGED vars
<1>1. CASE Enter("fn") \/ Enter("loop")
  <2>1. "fn" \in {"fn", "loop"} /\ "loop" \in {"fn", "loop"}  OBVIOUS
  <2>2. Enters  BY <1>1, <2>1, EnterEnters
  <2>3. QED  BY <1>1, <2>2 DEF Enter
<1>2. CASE EnterTry  BY <1>2, TryEnters DEF EnterTry
<1>3. CASE EnterHandle  BY <1>3, HandleEnters DEF EnterHandle
<1>4. CASE EndBody  BY <1>4, EndBodyEnds DEF EndBody
<1>5. CASE EndLoop  BY <1>5, EndLoopEnds DEF EndLoop
<1>6. CASE Return  BY <1>6, ReturnEnds DEF Return
<1>7. CASE LoopExit  BY <1>7, LoopExitEnds DEF LoopExit
<1>8. CASE Raise  BY <1>8 DEF Raise
<1>9. QED  BY <1>1, <1>2, <1>3, <1>4, <1>5, <1>6, <1>7, <1>8 DEF Next

\* A program that starts is sound.
LEMMA Starts == Init => StackInv
<1> SUFFICES ASSUME Init PROVE StackInv  OBVIOUS
<1>1. PICK a : a = <<Plain("fn")>>  OBVIOUS
<1>2. /\ a \in Seq(Activation) /\ Len(a) = 1 /\ a[1].kind = "fn" /\ a[1].evs = {}
      /\ a[1].frame = None /\ a # << >>
  <2>1. Plain("fn") \in Activation /\ Plain("fn").kind = "fn" /\ Plain("fn").evs = {}
        /\ Plain("fn").frame = None
    BY DEF Plain, Activation
  <2>2. QED  BY <1>1, <2>1
<1>3. Above(a, 0) = 0
  <2>1. \A i \in 0 + 1 .. Len(a) : i = 1  BY <1>2
  <2>2. QED  BY <1>2, <2>1, AboveTop
<1>4. Backed(a, {})  BY <1>2 DEF Backed
<1>5. << >> \in Seq(Frame) /\ Len(<< >>) = 0  OBVIOUS
<1>6. Matched(a, << >>)
  <2>1. \A i \in 1 .. Len(a) : i = 1  BY <1>2
  <2>2. QED  BY <1>2, <1>3, <1>5, <2>1 DEF Matched
<1>7. Sound(a, << >>, {})  BY <1>2, <1>3, <1>4, <1>5, <1>6 DEF Sound
<1>8. QED  BY <1>1, <1>2, <1>5, <1>7 DEF Init, StackInv

\* The invariant holds of every program, with breaks through bodies or without.
THEOREM Invariance == Spec => []StackInv
<1>1. StackInv /\ [Next]_vars => StackInv'
  <2> SUFFICES ASSUME StackInv, [Next]_vars PROVE StackInv'  OBVIOUS
  <2>1. CASE UNCHANGED vars  BY <2>1 DEF vars, StackInv, Running
  <2>2. CASE Running /\ Enters  BY <2>2, EntersKeeps
  <2>3. CASE Running /\ Leaves  BY <2>3, LeavesKeeps
  <2>4. CASE UNCHANGED <<act, frames, live>> /\ status' \in {"panic", "stray"}
    BY <2>4 DEF StackInv, Running
  <2>5. Ends => Leaves  BY DEF Ends, Leaves
  <2>6. Raise => Running  BY DEF Raise
  <2>7. QED  BY <2>1, <2>2, <2>3, <2>4, <2>5, <2>6, Steps, RaiseLeaves
<1>2. QED  BY <1>1, Starts, PTL DEF Spec

\* No code ever pops a frame that is not there or drops evidence twice, even in
\* a program whose breaks leave frames and evidence behind.
THEOREM NeverFaults == Spec => []TypeOK
<1>1. ASSUME StackInv PROVE TypeOK
  <2>1. ASSUME NEW i \in DOMAIN act
        PROVE  /\ act[i].kind \in {"fn", "loop", "body"} /\ act[i].frame \in Frame \cup {None}
               /\ act[i].evs \subseteq Evidence
    <3>1. act[i] \in Activation  BY <1>1 DEF StackInv
    <3>2. QED  BY <3>1 DEF Activation
  <2>2. QED  BY <1>1, <2>1 DEF StackInv, TypeOK
<1>2. QED  BY <1>1, Invariance, PTL

\* The catch stack is the bodies that catch and are running, innermost on top,
\* in every program without breaks through bodies.
THEOREM StackIsBodies ==
  ASSUME ~BreakThrough
  PROVE  Spec => []FramesAreBodies
<1>1. StackInv /\ TypeOK => FramesAreBodies
  <2> SUFFICES ASSUME StackInv, TypeOK, Running
               PROVE  /\ Len(frames) = CatchesIn(act)
                      /\ \A i \in DOMAIN act : act[i].frame # None =>
                             frames[CatchesIn(Inner(i)) + 1] = act[i].frame
    BY DEF FramesAreBodies
  <2>1. PICK a, fr : a = act /\ fr = frames  OBVIOUS
  <2>2. a \in Seq(Activation) /\ Matched(a, fr)  BY <2>1 DEF StackInv, Sound
  <2>3. CatchesIn(a) = Above(a, 0)  BY <2>2, CountedAll
  <2>4. ASSUME NEW i \in 1 .. Len(a), a[i].frame # None
        PROVE  frames[CatchesIn(Inner(i)) + 1] = a[i].frame
    <3>1. i \in 0 .. Len(a)  OBVIOUS
    <3>2. CatchesIn(Inner(i)) = Above(a, i)  BY <2>1, <2>2, <3>1, Counted DEF Inner
    <3>3. QED  BY <2>1, <2>2, <2>4, <3>2 DEF Matched
  <2>5. DOMAIN act = 1 .. Len(a)  BY <2>1, <2>2
  <2>6. QED  BY <2>1, <2>2, <2>3, <2>4, <2>5 DEF Matched
<1>2. QED  BY <1>1, Invariance, NeverFaults, PTL

\* As long as its body runs, evidence is live and the body's own.
LEMMA Outlives == StackInv => EvidenceOutlivesBody
<1> SUFFICES ASSUME StackInv, Running, NEW i \in DOMAIN act, NEW j \in DOMAIN act
             PROVE  /\ act[i].evs \subseteq live
                    /\ i # j => act[i].evs \intersect act[j].evs = {}
  BY DEF EvidenceOutlivesBody
<1>1. QED  BY Facts

\* What a step out of bodies releases.
LEMMA Releases ==
  ASSUME ~BreakThrough, StackInv, Next, Len(act') < Len(act)
  PROVE  LET landing == Len(act') + 1
             left == IF act[landing].kind = "body"
                     THEN {landing} ELSE landing .. Len(act)
         IN  \A i \in left : act[i].evs \intersect live' = {}
<1>1. Running  BY Steps
<1>2. act \in Seq(Activation) /\ Len(act) \in Nat  BY <1>1, Facts
<1>3. Leaves
  <2>1. ~Enters
    <3> SUFFICES ASSUME Enters PROVE FALSE  OBVIOUS
    <3>1. PICK x \in Activation : act' = Append(act, x)  BY DEF Enters
    <3>2. Len(act') = Len(act) + 1  BY <1>2, <3>1, AppendProperties
    <3>3. QED  BY <1>2, <3>2
  <2>2. act' # act  BY <1>2
  <2>3. Ends => Leaves  BY DEF Ends, Leaves
  <2>4. QED  BY <2>1, <2>2, <2>3, Steps, RaiseLeaves DEF vars
<1>4. PICK m \in 0 .. Len(act) - 1, k \in Nat, gone \in SUBSET live :
        WayOut(act, live, m, k, gone) /\ LeaveTo(SubSeq(act, 1, m), k, gone)
  BY <1>3 DEF Leaves
<1>5. Len(act') = m
  <2>1. PICK a : a = act  OBVIOUS
  <2>2. a \in Seq(Activation) /\ m \in 0 .. Len(a)  BY <1>2, <2>1
  <2>3. Len(SubSeq(a, 1, m)) = m  BY <2>2, Outer
  <2>4. QED  BY <1>4, <2>1, <2>3 DEF LeaveTo
<1>6. live' = live \ gone  BY <1>4 DEF LeaveTo
<1>7. \A i \in (IF act[m + 1].kind = "body" THEN {m + 1} ELSE m + 1 .. Len(act)) :
        act[i].evs \subseteq gone
  BY <1>4 DEF WayOut, Released
<1>8. QED  BY <1>5, <1>6, <1>7

\* Evidence lives as long as its body: no shorter, in any program, and no longer,
\* in every program without breaks through bodies.
THEOREM EvidenceHasItsBodysLife ==
  ASSUME ~BreakThrough
  PROVE  Spec => EvidenceFollowsBody
<1>1. StackInv /\ [Next]_vars =>
        [Len(act') < Len(act) =>
          LET landing == Len(act') + 1
              left == IF act[landing].kind = "body"
                      THEN {landing} ELSE landing .. Len(act)
          IN  \A i \in left : act[i].evs \intersect live' = {}]_vars
  BY Releases
<1>2. Spec => EvidenceReleased  BY <1>1, Invariance, PTL DEF Spec, EvidenceReleased
<1>3. Spec => []EvidenceOutlivesBody  BY Outlives, Invariance, PTL
<1>4. QED  BY <1>2, <1>3 DEF EvidenceFollowsBody

-----------------------------------------------------------------------------
(* The refinement.                                                         *)

\* The scopes of a stack of activations, as CatchSpec sees them.
ScopesOf(a) ==
  [i \in 1 .. Len(a) |-> [kind |-> a[i].kind, catches |-> a[i].frame # None]]

\* They are a sequence.
LEMMA ScopesAre ==
  ASSUME NEW a \in Seq(Activation)
  PROVE  /\ ScopesOf(a) \in Seq([kind : {"fn", "loop", "body"}, catches : BOOLEAN])
         /\ Len(ScopesOf(a)) = Len(a) /\ DOMAIN ScopesOf(a) = 1 .. Len(a)
         /\ \A i \in 1 .. Len(a) :
              /\ ScopesOf(a)[i] = [kind |-> a[i].kind, catches |-> a[i].frame # None]
              /\ ScopesOf(a)[i].kind = a[i].kind
              /\ ScopesOf(a)[i].catches <=> a[i].frame # None
<1> DEFINE s == ScopesOf(a)
<1>1. Len(a) \in Nat  OBVIOUS
<1>2. ASSUME NEW i \in 1 .. Len(a)
      PROVE  /\ s[i] = [kind |-> a[i].kind, catches |-> a[i].frame # None]
             /\ s[i] \in [kind : {"fn", "loop", "body"}, catches : BOOLEAN]
  <2>1. a[i] \in Activation  OBVIOUS
  <2>2. a[i].kind \in {"fn", "loop", "body"}  BY <2>1 DEF Activation
  <2>3. (a[i].frame # None) \in BOOLEAN  OBVIOUS
  <2>4. QED  BY <2>2, <2>3 DEF ScopesOf
<1>3. DOMAIN s = 1 .. Len(a)  BY DEF ScopesOf
<1>4. s = [i \in 1 .. Len(a) |-> s[i]]  BY DEF ScopesOf
<1> HIDE DEF s
<1>5. s \in Seq([kind : {"fn", "loop", "body"}, catches : BOOLEAN]) /\ Len(s) = Len(a)
  BY <1>1, <1>2, <1>3, <1>4
<1>6. ASSUME NEW i \in 1 .. Len(a)
      PROVE  s[i].kind = a[i].kind /\ (s[i].catches <=> a[i].frame # None)
  <2>1. PICK c : c = (a[i].frame # None)  OBVIOUS
  <2>2. s[i] = [kind |-> a[i].kind, catches |-> c]  BY <1>2, <2>1
  <2>3. s[i].kind = a[i].kind /\ s[i].catches = c  BY <2>2
  <2>4. QED  BY <2>1, <2>3
<1>7. QED  BY <1>2, <1>3, <1>5, <1>6 DEF s

\* Entering a scope is entering it there.
LEMMA ScopesEnter ==
  ASSUME NEW a \in Seq(Activation), NEW x \in Activation
  PROVE  ScopesOf(Append(a, x)) =
           Append(ScopesOf(a), [kind |-> x.kind, catches |-> x.frame # None])
<1> DEFINE b == Append(a, x)
           y == [kind |-> x.kind, catches |-> x.frame # None]
           S == [kind : {"fn", "loop", "body"}, catches : BOOLEAN]
           s == ScopesOf(a)
           t == ScopesOf(b)
<1>1. /\ b \in Seq(Activation) /\ Len(b) = Len(a) + 1 /\ b[Len(a) + 1] = x /\ Len(a) \in Nat
      /\ \A i \in 1 .. Len(a) : b[i] = a[i]
  BY AppendProperties
<1>2. y \in S
  <2>1. x.kind \in {"fn", "loop", "body"}  BY DEF Activation
  <2>2. (x.frame # None) \in BOOLEAN  OBVIOUS
  <2>3. QED  BY <2>1, <2>2
<1>3. /\ s \in Seq(S) /\ Len(s) = Len(a)
      /\ \A i \in 1 .. Len(a) : s[i] = [kind |-> a[i].kind, catches |-> a[i].frame # None]
  BY ScopesAre
<1> HIDE DEF b
<1>4. /\ t \in Seq(S) /\ Len(t) = Len(a) + 1
      /\ \A i \in 1 .. Len(a) + 1 : t[i] = [kind |-> b[i].kind, catches |-> b[i].frame # None]
  BY <1>1, ScopesAre
<1> HIDE DEF S, s, t, y
<1>5. /\ Append(s, y) \in Seq(S) /\ Len(Append(s, y)) = Len(s) + 1
      /\ \A i \in 1 .. Len(s) : Append(s, y)[i] = s[i]
      /\ Append(s, y)[Len(s) + 1] = y
  BY <1>2, <1>3, AppendProperties
<1>6. ASSUME NEW i \in 1 .. Len(t) PROVE t[i] = Append(s, y)[i]
  <2>1. CASE i = Len(a) + 1  BY <1>1, <1>3, <1>4, <1>5, <2>1 DEF y
  <2>2. CASE i # Len(a) + 1
    <3>1. i \in 1 .. Len(a)  BY <1>1, <1>4, <2>2
    <3>2. QED  BY <1>1, <1>3, <1>4, <1>5, <3>1
  <2>3. QED  BY <2>1, <2>2
<1>7. t = Append(s, y)  BY <1>3, <1>4, <1>5, <1>6, SeqEqual
<1>8. QED  BY <1>7 DEF t, s, y, b

\* And leaving scopes is leaving them there.
LEMMA ScopesLeave ==
  ASSUME NEW a \in Seq(Activation), NEW m \in 0 .. Len(a)
  PROVE  ScopesOf(SubSeq(a, 1, m)) = SubSeq(ScopesOf(a), 1, m)
<1> DEFINE b == SubSeq(a, 1, m)
           S == [kind : {"fn", "loop", "body"}, catches : BOOLEAN]
           s == ScopesOf(a)
           t == ScopesOf(b)
           u == SubSeq(s, 1, m)
<1>1. /\ b \in Seq(Activation) /\ Len(b) = m /\ m \in Nat /\ Len(a) \in Nat
      /\ \A i \in 1 .. m : b[i] = a[i] /\ i \in 1 .. Len(a)
  BY Outer
<1>2. /\ s \in Seq(S) /\ Len(s) = Len(a)
      /\ \A i \in 1 .. Len(a) : s[i] = [kind |-> a[i].kind, catches |-> a[i].frame # None]
  BY ScopesAre
<1> HIDE DEF b
<1>3. /\ t \in Seq(S) /\ Len(t) = m
      /\ \A i \in 1 .. m : t[i] = [kind |-> b[i].kind, catches |-> b[i].frame # None]
  BY <1>1, ScopesAre
<1> HIDE DEF S, s, t
<1>4. u \in Seq(S) /\ Len(u) = m /\ \A i \in 1 .. m : u[i] = s[i]  BY <1>2, Outer
<1> HIDE DEF u
<1>5. ASSUME NEW i \in 1 .. Len(t) PROVE t[i] = u[i]
  <2>1. i \in 1 .. m /\ i \in 1 .. Len(a) /\ b[i] = a[i]  BY <1>1, <1>3
  <2>2. t[i] = [kind |-> b[i].kind, catches |-> b[i].frame # None]  BY <1>3, <2>1
  <2>3. u[i] = [kind |-> a[i].kind, catches |-> a[i].frame # None]  BY <1>2, <1>4, <2>1
  <2>4. QED  BY <2>1, <2>2, <2>3
<1>6. t = u  BY <1>3, <1>4, <1>5, SeqEqual
<1>7. QED  BY <1>6 DEF t, u, s, b

\* The model's mapping, by index.
LEMMA Mapped ==
  /\ StackInv => Scopes = ScopesOf(act)
  /\ StackInv' => Scopes' = ScopesOf(act')
<1>1. ASSUME StackInv PROVE Scopes = ScopesOf(act)
  <2>1. DOMAIN act = 1 .. Len(act)  BY <1>1 DEF StackInv
  <2>2. QED  BY <2>1 DEF Scopes, ScopesOf
<1>2. ASSUME StackInv' PROVE Scopes' = ScopesOf(act')
  <2>1. DOMAIN act' = 1 .. Len(act')  BY <1>2 DEF StackInv
  <2>2. QED  BY <2>1 DEF Scopes, ScopesOf
<1>3. QED  BY <1>1, <1>2

\* A program that starts has entered its one function.
LEMMA PromiseStarts == Init => Promise!Init
<1> SUFFICES ASSUME Init PROVE Promise!Init  OBVIOUS
<1>1. act = <<Plain("fn")>> /\ status = "run"  BY DEF Init
<1>2. Scopes = << [kind |-> "fn", catches |-> FALSE] >>
  <2>1. Plain("fn").kind = "fn" /\ Plain("fn").frame = None  BY DEF Plain
  <2> DEFINE r == [kind |-> "fn", catches |-> FALSE]
  <2>2. PICK s : s = Scopes  OBVIOUS
  <2>3. DOMAIN act = 1 .. 1 /\ \A i \in 1 .. 1 : i = 1 /\ act[i] = Plain("fn")  BY <1>1
  <2>4. DOMAIN s = 1 .. 1 /\ s = [i \in 1 .. 1 |-> s[i]]  BY <2>2, <2>3 DEF Scopes
  <2>5. s[1] = r
    <3>1. 1 \in DOMAIN act  BY <2>3
    <3>2. Scopes[1] = [kind |-> act[1].kind, catches |-> act[1].frame # None]
      BY <3>1 DEF Scopes
    <3>3. act[1].kind = "fn" /\ (act[1].frame # None) = FALSE  BY <2>1, <2>3
    <3>4. QED  BY <2>2, <3>2, <3>3
  <2> HIDE DEF r
  <2>6. s \in Seq({r}) /\ Len(s) = 1
    <3>1. \A i \in 1 .. 1 : s[i] \in {r}  BY <2>5
    <3>2. QED  BY <2>4, <3>1
  <2>7. <<r>> \in Seq({r}) /\ Len(<<r>>) = 1 /\ <<r>>[1] = r  OBVIOUS
  <2>8. \A i \in 1 .. Len(s) : s[i] = <<r>>[i]
    <3>1. \A i \in 1 .. Len(s) : i = 1  BY <2>6
    <3>2. QED  BY <2>5, <2>7, <3>1
  <2>9. s = <<r>>  BY <2>6, <2>7, <2>8, SeqEqual
  <2>10. QED  BY <2>2, <2>9 DEF r
<1>3. QED  BY <1>1, <1>2 DEF Promise!Init

\* Entering.
LEMMA EntersPromise ==
  ASSUME StackInv, StackInv', Running, Enters
  PROVE  Promise!Enter
<1>1. PICK a : a = act  OBVIOUS
<1>2. PICK x \in Activation : act' = Append(a, x) /\ UNCHANGED status  BY <1>1 DEF Enters
<1>3. Scopes' = Append(Scopes, [kind |-> x.kind, catches |-> x.frame # None])
  <2>1. a \in Seq(Activation)  BY <1>1 DEF StackInv
  <2>2. ScopesOf(Append(a, x)) =
          Append(ScopesOf(a), [kind |-> x.kind, catches |-> x.frame # None])
    BY <2>1, ScopesEnter
  <2>3. QED  BY <1>1, <1>2, <2>2, Mapped
<1>4. /\ x.kind \in Promise!Kind /\ (x.frame # None) \in BOOLEAN
      /\ (x.frame # None) => x.kind = "body"
  BY DEF Activation, Promise!Kind
<1>5. status = "run" /\ UNCHANGED status  BY <1>2 DEF Running
<1>6. \E k \in Promise!Kind, c \in BOOLEAN :
        /\ c => k = "body"
        /\ Scopes' = Append(Scopes, [kind |-> k, catches |-> c])
  BY <1>3, <1>4
<1>7. QED  BY <1>5, <1>6 DEF Promise!Enter

\* A way out of scopes of one function, or of the function.
LEMMA EndsPromise ==
  ASSUME StackInv, StackInv', Running, Ends
  PROVE  Promise!Leave \/ Promise!Finish
<1>1. PICK a, fr, lv, s : a = act /\ fr = frames /\ lv = live /\ s = Scopes  OBVIOUS
<1>2. PICK m \in 0 .. Len(act) - 1, k \in Nat, gone \in SUBSET live :
        /\ WayOut(act, live, m, k, gone) /\ LeaveTo(SubSeq(act, 1, m), k, gone)
        /\ \A i \in m + 2 .. Len(act) : act[i].kind # "fn"
  BY DEF Ends
<1>3. Sound(a, fr, lv) /\ WayOut(a, lv, m, k, gone)  BY <1>1, <1>2 DEF StackInv
<1>4. k <= Len(fr) /\ gone \subseteq lv /\ (m = 0 <=> SubSeq(a, 1, m) = << >>)
  BY <1>3, SoundLeave DEF WayOut
<1>5. /\ act' = SubSeq(a, 1, m)
      /\ status' = IF m = 0 THEN "done" ELSE status
  BY <1>1, <1>2, <1>4 DEF LeaveTo
<1>6. a \in Seq(Activation) /\ Len(a) \in Nat /\ m \in 0 .. Len(a) /\ m \in Nat
  BY <1>1, <1>2 DEF StackInv
<1>7. /\ s = ScopesOf(a) /\ Len(s) = Len(a)
      /\ \A i \in 1 .. Len(a) : s[i].kind = a[i].kind
  <2>1. s = ScopesOf(a)  BY <1>1, Mapped
  <2>2. /\ Len(ScopesOf(a)) = Len(a)
        /\ \A i \in 1 .. Len(a) : ScopesOf(a)[i].kind = a[i].kind
    BY <1>6, ScopesAre
  <2>3. QED  BY <2>1, <2>2
<1>8. Scopes' = SubSeq(s, 1, m)
  <2>1. ScopesOf(SubSeq(a, 1, m)) = SubSeq(ScopesOf(a), 1, m)  BY <1>6, ScopesLeave
  <2>2. QED  BY <1>5, <1>7, <2>1, Mapped
<1>9. \A i \in m + 2 .. Len(s) : s[i].kind # "fn"
  <2>1. \A i \in m + 2 .. Len(a) : i \in 1 .. Len(a)  BY <1>6
  <2>2. QED  BY <1>1, <1>2, <1>7, <2>1
<1>10. Promise!InOneFunction(m + 1)
  <2>1. m + 1 + 1 = m + 2  BY <1>6
  <2>2. QED  BY <1>1, <1>9, <2>1 DEF Promise!InOneFunction
<1>11. CASE m = 0
  <2>1. Scopes' = << >>
    <3>1. Len(s) \in Nat  BY <1>6, <1>7
    <3>2. SubSeq(s, 1, 0) = << >>  BY SubSeqEmpty
    <3>3. QED  BY <1>8, <1>11, <3>2
  <2>2. m + 1 = 1  BY <1>11
  <2>3. QED  BY <1>5, <1>10, <1>11, <2>1, <2>2 DEF Running, Promise!Finish
<1>12. CASE m # 0
  <2>1. m \in 1 .. Len(Scopes) - 1  BY <1>1, <1>2, <1>6, <1>7, <1>12
  <2>2. status = "run" /\ UNCHANGED status  BY <1>5, <1>12 DEF Running
  <2>3. Scopes' = SubSeq(Scopes, 1, m)  BY <1>1, <1>8
  <2>4. QED  BY <1>10, <2>1, <2>2, <2>3 DEF Promise!Leave
<1>13. QED  BY <1>11, <1>12

\* The largest of a set of numbers.
LEMMA IsMax ==
  ASSUME NEW S, S \subseteq Nat, NEW n \in S, \A j \in S : j <= n
  PROVE  Promise!Max(S) = n
<1>1. \A y \in S : n >= y  OBVIOUS
<1>2. PICK x : x = Promise!Max(S)  OBVIOUS
<1>3. x \in S /\ \A y \in S : x >= y  BY <1>1, <1>2 DEF Promise!Max
<1>4. x >= n /\ n >= x  BY <1>1, <1>3
<1>5. x \in Nat /\ n \in Nat  BY <1>3
<1>6. QED  BY <1>2, <1>4, <1>5

\* A raise is a raise: it continues after the innermost body that catches, and
\* stops the program only when there is none.
LEMMA RaisePromise ==
  ASSUME ~BreakThrough, StackInv, StackInv', Raise
  PROVE  Promise!Raise
<1>1. PICK a, fr, lv, s : a = act /\ fr = frames /\ lv = live /\ s = Scopes  OBVIOUS
<1>2. Running /\ status = "run"  BY DEF Raise, Running
<1>3. /\ Sound(a, fr, lv) /\ Matched(a, fr) /\ a \in Seq(Activation) /\ fr \in Seq(Frame)
      /\ Len(a) \in Nat /\ DOMAIN a = 1 .. Len(a)
  BY <1>1, <1>2 DEF StackInv, Sound
<1>4. s = ScopesOf(a)  BY <1>1, Mapped
<1>5. {i \in DOMAIN s : s[i].catches} = Catching(a, 0)
  <2>1. /\ DOMAIN ScopesOf(a) = 1 .. Len(a)
        /\ \A i \in 1 .. Len(a) : ScopesOf(a)[i].catches <=> a[i].frame # None
    BY <1>3, ScopesAre
  <2>2. \A i \in 1 .. Len(a) : s[i].catches <=> a[i].frame # None  BY <1>4, <2>1
  <2>3. 0 + 1 .. Len(a) = 1 .. Len(a)  OBVIOUS
  <2>4. QED  BY <1>4, <2>1, <2>2, <2>3 DEF Catching
<1>6. CASE fr = << >>
  <2>1. Catching(a, 0) = {}
    <3>1. Above(a, 0) = 0  BY <1>3, <1>6 DEF Matched
    <3>2. QED  BY <1>3, <3>1, AboveNat, FS_EmptySet DEF Above
  <2>2. status' = "panic" /\ act' = act  BY <1>1, <1>6 DEF Raise
  <2>3. UNCHANGED Scopes  BY <1>1, <2>2, Mapped
  <2>4. QED  BY <1>1, <1>2, <1>5, <2>1, <2>2, <2>3 DEF Promise!Raise
<1>7. CASE fr # << >>
  <2>1. /\ \E n \in 1 .. Len(a) : a[n].frame = fr[1]
        /\ \A n \in 1 .. Len(a) : a[n].frame = fr[1] => Above(a, n) = 0 /\ Above(a, n - 1) = 1
    BY <1>3, <1>7, TopFrame
  <2>2. PICK n \in 1 .. Len(a) : a[n].frame = fr[1] /\ CatchPath(n)
    <3>1. {n \in DOMAIN act : act[n].frame = Head(frames)} # {}  BY <1>1, <1>3, <2>1
    <3>2. frames # << >>  BY <1>1, <1>7
    <3>3. PICK n \in {n \in DOMAIN act : act[n].frame = Head(frames)} : CatchPath(n)
      BY <3>1, <3>2 DEF Raise
    <3>4. QED  BY <1>1, <1>3, <3>3
  <2>3. a[n].frame # None  BY <1>3, <1>7, <2>2, CatchAssumption
  <2>4. n \in Catching(a, 0) /\ \A j \in Catching(a, 0) : j <= n
    <3>1. \A i \in n + 1 .. Len(a) : a[i].frame = None  BY <1>3, <2>1, <2>2, AboveTop
    <3>2. QED  BY <1>3, <2>3, <3>1 DEF Catching
  <2>5. Promise!Max(Catching(a, 0)) = n
    <3>1. Catching(a, 0) \subseteq Nat  BY DEF Catching
    <3>2. QED  BY <2>4, <3>1, IsMax
  <2>6. n \in 2 .. Len(a) /\ n - 1 \in 1 .. Len(a) /\ n - 1 \in 0 .. Len(a)
        /\ a[n].evs \subseteq lv
    <3>1. a[1].frame = None /\ a[n].evs \subseteq lv  BY <1>1, <1>2, <1>3, Facts
    <3>2. n # 1  BY <2>3, <3>1
    <3>3. QED  BY <1>3, <3>1, <3>2
  <2>7. SubSeq(a, 1, n - 1) # << >>
    <3>1. Len(SubSeq(a, 1, n - 1)) = n - 1  BY <1>3, <2>6, Outer
    <3>2. Len(<< >>) = 0  OBVIOUS
    <3>3. QED  BY <2>6, <3>1, <3>2
  <2>8. 1 <= Len(fr)  BY <1>3, <1>7
  <2>9. act' = SubSeq(a, 1, n - 1) /\ status' = status
    BY <1>1, <2>2, <2>6, <2>7, <2>8 DEF CatchPath, LeaveTo
  <2>10. Scopes' = SubSeq(s, 1, n - 1)
    <3>1. ScopesOf(SubSeq(a, 1, n - 1)) = SubSeq(ScopesOf(a), 1, n - 1)
      BY <1>3, <2>6, ScopesLeave
    <3>2. QED  BY <1>4, <2>9, <3>1, Mapped
  <2>11. QED  BY <1>1, <1>2, <1>5, <2>4, <2>5, <2>9, <2>10 DEF Promise!Raise
<1>8. QED  BY <1>6, <1>7

\* The generated code implements catching by innermost scope, in every program
\* without breaks through bodies.
THEOREM RaiseIsCaughtInnermost ==
  ASSUME ~BreakThrough
  PROVE  Spec => CatchesInnermost
<1>1. StackInv /\ StackInv' /\ [Next]_vars => [Promise!Next]_(Promise!vars)
  <2> SUFFICES ASSUME StackInv, StackInv', [Next]_vars
               PROVE  Promise!Next \/ UNCHANGED Promise!vars
    OBVIOUS
  <2>1. CASE UNCHANGED vars
    <3>1. act' = act /\ status' = status  BY <2>1 DEF vars
    <3>2. Scopes' = Scopes  BY <3>1, Mapped
    <3>3. QED  BY <3>1, <3>2 DEF Promise!vars
  <2>2. CASE Running /\ Enters  BY <2>2, EntersPromise DEF Promise!Next
  <2>3. CASE Running /\ Ends  BY <2>3, EndsPromise DEF Promise!Next
  <2>4. CASE Raise  BY <2>4, RaisePromise DEF Promise!Next
  <2>5. QED  BY <2>1, <2>2, <2>3, <2>4, Steps
<1>2. StackInv /\ StackInv' /\ [Next]_vars => [Raise => Promise!Raise]_vars
  BY RaisePromise
<1>3. Spec => Promise!Spec  BY <1>1, Invariance, PromiseStarts, PTL DEF Spec, Promise!Spec
<1>4. Spec => [][Raise => Promise!Raise]_vars  BY <1>2, Invariance, PTL DEF Spec
<1>5. QED  BY <1>3, <1>4 DEF CatchesInnermost

-----------------------------------------------------------------------------
(* The order of declarations.                                                *)

\* A set that no call leaves, and what is reached from a function: it is in every
\* such set that the function is in.
Closed(G, S)  == \A x \in S : G[x] \subseteq S
Path(G, x, y) == \A S \in SUBSET Scc!Node : x \in S /\ Closed(G, S) => y \in S

OnStack == {stack[i] : i \in 1..Len(stack)}
Placed == {x \in Scc!Node : \E i \in 1..Len(result) : x \in result[i]}
Seen    == {x \in Scc!Node : index[x] # 0}

\* The function whose strongconnect is the k-th call, and those that were numbered
\* under it and wait on the stack, itself included, but not under the next one.
Fn(k)  == calls[k].node
Under(k) == {x \in OnStack : /\ index[Fn(k)] <= index[x]
                             /\ k < Len(calls) => index[x] < index[Fn(k + 1)]}

SccShapes ==
    /\ graph \in [Scc!Node -> SUBSET Scc!Node]
    /\ index \in [Scc!Node -> Nat] /\ low \in [Scc!Node -> Nat]
    /\ stack \in Seq(Scc!Node)
    /\ calls \in Seq([node : Scc!Node, rest : SUBSET Scc!Node])
    /\ result \in Seq(SUBSET Scc!Node)

\* Numbers count the functions seen; stack and calls are in their order; what was
\* seen is on the stack or in a component.
SccNumbers ==
    /\ \A x \in Scc!Node : index[x] <= Cardinality(Seen) /\ low[x] <= Cardinality(Seen)
    /\ \A i, j \in 1..Len(stack) : i < j => index[stack[i]] < index[stack[j]]
    /\ \A i, j \in 1..Len(calls) : i < j => index[Fn(i)] < index[Fn(j)]
    /\ \A k \in 1..Len(calls) : Fn(k) \in OnStack
    /\ OnStack \subseteq Seen
    /\ Seen = OnStack \cup Placed /\ OnStack \cap Placed = {}

\* What a call has looked at was seen, and a call that has returned has looked at
\* everything.
SccEdges ==
    /\ \A k \in 1..Len(calls) : /\ calls[k].rest \subseteq graph[Fn(k)]
                                /\ graph[Fn(k)] \ calls[k].rest \subseteq Seen
    /\ \A x \in OnStack : x \in {Fn(k) : k \in 1..Len(calls)} \/ graph[x] \subseteq Seen

\* On the stack each reaches those above it, and each reaches a running call that
\* is not above it.
SccPaths ==
    /\ \A x, y \in OnStack : index[x] <= index[y] => Path(graph, x, y)
    /\ \A x \in OnStack : \E k \in 1..Len(calls) :
           index[Fn(k)] <= index[x] /\ Path(graph, x, Fn(k))

\* A lowlink is the number of a function on the stack that is reached, and no
\* lookup under a call found a lower number than the call's lowlink.
SccLows ==
    /\ \A x \in OnStack : /\ low[x] <= index[x]
                          /\ \E y \in OnStack : index[y] = low[x] /\ Path(graph, x, y)
    /\ \A k \in 1..Len(calls) : \A x \in Under(k) : \A y \in graph[x] \cap OnStack :
           \/ low[Fn(k)] <= index[y]
           \/ x = Fn(k) /\ y \in calls[k].rest

\* Components are components, in the order of their calls, each function in one.
SccResult ==
    /\ \A i \in 1..Len(result) : \A x \in result[i] :
           /\ graph[x] \subseteq UNION {result[j] : j \in 1..i}
           /\ \A y \in Scc!Node : y \in result[i] <=> Path(graph, x, y) /\ Path(graph, y, x)
    /\ \A i, j \in 1..Len(result) : i # j => result[i] \cap result[j] = {}

SccInv == SccShapes /\ SccNumbers /\ SccEdges /\ SccPaths /\ SccLows /\ SccResult

\* Paths can be put together.
LEMMA PathFacts ==
  ASSUME NEW G \in [Scc!Node -> SUBSET Scc!Node]
  PROVE  /\ \A x \in Scc!Node : Path(G, x, x)
         /\ \A x, y \in Scc!Node : y \in G[x] => Path(G, x, y)
         /\ \A x, y, z \in Scc!Node : Path(G, x, y) /\ Path(G, y, z) => Path(G, x, z)
BY DEF Path, Closed

\* What the model calls the component of a function.
LEMMA ComponentIs ==
  ASSUME NEW v \in Scc!Node
  PROVE  Scc!Component(v) = {w \in Scc!Node : Path(graph, v, w) /\ Path(graph, w, v)}
BY DEF Scc!Component, Scc!Reached, Scc!KeepsToItself, Path, Closed

\* The smaller of two numbers.
LEMMA LeastOfTwo ==
  ASSUME NEW a \in Nat, NEW b \in Nat
  PROVE  /\ Scc!Least({a, b}) \in {a, b}
         /\ Scc!Least({a, b}) <= a /\ Scc!Least({a, b}) <= b
<1>1. \E m \in {a, b} : \A n \in {a, b} : m <= n
  OBVIOUS
<1>2. QED
  BY <1>1 DEF Scc!Least

\* What the library's operators on sequences are.
LEMMA SeqWords ==
  ASSUME NEW s
  PROVE  /\ Scc!Range(s) = {s[i] : i \in DOMAIN s}
         /\ Scc!Last(s) = s[Len(s)]
         /\ Scc!Front(s) = SubSeq(s, 1, Len(s) - 1)
         /\ Scc!IsInjective(s) <=> \A i, j \in DOMAIN s : s[i] = s[j] => i = j
BY DEF Scc!Range, Scc!Last, Scc!Front, Scc!IsInjective

\* The functions seen can be counted, and one more is one more.
LEMMA SeenIsFinite ==
  ASSUME NEW S, S \subseteq Scc!Node
  PROVE  /\ IsFiniteSet(S) /\ Cardinality(S) \in 0..N
         /\ \A v \in Scc!Node \ S : Cardinality(S \cup {v}) = Cardinality(S) + 1
<1>1. N \in Nat
  BY SccAssumption DEF Scc!NAssumption
<1>2. IsFiniteSet(Scc!Node) /\ Cardinality(Scc!Node) = N
  BY <1>1, FS_Interval DEF Scc!Node
<1>3. QED
  BY <1>1, <1>2, FS_Subset, FS_CardinalityType, FS_AddElement

\* The parts of the stack below a function and from it on.
LEMMA StackParts ==
  ASSUME SccInv, NEW p \in 1..Len(stack)
  PROVE  /\ {stack[i] : i \in p..Len(stack)} = {x \in OnStack : index[stack[p]] <= index[x]}
         /\ {stack[i] : i \in 1..(p - 1)} = {x \in OnStack : index[x] < index[stack[p]]}
<1>1. \A i \in 1..Len(stack) : stack[i] \in Scc!Node /\ index[stack[i]] \in Nat
  BY DEF SccInv, SccShapes
<1>2. Len(stack) \in Nat
  BY DEF SccInv, SccShapes
<1>3. \A i \in p..Len(stack) : i \in 1..Len(stack) /\ index[stack[p]] <= index[stack[i]]
  <2>1. SUFFICES ASSUME NEW i \in p..Len(stack)
                 PROVE  i \in 1..Len(stack) /\ index[stack[p]] <= index[stack[i]]
    OBVIOUS
  <2>2. i \in 1..Len(stack) /\ (p = i \/ p < i)
    BY <1>2
  <2>3. QED
    BY <1>1, <2>2 DEF SccInv, SccNumbers
<1>4. \A i \in 1..(p - 1) : i \in 1..Len(stack) /\ index[stack[i]] < index[stack[p]]
  <2>1. SUFFICES ASSUME NEW i \in 1..(p - 1)
                 PROVE  i \in 1..Len(stack) /\ index[stack[i]] < index[stack[p]]
    OBVIOUS
  <2>2. i \in 1..Len(stack) /\ i < p
    BY <1>2
  <2>3. QED
    BY <2>2 DEF SccInv, SccNumbers
<1>5. \A i \in 1..Len(stack) : i \in p..Len(stack) \/ i \in 1..(p - 1)
  BY <1>2
<1>6. \A x \in OnStack : \E i \in 1..Len(stack) : x = stack[i]
  BY DEF OnStack
<1>7. \A i \in 1..Len(stack) : stack[i] \in OnStack
  BY DEF OnStack
<1>8. \A i, j \in 1..Len(stack) :
          ~(index[stack[i]] < index[stack[j]] /\ index[stack[j]] <= index[stack[i]])
  BY <1>1
<1>9. QED
  BY <1>3, <1>4, <1>5, <1>6, <1>7, <1>8

\* The types of what a call has in hand.
LEMMA CallShapes ==
  ASSUME SccInv
  PROVE  /\ Len(calls) \in Nat /\ Len(stack) \in Nat
         /\ graph \in [Scc!Node -> SUBSET Scc!Node]
         /\ \A x \in Scc!Node : index[x] \in Nat /\ low[x] \in Nat
         /\ \A x \in OnStack : x \in Scc!Node
         /\ \A k \in 1..Len(calls) : /\ Fn(k) \in Scc!Node /\ Fn(k) \in OnStack
                                      /\ calls[k].rest \subseteq Scc!Node
<1>1. /\ graph \in [Scc!Node -> SUBSET Scc!Node]
      /\ index \in [Scc!Node -> Nat] /\ low \in [Scc!Node -> Nat]
      /\ stack \in Seq(Scc!Node)
      /\ calls \in Seq([node : Scc!Node, rest : SUBSET Scc!Node])
  BY DEF SccInv, SccShapes
<1>2. \A x \in OnStack : x \in Scc!Node
  BY <1>1 DEF OnStack
<1>3. \A k \in 1..Len(calls) : calls[k] \in [node : Scc!Node, rest : SUBSET Scc!Node]
  BY <1>1, ElementOfSeq
<1>4. \A k \in 1..Len(calls) : Fn(k) \in OnStack
  BY DEF SccInv, SccNumbers
<1>5. QED
  BY <1>1, <1>2, <1>3, <1>4 DEF Fn

\* The head of tarjan_strongconnect, called for the first function of all or by the
\* call on top.
LEMMA VisitKept ==
  ASSUME SccInv, NEW v \in Scc!Node, index[v] = 0, NEW outer, Scc!Visit(v, outer),
         outer \in Seq([node : Scc!Node, rest : SUBSET Scc!Node]), Len(outer) = Len(calls),
         \A k \in 1..Len(calls) : /\ outer[k].node = Fn(k)
                                  /\ outer[k].rest \subseteq calls[k].rest
                                  /\ calls[k].rest \ outer[k].rest \subseteq {v},
         Len(calls) # 0 => v \in graph[Fn(Len(calls))]
  PROVE  SccInv'
<1> DEFINE c == Cardinality(Seen) + 1
<1>0. PICK n : n = Len(calls)
  OBVIOUS
<1>1. /\ n \in Nat /\ Len(stack) \in Nat
      /\ graph \in [Scc!Node -> SUBSET Scc!Node]
      /\ \A x \in Scc!Node : index[x] \in Nat /\ low[x] \in Nat
      /\ \A x \in OnStack : x \in Scc!Node
      /\ \A k \in 1..n : Fn(k) \in Scc!Node
  BY <1>0, CallShapes
<1>2. /\ Seen \subseteq Scc!Node /\ v \notin Seen /\ v \notin OnStack /\ v \notin Placed
      /\ c \in Nat \ {0} /\ Cardinality(Seen \cup {v}) = c
      /\ \A x \in Scc!Node : index[x] < c /\ low[x] < c
  <2>1. Seen \subseteq Scc!Node /\ v \notin Seen /\ v \notin OnStack /\ v \notin Placed
    BY DEF Seen, SccInv, SccNumbers
  <2>2. Cardinality(Seen) \in Nat /\ Cardinality(Seen \cup {v}) = c
    BY <2>1, SeenIsFinite
  <2>3. \A x \in Scc!Node : index[x] <= Cardinality(Seen) /\ low[x] <= Cardinality(Seen)
    BY DEF SccInv, SccNumbers
  <2>4. QED
    BY <1>1, <2>1, <2>2, <2>3
<1>3. /\ index' = [index EXCEPT ![v] = c] /\ low' = [low EXCEPT ![v] = c]
      /\ stack' = Append(stack, v)
      /\ calls' = Append(outer, [node |-> v, rest |-> graph[v]])
      /\ graph' = graph /\ result' = result
  <2>1. Scc!Cardinality(Scc!Visited) = Cardinality(Seen)
    BY DEF Scc!Cardinality, Cardinality, Scc!Visited, Seen
  <2>2. QED
    BY <2>1 DEF Scc!Visit
<1> HIDE DEF c
<1>4. /\ index'[v] = c /\ \A x \in Scc!Node \ {v} : index'[x] = index[x]
      /\ low'[v] = c /\ \A x \in Scc!Node \ {v} : low'[x] = low[x]
  BY <1>3 DEF SccInv, SccShapes
<1>5. /\ Len(stack') = Len(stack) + 1 /\ stack'[Len(stack) + 1] = v
      /\ \A i \in 1..Len(stack) : stack'[i] = stack[i]
  BY <1>3 DEF SccInv, SccShapes
<1>6. /\ Len(calls') = n + 1
      /\ Fn(n + 1)' = v /\ calls'[n + 1].rest = graph[v]
      /\ \A k \in 1..n : Fn(k)' = Fn(k) /\ calls'[k].rest = outer[k].rest
  <2>1. /\ Len(calls') = n + 1 /\ calls'[n + 1] = [node |-> v, rest |-> graph[v]]
        /\ \A k \in 1..n : calls'[k] = outer[k]
    BY <1>0, <1>3
  <2>2. QED
    BY <1>0, <2>1 DEF Fn
<1>7. OnStack' = OnStack \cup {v}
  BY <1>1, <1>5 DEF OnStack
<1>8. Seen' = Seen \cup {v} /\ Placed' = Placed
  BY <1>1, <1>2, <1>3, <1>4 DEF Seen, Placed
<1>9. SccShapes'
  BY <1>2, <1>3 DEF SccInv, SccShapes
<1>10. SccNumbers'
  <2>1. \A x \in Scc!Node : index'[x] <= Cardinality(Seen') /\ low'[x] <= Cardinality(Seen')
    BY <1>1, <1>2, <1>4, <1>8
  <2>2. \A i, j \in 1..Len(stack') : i < j => index'[stack'[i]] < index'[stack'[j]]
    <3>1. SUFFICES ASSUME NEW i \in 1..Len(stack'), NEW j \in 1..Len(stack'), i < j
                   PROVE  index'[stack'[i]] < index'[stack'[j]]
      OBVIOUS
    <3>2. i \in 1..Len(stack) /\ (j \in 1..Len(stack) \/ j = Len(stack) + 1)
      <4>1. Len(stack) \in Nat /\ Len(stack') = Len(stack) + 1
        BY <1>1, <1>5
      <4>2. QED
        BY <3>1, <4>1
    <3>3. \A k \in 1..Len(stack) : stack[k] \in OnStack
      BY DEF OnStack
    <3>4. \A k \in 1..Len(stack) : /\ stack'[k] = stack[k] /\ index'[stack[k]] = index[stack[k]]
                                    /\ index[stack[k]] < c
      BY <1>1, <1>2, <1>4, <1>5, <3>3
    <3>5. QED
      BY <1>0, <1>4, <1>5, <3>1, <3>2, <3>4 DEF SccInv, SccNumbers
  <2>3. \A i, j \in 1..Len(calls') : i < j => index'[Fn(i)'] < index'[Fn(j)']
    <3>1. SUFFICES ASSUME NEW i \in 1..Len(calls'), NEW j \in 1..Len(calls'), i < j
                   PROVE  index'[Fn(i)'] < index'[Fn(j)']
      OBVIOUS
    <3>2. i \in 1..n /\ (j \in 1..n \/ j = n + 1)
      BY <1>1, <1>6, <3>1
    <3>3. \A k \in 1..n : Fn(k)' = Fn(k) /\ index'[Fn(k)] = index[Fn(k)] /\ index[Fn(k)] < c
      BY <1>0, <1>1, <1>2, <1>4, <1>6, CallShapes
    <3>4. QED
      BY <1>0, <1>4, <1>6, <3>1, <3>2, <3>3 DEF SccInv, SccNumbers
  <2>4. \A k \in 1..Len(calls') : Fn(k)' \in OnStack'
    BY <1>0, <1>1, <1>6, <1>7, CallShapes
  <2>5. /\ OnStack' \subseteq Seen' /\ Seen' = OnStack' \cup Placed'
        /\ OnStack' \cap Placed' = {}
    BY <1>0, <1>2, <1>7, <1>8 DEF SccInv, SccNumbers
  <2>6. QED
    BY <2>1, <2>2, <2>3, <2>4, <2>5 DEF SccNumbers
<1>11. SccEdges'
  <2>1. SUFFICES ASSUME TRUE
                 PROVE  /\ \A k \in 1..Len(calls') :
                              /\ calls'[k].rest \subseteq graph[Fn(k)']
                              /\ graph[Fn(k)'] \ calls'[k].rest \subseteq Seen'
                        /\ \A x \in OnStack' : \/ x \in {Fn(k)' : k \in 1..Len(calls')}
                                               \/ graph[x] \subseteq Seen'
    BY <1>3 DEF SccEdges
  <2>2. \A k \in 1..Len(calls') : k \in 1..n \/ k = n + 1
    BY <1>1, <1>6
  <2>3. \A k \in 1..n : k \in 1..Len(calls')
    BY <1>1, <1>6
  <2>4. n + 1 \in 1..Len(calls')
    BY <1>1, <1>6
  <2>5. QED
    BY <1>0, <1>6, <1>7, <1>8, <2>2, <2>3, <2>4 DEF SccInv, SccEdges
<1>12. \A x \in OnStack : Path(graph, x, v)
  <2>1. SUFFICES ASSUME NEW x \in OnStack PROVE Path(graph, x, v)
    OBVIOUS
  <2>2. PICK k \in 1..n : index[Fn(k)] <= index[x] /\ Path(graph, x, Fn(k))
    BY <1>0 DEF SccInv, SccPaths
  <2>3. n \in 1..n /\ n # 0 /\ (k = n \/ k < n)
    BY <1>1
  <2>4. index[Fn(k)] <= index[Fn(n)]
    BY <1>0, <1>1, <2>3 DEF SccInv, SccNumbers
  <2>5. Path(graph, Fn(k), Fn(n))
    BY <1>0, <2>3, <2>4, CallShapes DEF SccInv, SccPaths
  <2>6. Path(graph, Fn(n), v)
    BY <1>0, <1>1, <2>3, PathFacts
  <2>7. QED
    BY <1>1, <2>2, <2>3, <2>5, <2>6, PathFacts
<1>13. SccPaths'
  <2>1. \A x, y \in OnStack' : index'[x] <= index'[y] => Path(graph, x, y)
    <3>1. SUFFICES ASSUME NEW x \in OnStack', NEW y \in OnStack', index'[x] <= index'[y]
                   PROVE  Path(graph, x, y)
      OBVIOUS
    <3>2. CASE y = v
      BY <1>1, <1>7, <1>12, <3>2, PathFacts
    <3>3. CASE y # v /\ x = v
      <4>1. index'[y] < c /\ index'[y] \in Nat
        BY <1>1, <1>2, <1>4, <1>7, <3>3
      <4>2. QED
        BY <1>2, <1>4, <3>1, <3>3, <4>1
    <3>4. CASE y # v /\ x # v
      BY <1>0, <1>1, <1>4, <1>7, <3>1, <3>4 DEF SccInv, SccPaths
    <3>5. QED
      BY <3>2, <3>3, <3>4
  <2>2. \A x \in OnStack' : \E k \in 1..Len(calls') :
            index'[Fn(k)'] <= index'[x] /\ Path(graph, x, Fn(k)')
    <3>1. ASSUME NEW x \in OnStack
          PROVE  \E k \in 1..Len(calls') :
                     index'[Fn(k)'] <= index'[x] /\ Path(graph, x, Fn(k)')
      <4>1. PICK k \in 1..n : index[Fn(k)] <= index[x] /\ Path(graph, x, Fn(k))
        BY <1>0 DEF SccInv, SccPaths
      <4>2. k \in 1..Len(calls') /\ Fn(k)' = Fn(k) /\ index'[x] = index[x]
            /\ index'[Fn(k)] = index[Fn(k)]
        BY <1>0, <1>1, <1>2, <1>4, <1>6, CallShapes
      <4>3. QED
        BY <4>1, <4>2
    <3>2. n + 1 \in 1..Len(calls') /\ index'[Fn(n + 1)'] <= index'[v]
          /\ Path(graph, v, Fn(n + 1)')
      BY <1>1, <1>2, <1>4, <1>6, PathFacts
    <3>3. QED
      BY <1>7, <3>1, <3>2
  <2>3. QED
    BY <1>3, <2>1, <2>2 DEF SccPaths
<1>14. SccLows'
  <2>1. \A x \in OnStack' : /\ low'[x] <= index'[x]
                            /\ \E y \in OnStack' : index'[y] = low'[x] /\ Path(graph, x, y)
    <3>1. ASSUME NEW x \in OnStack
          PROVE  /\ low'[x] <= index'[x]
                 /\ \E y \in OnStack' : index'[y] = low'[x] /\ Path(graph, x, y)
      <4>1. low[x] <= index[x] /\ \E y \in OnStack : index[y] = low[x] /\ Path(graph, x, y)
        BY DEF SccInv, SccLows
      <4>2. QED
        BY <1>1, <1>2, <1>4, <1>7, <4>1
    <3>2. low'[v] <= index'[v] /\ index'[v] = low'[v] /\ Path(graph, v, v)
      BY <1>1, <1>2, <1>4, PathFacts
    <3>3. QED
      BY <1>7, <3>1, <3>2
  <2>2. ASSUME NEW k \in 1..Len(calls'), NEW x \in Under(k)', NEW y \in graph[x] \cap OnStack'
        PROVE  low'[Fn(k)'] <= index'[y] \/ (x = Fn(k)' /\ y \in calls'[k].rest)
    <3>1. /\ x \in OnStack' /\ index'[Fn(k)'] <= index'[x]
          /\ k < n + 1 => index'[x] < index'[Fn(k + 1)']
      BY <1>6, <2>2 DEF Under
    <3>2. CASE k = n + 1
      <4>1. x = v
        BY <1>1, <1>2, <1>4, <1>6, <1>7, <3>1, <3>2
      <4>2. QED
        BY <1>6, <2>2, <3>2, <4>1
    <3>3. CASE k # n + 1
      <4>1. k \in 1..n /\ (k < n => k + 1 \in 1..n) /\ (k = n \/ k < n)
        BY <1>1, <1>6, <3>3
      <4>2. /\ Fn(k)' = Fn(k) /\ Fn(k) # v /\ index'[Fn(k)] = index[Fn(k)]
            /\ low'[Fn(k)] = low[Fn(k)]
        BY <1>0, <1>1, <1>2, <1>4, <1>6, <4>1, CallShapes
      <4>3. x # v
        <5>1. k = n => Fn(k + 1)' = v
          BY <1>6
        <5>2. k < n => /\ Fn(k + 1)' = Fn(k + 1) /\ Fn(k + 1) \in Scc!Node \ {v}
                       /\ index'[Fn(k + 1)] = index[Fn(k + 1)] /\ index[Fn(k + 1)] < c
          BY <1>0, <1>1, <1>2, <1>4, <1>6, <4>1, CallShapes
        <5>3. QED
          BY <1>1, <1>2, <1>4, <3>1, <4>1, <5>1, <5>2
      <4>4. x \in OnStack /\ index'[x] = index[x]
        BY <1>1, <1>4, <1>7, <3>1, <4>3
      <4>5. x \in Under(k)
        <5>1. k < n => /\ Fn(k + 1)' = Fn(k + 1) /\ Fn(k + 1) \in Scc!Node \ {v}
                       /\ index'[Fn(k + 1)] = index[Fn(k + 1)]
          BY <1>0, <1>1, <1>2, <1>4, <1>6, <4>1, CallShapes
        <5>2. QED
          BY <1>1, <3>1, <4>1, <4>2, <4>4, <1>0, <5>1 DEF Under
      <4>6. CASE y = v
        <5>1. low[Fn(k)] <= index[Fn(k)]
          BY <1>0, <4>1, CallShapes DEF SccInv, SccLows
        <5>2. QED
          BY <1>1, <1>2, <1>4, <4>1, <4>2, <4>6, <5>1
      <4>7. CASE y # v
        <5>1. y \in OnStack /\ index'[y] = index[y]
          BY <1>1, <1>4, <1>7, <4>7
        <5>2. low[Fn(k)] <= index[y] \/ (x = Fn(k) /\ y \in calls[k].rest)
          BY <1>0, <2>2, <4>1, <4>5, <5>1 DEF SccInv, SccLows
        <5>3. QED
          BY <1>0, <1>6, <4>1, <4>2, <4>7, <5>1, <5>2
      <4>8. QED
        BY <4>6, <4>7
    <3>4. QED
      BY <3>2, <3>3
  <2>3. QED
    BY <1>3, <2>1, <2>2 DEF SccLows
<1>15. SccResult'
  BY <1>3 DEF SccInv, SccResult
<1>16. QED
  BY <1>9, <1>10, <1>11, <1>13, <1>14, <1>15 DEF SccInv

\* The loop of tarjan_scc calls it for a function that was not seen.
LEMMA RootKept ==
  ASSUME SccInv, Scc!Root
  PROVE  SccInv'
<1>1. calls = << >> /\ Scc!Visited # Scc!Node
      /\ Scc!Visit(Scc!Least(Scc!Node \ Scc!Visited), << >>)
  BY DEF Scc!Root
<1>2. PICK S : S = Scc!Node \ Scc!Visited
  OBVIOUS
<1>3. S \subseteq Nat /\ S # {} /\ \A x \in S : x \in Scc!Node /\ index[x] = 0
  <2>1. Scc!Node \subseteq Nat
    BY DEF Scc!Node
  <2>2. QED
    BY <1>1, <1>2, <2>1 DEF Scc!Visited
<1>4. Scc!Least(S) \in S
  BY <1>3, Smallest DEF Scc!Least
<1>5. PICK v \in Scc!Node : v = Scc!Least(S) /\ index[v] = 0
  BY <1>3, <1>4
<1>6. Scc!Visit(v, << >>)
  BY <1>1, <1>2, <1>5
<1>7. << >> \in Seq([node : Scc!Node, rest : SUBSET Scc!Node]) /\ Len(<< >>) = 0
  OBVIOUS
<1>8. Len(calls) = 0 /\ 1..Len(calls) = {}
  BY <1>1
<1>9. QED
  BY <1>5, <1>6, <1>7, <1>8, VisitKept

\* What the call on top has in hand.
LEMMA TopIs ==
  ASSUME SccInv, calls # << >>
  PROVE  \E n \in Nat \ {0} : /\ n = Len(calls) /\ n \in 1..n
                              /\ Scc!Top = calls[n] /\ Scc!Top.node = Fn(n)
                              /\ Fn(n) \in Scc!Node /\ Fn(n) \in OnStack
                              /\ Scc!Top.rest = calls[n].rest
                              /\ calls[n].rest \subseteq graph[Fn(n)]
                              /\ calls[n].rest \subseteq Scc!Node
<1>1. calls \in Seq([node : Scc!Node, rest : SUBSET Scc!Node])
  BY DEF SccInv, SccShapes
<1>2. PICK n : n = Len(calls)
  OBVIOUS
<1>3. n \in Nat \ {0} /\ n \in 1..n
  BY <1>1, <1>2
<1>4. Scc!Top = calls[n]
  BY <1>2, SeqWords DEF Scc!Top
<1>5. calls[n].rest \subseteq graph[Fn(n)]
  BY <1>2, <1>3 DEF SccInv, SccEdges
<1>6. QED
  BY <1>2, <1>3, <1>4, <1>5, CallShapes DEF Fn

\* A successor was looked at: the calls are the same, and one of them has less left.
LEMMA LookedIs ==
  ASSUME SccInv, calls # << >>, NEW w
  PROVE  /\ Scc!Looked(w) \in Seq([node : Scc!Node, rest : SUBSET Scc!Node])
         /\ Len(Scc!Looked(w)) = Len(calls)
         /\ \A k \in 1..Len(calls) :
                /\ Scc!Looked(w)[k].node = Fn(k)
                /\ Scc!Looked(w)[k].rest = IF k = Len(calls) THEN calls[k].rest \ {w}
                                                             ELSE calls[k].rest
<1>1. PICK n \in Nat \ {0} : n = Len(calls) /\ n \in 1..n
  BY TopIs
<1>2. calls \in Seq([node : Scc!Node, rest : SUBSET Scc!Node])
  BY DEF SccInv, SccShapes
<1>3. \A k \in 1..n : calls[k] \in [node : Scc!Node, rest : SUBSET Scc!Node]
  BY <1>1, <1>2, ElementOfSeq
<1>4. PICK r : r = [calls[n] EXCEPT !.rest = calls[n].rest \ {w}]
  OBVIOUS
<1>5. r \in [node : Scc!Node, rest : SUBSET Scc!Node] /\ r.node = calls[n].node
      /\ r.rest = calls[n].rest \ {w}
  BY <1>1, <1>3, <1>4
<1>6. Scc!Looked(w) = [calls EXCEPT ![n] = r]
  BY <1>1, <1>4 DEF Scc!Looked
<1>7. /\ [calls EXCEPT ![n] = r] \in Seq([node : Scc!Node, rest : SUBSET Scc!Node])
      /\ Len([calls EXCEPT ![n] = r]) = Len(calls)
      /\ \A k \in 1..n : [calls EXCEPT ![n] = r][k] = IF k = n THEN r ELSE calls[k]
  BY <1>1, <1>2, <1>5, ExceptSeq
<1>8. QED
  BY <1>1, <1>5, <1>6, <1>7 DEF Fn

\* The call on top looks at one of its successors.
LEMMA LookKept ==
  ASSUME SccInv, Scc!Look
  PROVE  SccInv'
<1>1. calls # << >>
  BY DEF Scc!Look
<1>2. PICK n \in Nat \ {0} : /\ n = Len(calls) /\ n \in 1..n
                             /\ Scc!Top.node = Fn(n) /\ Fn(n) \in Scc!Node /\ Fn(n) \in OnStack
                             /\ Scc!Top.rest = calls[n].rest
                             /\ calls[n].rest \subseteq graph[Fn(n)]
                             /\ calls[n].rest \subseteq Scc!Node
  BY <1>1, TopIs
<1>3. PICK w \in calls[n].rest :
         \/ w \notin Scc!Visited /\ Scc!Visit(w, Scc!Looked(w))
         \/ /\ w \in Scc!Visited
            /\ low' = Scc!Lowered(Fn(n), w)
            /\ calls' = Scc!Looked(w)
            /\ UNCHANGED <<graph, index, stack, result>>
  BY <1>2 DEF Scc!Look
<1>4. w \in Scc!Node /\ w \in graph[Fn(n)] /\ (w \in Scc!Visited <=> w \in Seen)
      /\ (w \notin Scc!Visited <=> index[w] = 0)
  BY <1>2 DEF Scc!Visited, Seen
<1>5. PICK outer : outer = Scc!Looked(w)
  OBVIOUS
<1>6. /\ outer \in Seq([node : Scc!Node, rest : SUBSET Scc!Node]) /\ Len(outer) = n
      /\ \A k \in 1..n : /\ outer[k].node = Fn(k)
                         /\ outer[k].rest = IF k = n THEN calls[k].rest \ {w}
                                                     ELSE calls[k].rest
  <2>1. /\ outer \in Seq([node : Scc!Node, rest : SUBSET Scc!Node])
        /\ Len(outer) = Len(calls)
        /\ \A k \in 1..Len(calls) :
               /\ outer[k].node = Fn(k)
               /\ outer[k].rest = IF k = Len(calls) THEN calls[k].rest \ {w} ELSE calls[k].rest
    BY <1>1, <1>5, LookedIs
  <2>2. QED
    BY <1>2, <2>1
<1>7. CASE w \notin Scc!Visited /\ Scc!Visit(w, Scc!Looked(w))
  <2>1. \A k \in 1..n : /\ outer[k].rest \subseteq calls[k].rest
                        /\ calls[k].rest \ outer[k].rest \subseteq {w}
    BY <1>6
  <2>2. QED
    BY <1>2, <1>4, <1>5, <1>6, <1>7, <2>1, VisitKept
<1>8. CASE /\ w \in Scc!Visited
           /\ low' = Scc!Lowered(Fn(n), w)
           /\ calls' = Scc!Looked(w)
           /\ UNCHANGED <<graph, index, stack, result>>
  <2>1. /\ OnStack' = OnStack /\ Seen' = Seen /\ Placed' = Placed
        /\ \A k : Fn(k)' = calls'[k].node
    BY <1>8 DEF OnStack, Seen, Placed, Fn
  <2>2. /\ Len(calls') = n
        /\ \A k \in 1..n : /\ Fn(k)' = Fn(k)
                           /\ calls'[k].rest = IF k = n THEN calls[k].rest \ {w}
                                                        ELSE calls[k].rest
    BY <1>5, <1>6, <1>8, <2>1
  <2>3. /\ low' \in [Scc!Node -> Nat]
        /\ \A x \in Scc!Node : low'[x] <= low[x] /\ (x # Fn(n) => low'[x] = low[x])
        /\ w \in OnStack => low'[Fn(n)] <= index[w]
        /\ low'[Fn(n)] = low[Fn(n)] \/ (w \in OnStack /\ low'[Fn(n)] = index[w])
    <3>1. low \in [Scc!Node -> Nat] /\ index[w] \in Nat /\ low[Fn(n)] \in Nat
      BY <1>2, <1>4, CallShapes DEF SccInv, SccShapes
    <3>2. w \in Scc!Range(stack) <=> w \in OnStack
      <4>1. DOMAIN stack = 1..Len(stack)
        BY DEF SccInv, SccShapes
      <4>2. QED
        BY <4>1, SeqWords DEF OnStack
    <3>3. PICK m : m = Scc!Least({low[Fn(n)], index[w]})
      OBVIOUS
    <3>4. m \in {low[Fn(n)], index[w]} /\ m <= low[Fn(n)] /\ m <= index[w] /\ m \in Nat
      BY <3>1, <3>3, LeastOfTwo
    <3>5. low' = IF w \in OnStack THEN [low EXCEPT ![Fn(n)] = m] ELSE low
      BY <1>8, <3>2, <3>3 DEF Scc!Lowered
    <3>6. QED
      BY <1>2, <3>1, <3>4, <3>5
  <2>4. SccShapes'
    BY <1>5, <1>6, <1>8, <2>3 DEF SccInv, SccShapes
  <2>5. SccNumbers'
    <3>1. \A x \in Scc!Node : low'[x] <= Cardinality(Seen)
      <4>1. Cardinality(Seen) \in Nat
        <5>1. Seen \subseteq Scc!Node
          BY DEF Seen
        <5>2. QED
          BY <5>1, SeenIsFinite
      <4>2. \A x \in Scc!Node : low[x] \in Nat /\ low'[x] \in Nat /\ low[x] <= Cardinality(Seen)
        BY <2>3, CallShapes DEF SccInv, SccNumbers
      <4>3. QED
        BY <2>3, <4>1, <4>2
    <3>2. \A i, j \in 1..Len(calls') : i < j => index'[Fn(i)'] < index'[Fn(j)']
      <4>1. \A i, j \in 1..n : i < j => index[Fn(i)] < index[Fn(j)]
        BY <1>2 DEF SccInv, SccNumbers
      <4>2. QED
        BY <1>8, <2>2, <4>1
    <3>3. \A k \in 1..Len(calls') : Fn(k)' \in OnStack'
      <4>1. \A k \in 1..n : Fn(k) \in OnStack
        BY <1>2 DEF SccInv, SccNumbers
      <4>2. QED
        BY <2>1, <2>2, <4>1
    <3>4. QED
      BY <1>8, <2>1, <3>1, <3>2, <3>3 DEF SccInv, SccNumbers
  <2>6. SccEdges'
    <3>1. \A k \in 1..n : /\ calls'[k].rest \subseteq graph[Fn(k)]
                          /\ graph[Fn(k)] \ calls'[k].rest \subseteq Seen
      BY <1>2, <1>4, <1>8, <2>2 DEF SccInv, SccEdges
    <3>2. {Fn(k) : k \in 1..n} = {Fn(k)' : k \in 1..Len(calls')}
      BY <2>2
    <3>3. \A x \in OnStack : x \in {Fn(k) : k \in 1..n} \/ graph[x] \subseteq Seen
      BY <1>2 DEF SccInv, SccEdges
    <3>4. QED
      BY <1>8, <2>1, <2>2, <3>1, <3>2, <3>3 DEF SccEdges
  <2>7. SccPaths'
    <3>1. \A x \in OnStack : \E k \in 1..Len(calls') :
              index[Fn(k)'] <= index[x] /\ Path(graph, x, Fn(k)')
      <4>1. \A x \in OnStack : \E k \in 1..n :
                index[Fn(k)] <= index[x] /\ Path(graph, x, Fn(k))
        BY <1>2 DEF SccInv, SccPaths
      <4>2. QED
        BY <2>2, <4>1
    <3>2. QED
      BY <1>8, <2>1, <3>1 DEF SccInv, SccPaths
  <2>8. \A x \in OnStack : /\ low'[x] <= index[x]
                           /\ \E y \in OnStack : index[y] = low'[x] /\ Path(graph, x, y)
    <3>1. SUFFICES ASSUME NEW x \in OnStack
                   PROVE  /\ low'[x] <= index[x]
                          /\ \E y \in OnStack : index[y] = low'[x] /\ Path(graph, x, y)
      OBVIOUS
    <3>2. low[x] <= index[x] /\ \E y \in OnStack : index[y] = low[x] /\ Path(graph, x, y)
      BY DEF SccInv, SccLows
    <3>3. x \in Scc!Node /\ index[x] \in Nat /\ low[x] \in Nat /\ low'[x] \in Nat
      BY <2>3, CallShapes
    <3>4. low'[x] <= index[x]
      BY <2>3, <3>2, <3>3
    <3>5. x = Fn(n) => Path(graph, x, w)
      BY <1>4, <3>3, CallShapes, PathFacts
    <3>6. QED
      BY <2>3, <3>2, <3>3, <3>4, <3>5
  <2>9. ASSUME NEW k \in 1..n, NEW x \in Under(k)', NEW y \in graph[x] \cap OnStack
        PROVE  low'[Fn(k)] <= index[y] \/ (x = Fn(k) /\ y \in calls'[k].rest)
    <3>1. x \in Under(k)
      <4>1. k < n => k + 1 \in 1..n
        BY <1>2
      <4>2. QED
        BY <1>2, <1>8, <2>1, <2>2, <2>9, <4>1 DEF Under
    <3>2. low[Fn(k)] <= index[y] \/ (x = Fn(k) /\ y \in calls[k].rest)
      BY <1>2, <2>9, <3>1 DEF SccInv, SccLows
    <3>3. /\ low[Fn(k)] \in Nat /\ low'[Fn(k)] \in Nat /\ index[y] \in Nat
          /\ low'[Fn(k)] <= low[Fn(k)]
      BY <1>2, <2>3, <2>9, CallShapes
    <3>4. CASE k = n /\ y = w
      BY <2>3, <2>9, <3>4
    <3>5. CASE ~(k = n /\ y = w)
      <4>1. y \in calls[k].rest => y \in calls'[k].rest
        BY <2>2, <3>5
      <4>2. low[Fn(k)] <= index[y] => low'[Fn(k)] <= index[y]
        BY <3>3
      <4>3. QED
        BY <3>2, <4>1, <4>2
    <3>6. QED
      BY <3>4, <3>5
  <2>10. SccLows'
    <3>1. \A k \in 1..Len(calls') : \A x \in Under(k)' : \A y \in graph'[x] \cap OnStack' :
              low'[Fn(k)'] <= index'[y] \/ (x = Fn(k)' /\ y \in calls'[k].rest)
      <4>1. graph' = graph /\ index' = index /\ 1..Len(calls') = 1..n
        BY <1>8, <2>2
      <4>2. \A k \in 1..n : Fn(k)' = Fn(k)
        BY <2>2
      <4>3. QED
        BY <2>1, <2>9, <4>1, <4>2
    <3>2. \A x \in OnStack' : /\ low'[x] <= index'[x]
                              /\ \E y \in OnStack' : /\ index'[y] = low'[x]
                                                     /\ Path(graph', x, y)
      BY <1>8, <2>1, <2>8
    <3>3. QED
      BY <3>1, <3>2 DEF SccLows
  <2>11. SccResult'
    BY <1>8 DEF SccInv, SccResult
  <2>12. QED
    BY <2>4, <2>5, <2>6, <2>7, <2>10, <2>11 DEF SccInv
<1>9. QED
  BY <1>3, <1>7, <1>8

\* Everything on the stack reaches the function of the call on top.
LEMMA StackReachesTop ==
  ASSUME SccInv, NEW n, n = Len(calls), NEW x \in OnStack
  PROVE  n \in 1..n /\ Path(graph, x, Fn(n))
<1>1. PICK k \in 1..n : index[Fn(k)] <= index[x] /\ Path(graph, x, Fn(k))
  BY DEF SccInv, SccPaths
<1>2. n \in Nat /\ n \in 1..n /\ (k = n \/ k < n)
  BY CallShapes
<1>3. Fn(k) \in OnStack /\ Fn(n) \in OnStack /\ index[Fn(k)] <= index[Fn(n)]
  <2>1. Fn(k) \in OnStack /\ Fn(n) \in OnStack /\ index[Fn(n)] \in Nat
    BY <1>2, CallShapes
  <2>2. k < n => index[Fn(k)] < index[Fn(n)]
    BY <1>2 DEF SccInv, SccNumbers
  <2>3. index[Fn(k)] \in Nat
    BY CallShapes
  <2>4. QED
    BY <1>2, <2>1, <2>2, <2>3
<1>4. Path(graph, Fn(k), Fn(n))
  BY <1>3 DEF SccInv, SccPaths
<1>5. QED
  BY <1>1, <1>2, <1>3, <1>4, CallShapes, PathFacts

\* What is on the stack from a function on.
From(v) == {x \in OnStack : index[v] <= index[x]}

\* A call that has looked at everything and found nothing lower than itself: what
\* was put on the stack since it began is a component, which calls only itself and
\* the components before it.
LEMMA ComponentFound ==
  ASSUME SccInv, NEW n \in Nat \ {0}, n = Len(calls), calls[n].rest = {},
         low[Fn(n)] = index[Fn(n)]
  PROVE  /\ \A x \in From(Fn(n)) : graph[x] \subseteq From(Fn(n)) \cup Placed
         /\ \A x \in From(Fn(n)), y \in Scc!Node :
                y \in From(Fn(n)) <=> Path(graph, x, y) /\ Path(graph, y, x)
<1>1. PICK v, C : v = Fn(n) /\ C = From(Fn(n))
  OBVIOUS
<1>2. /\ n \in 1..n /\ v \in OnStack /\ v \in Scc!Node
      /\ graph \in [Scc!Node -> SUBSET Scc!Node]
      /\ \A x \in Scc!Node : index[x] \in Nat
      /\ \A x \in OnStack : x \in Scc!Node
  BY <1>1, CallShapes
<1>3. C = {x \in OnStack : index[v] <= index[x]}
  BY <1>1 DEF From
<1>4. ASSUME NEW x \in C, NEW y \in graph[x]
      PROVE  y \in C \cup Placed
  <2>1. x \in OnStack /\ x \in Under(n)
    BY <1>1, <1>3, <1>4, CallShapes DEF Under
  <2>2. ASSUME NEW k \in 1..n, x = Fn(k)
        PROVE  k = n
    <3>1. ~(k < n)
      <4>1. k < n => index[Fn(k)] < index[v]
        BY <1>1, <1>2, <2>2 DEF SccInv, SccNumbers
      <4>2. QED
        BY <1>2, <1>3, <1>4, <2>1, <2>2, <4>1
    <3>2. QED
      BY <3>1
  <2>3. graph[v] \subseteq Seen
    BY <1>1, <1>2 DEF SccInv, SccEdges
  <2>4. graph[x] \subseteq Seen
    BY <1>1, <2>1, <2>2, <2>3 DEF SccInv, SccEdges
  <2>5. y \in OnStack => y \in C
    <3>1. y \in OnStack => low[v] <= index[y]
      BY <1>1, <1>2, <1>4, <2>1 DEF SccInv, SccLows
    <3>2. QED
      BY <1>1, <1>3, <3>1
  <2>6. QED
    BY <1>4, <2>4, <2>5 DEF SccInv, SccNumbers
<1>5. Placed \in SUBSET Scc!Node /\ Closed(graph, Placed)
  <2>1. ASSUME NEW x \in Placed, NEW y \in graph[x]
        PROVE  y \in Placed
    <3>1. PICK i \in 1..Len(result) : x \in result[i]
      BY DEF Placed
    <3>2. PICK j \in 1..i : y \in result[j]
      BY <2>1, <3>1 DEF SccInv, SccResult
    <3>3. j \in 1..Len(result)
      BY <3>1, <3>2 DEF SccInv, SccShapes
    <3>4. y \in Scc!Node
      BY <1>2, <2>1 DEF Placed
    <3>5. QED
      BY <3>2, <3>3, <3>4 DEF Placed
  <2>2. QED
    BY <2>1 DEF Closed, Placed
<1>6. C \cup Placed \in SUBSET Scc!Node /\ Closed(graph, C \cup Placed)
  BY <1>2, <1>3, <1>4, <1>5 DEF Closed
<1>7. ASSUME NEW x \in C, NEW y \in C
      PROVE  Path(graph, x, y)
  <2>1. Path(graph, x, v)
    BY <1>1, <1>3, <1>7, StackReachesTop
  <2>2. Path(graph, v, y)
    BY <1>2, <1>3, <1>7 DEF SccInv, SccPaths
  <2>3. QED
    BY <1>2, <1>3, <1>7, <2>1, <2>2, PathFacts
<1>8. ASSUME NEW x \in C, NEW y \in Scc!Node, Path(graph, x, y), Path(graph, y, x)
      PROVE  y \in C
  <2>1. y \in C \cup Placed
    BY <1>6, <1>8 DEF Path
  <2>2. y \in Placed => x \in Placed
    BY <1>5, <1>8 DEF Path
  <2>3. x \notin Placed
    BY <1>3, <1>8 DEF SccInv, SccNumbers
  <2>4. QED
    BY <2>1, <2>2, <2>3
<1>9. C \subseteq Scc!Node
  BY <1>2, <1>3
<1>10. QED
  BY <1>1, <1>4, <1>7, <1>8, <1>9

\* A call that did find something lower has a call around it, which its function
\* reaches.
LEMMA LowerFound ==
  ASSUME SccInv, NEW n \in Nat \ {0}, n = Len(calls), low[Fn(n)] # index[Fn(n)]
  PROVE  \E k \in 1..n : k < n /\ index[Fn(k)] < index[Fn(n)] /\ Path(graph, Fn(n), Fn(k))
<1>1. n \in 1..n /\ Fn(n) \in OnStack /\ Fn(n) \in Scc!Node
      /\ index[Fn(n)] \in Nat /\ low[Fn(n)] \in Nat
  BY CallShapes
<1>2. PICK w \in OnStack : index[w] = low[Fn(n)] /\ Path(graph, Fn(n), w)
  BY <1>1 DEF SccInv, SccLows
<1>3. low[Fn(n)] < index[Fn(n)]
  BY <1>1 DEF SccInv, SccLows
<1>4. PICK k \in 1..n : index[Fn(k)] <= index[w] /\ Path(graph, w, Fn(k))
  BY DEF SccInv, SccPaths
<1>5. Fn(k) \in Scc!Node /\ index[Fn(k)] \in Nat /\ w \in Scc!Node
  BY CallShapes
<1>6. index[Fn(k)] < index[Fn(n)]
  BY <1>1, <1>2, <1>3, <1>4, <1>5
<1>7. k # n /\ k <= n
  BY <1>1, <1>6
<1>8. Path(graph, Fn(n), Fn(k))
  BY <1>1, <1>2, <1>4, <1>5, CallShapes, PathFacts
<1>9. QED
  BY <1>6, <1>7, <1>8

\* The call on top has looked at everything, and returns.
LEMMA ReturnIs ==
  ASSUME SccInv, Scc!Return
  PROVE  \E n \in Nat \ {0}, p \in 1..Len(stack) :
             /\ n = Len(calls) /\ n \in 1..n /\ calls[n].rest = {} /\ stack[p] = Fn(n)
             /\ graph' = graph /\ index' = index
             /\ calls' \in Seq([node : Scc!Node, rest : SUBSET Scc!Node])
             /\ Len(calls') = n - 1 /\ \A k \in 1..(n - 1) : calls'[k] = calls[k]
             /\ IF low[Fn(n)] = index[Fn(n)]
                THEN /\ result' = Append(result, From(Fn(n)))
                     /\ stack' = SubSeq(stack, 1, p - 1)
                ELSE result' = result /\ stack' = stack
             /\ n = 1 => low' = low
             /\ n # 1 => low' = [low EXCEPT ![Fn(n - 1)] =
                                     Scc!Least({low[Fn(n - 1)], low[Fn(n)]})]
<1>1. calls # << >>
  BY DEF Scc!Return
<1>2. PICK n \in Nat \ {0} : /\ n = Len(calls) /\ n \in 1..n
                             /\ Scc!Top.node = Fn(n) /\ Fn(n) \in Scc!Node /\ Fn(n) \in OnStack
                             /\ Scc!Top.rest = calls[n].rest
  BY <1>1, TopIs
<1>3. PICK p : p = Scc!Place(Fn(n))
  OBVIOUS
<1>4. DOMAIN stack = 1..Len(stack) /\ stack \in Seq(Scc!Node) /\ Len(stack) \in Nat
  BY DEF SccInv, SccShapes
<1>5. p \in 1..Len(stack) /\ stack[p] = Fn(n)
  <2>1. \E i \in DOMAIN stack : stack[i] = Fn(n)
    BY <1>2, <1>4 DEF OnStack
  <2>2. QED
    BY <1>3, <1>4, <2>1 DEF Scc!Place
<1>6. Scc!Range(SubSeq(stack, p, Len(stack))) = From(Fn(n))
  <2>1. PICK s : s = SubSeq(stack, p, Len(stack))
    OBVIOUS
  <2>2. /\ DOMAIN s = 1..(Len(stack) - p + 1)
        /\ \A i \in 1..(Len(stack) - p + 1) : s[i] = stack[p + i - 1]
    BY <1>4, <1>5, <2>1
  <2>3. Scc!Range(s) = {stack[i] : i \in p..Len(stack)}
    <3>1. Scc!Range(s) = {s[i] : i \in 1..(Len(stack) - p + 1)}
      BY <2>2, SeqWords
    <3>2. \A i \in 1..(Len(stack) - p + 1) : p + i - 1 \in p..Len(stack)
      BY <1>4, <1>5
    <3>3. \A j \in p..Len(stack) : /\ j - p + 1 \in 1..(Len(stack) - p + 1)
                                   /\ s[j - p + 1] = stack[j]
      <4>1. SUFFICES ASSUME NEW j \in p..Len(stack)
                     PROVE  /\ j - p + 1 \in 1..(Len(stack) - p + 1)
                            /\ s[j - p + 1] = stack[j]
        OBVIOUS
      <4>2. j - p + 1 \in 1..(Len(stack) - p + 1) /\ p + (j - p + 1) - 1 = j
        BY <1>4, <1>5
      <4>3. QED
        BY <2>2, <4>2
    <3>4. QED
      BY <2>2, <3>1, <3>2, <3>3
  <2>4. QED
    BY <1>5, <2>1, <2>3, StackParts DEF From
<1>7. calls' = SubSeq(calls, 1, n - 1)
  BY <1>2, SeqWords DEF Scc!Return
<1>8. /\ calls' \in Seq([node : Scc!Node, rest : SUBSET Scc!Node])
      /\ Len(calls') = n - 1 /\ \A k \in 1..(n - 1) : calls'[k] = calls[k]
  <2>1. calls \in Seq([node : Scc!Node, rest : SUBSET Scc!Node])
    BY DEF SccInv, SccShapes
  <2>2. \A i \in 1..(n - 1) : calls[i] \in [node : Scc!Node, rest : SUBSET Scc!Node]
    <3>1. \A i \in 1..(n - 1) : i \in 1..Len(calls)
      BY <1>2
    <3>2. QED
      BY <2>1, <3>1, ElementOfSeq
  <2>3. /\ SubSeq(calls, 1, n - 1) \in Seq([node : Scc!Node, rest : SUBSET Scc!Node])
        /\ Len(SubSeq(calls, 1, n - 1)) = IF 1 <= n - 1 THEN (n - 1) - 1 + 1 ELSE 0
        /\ \A k \in 1..((n - 1) - 1 + 1) : SubSeq(calls, 1, n - 1)[k] = calls[1 + k - 1]
    <3>1. 1 \in Int /\ n - 1 \in Int
      OBVIOUS
    <3>2. QED
      BY <2>2, <3>1, SubSeqProperties
  <2>4. \A k \in 1..(n - 1) : k \in 1..((n - 1) - 1 + 1) /\ 1 + k - 1 = k
    OBVIOUS
  <2>5. QED
    BY <1>7, <2>3, <2>4
<1>9. IF low[Fn(n)] = index[Fn(n)]
      THEN result' = Append(result, From(Fn(n))) /\ stack' = SubSeq(stack, 1, p - 1)
      ELSE result' = result /\ stack' = stack
  BY <1>2, <1>3, <1>6 DEF Scc!Return, Scc!Emitted, Scc!Below
<1>10. /\ n = 1 => low' = low
       /\ n # 1 => low' = [low EXCEPT ![Fn(n - 1)] =
                               Scc!Least({low[Fn(n - 1)], low[Fn(n)]})]
  BY <1>2, CallShapes DEF Scc!Return, Scc!Returned, Fn, SccInv, SccShapes
<1>11. graph' = graph /\ index' = index /\ calls[n].rest = {}
  BY <1>2 DEF Scc!Return
<1>12. QED
  BY <1>2, <1>5, <1>8, <1>9, <1>10, <1>11

\* What both ways to return have in common.
LEMMA ReturnLows ==
  ASSUME SccInv, NEW n \in Nat \ {0}, n = Len(calls),
         n = 1 => low' = low,
         n # 1 => low' = [low EXCEPT ![Fn(n - 1)] = Scc!Least({low[Fn(n - 1)], low[Fn(n)]})]
  PROVE  /\ low' \in [Scc!Node -> Nat]
         /\ \A x \in Scc!Node : low'[x] <= low[x] /\ low'[x] <= Cardinality(Seen)
         /\ \A x \in Scc!Node : low'[x] = low[x] \/ (n # 1 /\ x = Fn(n - 1) /\ low'[x] = low[Fn(n)])
         /\ n # 1 => low'[Fn(n - 1)] <= low[Fn(n)]
<1>1. low \in [Scc!Node -> Nat] /\ \A x \in Scc!Node : low[x] \in Nat
  BY DEF SccInv, SccShapes
<1>2. n \in 1..n /\ (n # 1 => n - 1 \in 1..n)
  OBVIOUS
<1>3. Fn(n) \in Scc!Node /\ (n # 1 => Fn(n - 1) \in Scc!Node)
  BY <1>2, CallShapes
<1>4. \A x \in Scc!Node : low[x] <= Cardinality(Seen)
  BY DEF SccInv, SccNumbers
<1>5. Cardinality(Seen) \in Nat
  <2>1. Seen \subseteq Scc!Node
    BY DEF Seen
  <2>2. QED
    BY <2>1, SeenIsFinite
<1>6. CASE n = 1
  BY <1>1, <1>4, <1>6
<1>7. CASE n # 1
  <2>1. PICK m : m = Scc!Least({low[Fn(n - 1)], low[Fn(n)]})
    OBVIOUS
  <2>2. /\ m \in {low[Fn(n - 1)], low[Fn(n)]} /\ m \in Nat
        /\ m <= low[Fn(n - 1)] /\ m <= low[Fn(n)]
    BY <1>1, <1>3, <1>7, <2>1, LeastOfTwo
  <2>3. low' = [low EXCEPT ![Fn(n - 1)] = m]
    BY <1>7, <2>1
  <2>4. /\ low' \in [Scc!Node -> Nat] /\ low'[Fn(n - 1)] = m
        /\ \A x \in Scc!Node : x # Fn(n - 1) => low'[x] = low[x]
    BY <1>1, <1>3, <1>7, <2>2, <2>3
  <2>5. \A x \in Scc!Node : low'[x] <= low[x]
    BY <1>1, <2>2, <2>4
  <2>6. \A x \in Scc!Node : low'[x] <= Cardinality(Seen)
    BY <1>1, <1>4, <1>5, <2>4, <2>5
  <2>7. QED
    BY <1>7, <2>2, <2>4, <2>5, <2>6
<1>8. QED
  BY <1>6, <1>7

\* The call on top has found a component, which leaves the stack.
LEMMA PopKept ==
  ASSUME SccInv, NEW n \in Nat \ {0}, NEW p \in 1..Len(stack),
         n = Len(calls), n \in 1..n, calls[n].rest = {}, stack[p] = Fn(n),
         low[Fn(n)] = index[Fn(n)],
         graph' = graph, index' = index,
         calls' \in Seq([node : Scc!Node, rest : SUBSET Scc!Node]),
         Len(calls') = n - 1, \A k \in 1..(n - 1) : calls'[k] = calls[k],
         result' = Append(result, From(Fn(n))), stack' = SubSeq(stack, 1, p - 1),
         low' \in [Scc!Node -> Nat],
         \A x \in Scc!Node : low'[x] <= low[x] /\ low'[x] <= Cardinality(Seen),
         \A x \in Scc!Node : low'[x] = low[x] \/ (n # 1 /\ x = Fn(n - 1) /\ low'[x] = low[Fn(n)])
  PROVE  SccInv'
<1>1. PICK v, C : v = Fn(n) /\ C = From(Fn(n))
  OBVIOUS
<1>2. /\ v \in Scc!Node /\ v \in OnStack /\ index[v] \in Nat
      /\ Len(stack) \in Nat /\ stack \in Seq(Scc!Node)
      /\ graph \in [Scc!Node -> SUBSET Scc!Node]
      /\ \A x \in Scc!Node : index[x] \in Nat /\ low[x] \in Nat /\ low'[x] \in Nat
      /\ \A x \in OnStack : x \in Scc!Node
  BY <1>1, CallShapes DEF SccInv, SccShapes
<1>3. /\ Len(stack') = p - 1 /\ \A i \in 1..(p - 1) : stack'[i] = stack[i]
      /\ stack' \in Seq(Scc!Node)
  <2>1. \A i \in 1..(p - 1) : stack[i] \in Scc!Node
    BY <1>2, ElementOfSeq
  <2>2. 1 \in Int /\ p - 1 \in Int
    BY <1>2
  <2>3. /\ SubSeq(stack, 1, p - 1) \in Seq(Scc!Node)
        /\ Len(SubSeq(stack, 1, p - 1)) = IF 1 <= p - 1 THEN (p - 1) - 1 + 1 ELSE 0
        /\ \A k \in 1..((p - 1) - 1 + 1) : SubSeq(stack, 1, p - 1)[k] = stack[1 + k - 1]
    BY <2>1, <2>2, SubSeqProperties
  <2>4. \A k \in 1..(p - 1) : k \in 1..((p - 1) - 1 + 1) /\ 1 + k - 1 = k
    BY <1>2
  <2>5. (IF 1 <= p - 1 THEN (p - 1) - 1 + 1 ELSE 0) = p - 1
    BY <1>2
  <2>6. QED
    BY <2>3, <2>4, <2>5
<1>4. OnStack' = {x \in OnStack : index[x] < index[v]}
  <2>1. OnStack' = {stack[i] : i \in 1..(p - 1)}
    BY <1>3 DEF OnStack
  <2>2. QED
    BY <1>1, <2>1, StackParts
<1>5. C = {x \in OnStack : index[v] <= index[x]}
  BY <1>1 DEF From
<1>6. OnStack = OnStack' \cup C /\ OnStack' \cap C = {} /\ OnStack' \subseteq OnStack
  <2>1. \A x \in OnStack : index[x] \in Nat
    BY <1>2
  <2>2. \A x \in OnStack : index[x] < index[v] <=> ~(index[v] <= index[x])
    <3>1. SUFFICES ASSUME NEW x \in OnStack
                   PROVE  index[x] < index[v] <=> ~(index[v] <= index[x])
      OBVIOUS
    <3>2. index[x] \in Nat /\ index[v] \in Nat
      BY <1>2, <2>1
    <3>3. QED
      BY <3>2
  <2>3. QED
    BY <1>4, <1>5, <2>2
<1>7. /\ Len(result) \in Nat /\ Len(result') = Len(result) + 1
      /\ result'[Len(result) + 1] = C
      /\ \A i \in 1..Len(result) : result'[i] = result[i]
      /\ result' \in Seq(SUBSET Scc!Node)
  <2>1. result \in Seq(SUBSET Scc!Node) /\ C \in SUBSET Scc!Node
    BY <1>2, <1>5 DEF SccInv, SccShapes
  <2>2. result' = Append(result, C)
    BY <1>1
  <2>3. QED
    BY <2>1, <2>2, AppendProperties
<1>8. Placed' = Placed \cup C /\ Seen' = Seen
  <2>1. C \subseteq Scc!Node
    BY <1>2, <1>5
  <2>2. 1..Len(result') = 1..Len(result) \cup {Len(result) + 1}
    BY <1>7
  <2>3. QED
    BY <1>7, <2>1, <2>2 DEF Placed, Seen
<1>9. /\ \A k \in 1..(n - 1) : Fn(k)' = Fn(k) /\ calls'[k].rest = calls[k].rest
      /\ 1..Len(calls') = 1..(n - 1)
      /\ \A k \in 1..n : k = n \/ k \in 1..(n - 1)
      /\ \A k \in 1..(n - 1) : k \in 1..n /\ k < n /\ index[Fn(k)] < index[v]
  <2>1. \A k \in 1..n : k = n \/ k \in 1..(n - 1)
    OBVIOUS
  <2>2. \A k \in 1..(n - 1) : k \in 1..n /\ k < n
    OBVIOUS
  <2>3. \A k \in 1..(n - 1) : index[Fn(k)] < index[v]
    BY <1>1, <2>2 DEF SccInv, SccNumbers
  <2>4. QED
    BY <2>1, <2>2, <2>3 DEF Fn
<1>10. \A k \in 1..(n - 1) : Fn(k) \in OnStack'
  BY <1>4, <1>9 DEF SccInv, SccNumbers
<1>11. \A x \in OnStack : low[x] <= index[x]
  BY DEF SccInv, SccLows
<1>12. \A x \in Scc!Node : low'[x] = low[x]
  <2>1. SUFFICES ASSUME NEW x \in Scc!Node, n # 1, x = Fn(n - 1), low'[x] = low[v]
                 PROVE  FALSE
    BY <1>1
  <2>2. n - 1 \in 1..(n - 1)
    BY <2>1
  <2>3. low[x] <= index[x] /\ index[x] < index[v]
    BY <1>6, <1>9, <1>10, <1>11, <2>1, <2>2
  <2>4. low'[x] <= low[x] /\ low[v] = index[v]
    BY <1>1
  <2>5. QED
    <3>1. v \in Scc!Node /\ index[v] \in Nat /\ index[x] \in Nat /\ low[x] \in Nat
      BY <1>2, <2>1
    <3>2. low[v] <= low[x] /\ low[v] = index[v]
      BY <2>1, <2>4
    <3>3. QED
      BY <2>3, <3>1, <3>2
<1>13. SccShapes'
  BY <1>3, <1>7 DEF SccInv, SccShapes
<1>14. SccNumbers'
  <2>1. \A i, j \in 1..Len(stack') : i < j => index'[stack'[i]] < index'[stack'[j]]
    <3>1. \A i \in 1..(p - 1) : i \in 1..Len(stack)
      BY <1>2
    <3>2. \A i, j \in 1..Len(stack) : i < j => index[stack[i]] < index[stack[j]]
      BY DEF SccInv, SccNumbers
    <3>3. QED
      BY <1>3, <3>1, <3>2
  <2>2. \A i, j \in 1..Len(calls') : i < j => index'[Fn(i)'] < index'[Fn(j)']
    <3>1. \A i, j \in 1..n : i < j => index[Fn(i)] < index[Fn(j)]
      BY DEF SccInv, SccNumbers
    <3>2. \A i \in 1..(n - 1) : i \in 1..n /\ index'[Fn(i)'] = index[Fn(i)]
      BY <1>9
    <3>3. QED
      BY <1>9, <3>1, <3>2
  <2>3. \A k \in 1..Len(calls') : Fn(k)' \in OnStack'
    BY <1>9, <1>10
  <2>4. /\ OnStack' \subseteq Seen' /\ Seen' = OnStack' \cup Placed'
        /\ OnStack' \cap Placed' = {}
    BY <1>6, <1>8 DEF SccInv, SccNumbers
  <2>5. \A x \in Scc!Node : index'[x] <= Cardinality(Seen') /\ low'[x] <= Cardinality(Seen')
    BY <1>8 DEF SccInv, SccNumbers
  <2>6. QED
    BY <2>1, <2>2, <2>3, <2>4, <2>5 DEF SccNumbers
<1>15. SccEdges'
  <2>1. \A k \in 1..Len(calls') : /\ calls'[k].rest \subseteq graph'[Fn(k)']
                                  /\ graph'[Fn(k)'] \ calls'[k].rest \subseteq Seen'
    BY <1>8, <1>9 DEF SccInv, SccEdges
  <2>2. ASSUME NEW x \in OnStack', x \notin {Fn(k)' : k \in 1..Len(calls')}
        PROVE  graph[x] \subseteq Seen
    <3>1. x # v /\ x \in OnStack
      BY <1>2, <1>4, <2>2
    <3>2. x \notin {Fn(k) : k \in 1..n}
      BY <1>1, <1>9, <2>2, <3>1
    <3>3. QED
      BY <3>1, <3>2 DEF SccInv, SccEdges
  <2>3. QED
    BY <1>8, <2>1, <2>2 DEF SccEdges
<1>16. SccPaths'
  <2>1. \A x, y \in OnStack' : index'[x] <= index'[y] => Path(graph', x, y)
    BY <1>6 DEF SccInv, SccPaths
  <2>2. ASSUME NEW x \in OnStack'
        PROVE  \E k \in 1..Len(calls') : index'[Fn(k)'] <= index'[x] /\ Path(graph', x, Fn(k)')
    <3>1. x \in OnStack /\ index[x] < index[v] /\ index[x] \in Nat
      BY <1>2, <1>4, <2>2
    <3>2. PICK k \in 1..n : index[Fn(k)] <= index[x] /\ Path(graph, x, Fn(k))
      BY <3>1 DEF SccInv, SccPaths
    <3>3. k # n
      BY <1>1, <1>2, <3>1, <3>2
    <3>4. QED
      BY <1>9, <3>2, <3>3
  <2>3. QED
    BY <2>1, <2>2 DEF SccPaths
<1>17. SccLows'
  <2>1. ASSUME NEW x \in OnStack'
        PROVE  /\ low'[x] <= index'[x]
               /\ \E y \in OnStack' : index'[y] = low'[x] /\ Path(graph', x, y)
    <3>1. x \in OnStack /\ x \in Scc!Node /\ index[x] < index[v]
      BY <1>2, <1>4, <2>1
    <3>2. PICK y \in OnStack : index[y] = low[x] /\ Path(graph, x, y)
      BY <3>1 DEF SccInv, SccLows
    <3>3. low[x] <= index[x] /\ y \in OnStack'
      <4>1. low[x] <= index[x] /\ index[y] <= index[x]
        BY <1>11, <3>1, <3>2
      <4>2. index[x] \in Nat /\ index[y] \in Nat /\ index[v] \in Nat
        BY <1>2, <3>1, <3>2
      <4>3. index[y] < index[v]
        BY <3>1, <4>1, <4>2
      <4>4. QED
        BY <1>4, <3>2, <4>1, <4>3
    <3>4. QED
      BY <1>12, <3>1, <3>2, <3>3
  <2>2. ASSUME NEW k \in 1..Len(calls'), NEW x \in Under(k)', NEW y \in graph[x] \cap OnStack'
        PROVE  low'[Fn(k)'] <= index'[y] \/ (x = Fn(k)' /\ y \in calls'[k].rest)
    <3>1. k \in 1..(n - 1) /\ k \in 1..n /\ Fn(k)' = Fn(k) /\ Fn(k) \in Scc!Node
      BY <1>9, CallShapes
    <3>2. /\ x \in OnStack' /\ index[Fn(k)] <= index[x]
          /\ k < n - 1 => index[x] < index[Fn(k + 1)']
      BY <3>1 DEF Under
    <3>3. k + 1 \in 1..n /\ (k < n - 1 => k + 1 \in 1..(n - 1)) /\ (k < n - 1 \/ k + 1 = n)
      <4>1. k \in Nat /\ n \in Nat /\ 1 <= k /\ k <= n - 1
        BY <3>1
      <4>2. QED
        BY <4>1
    <3>4. index[x] < index[Fn(k + 1)] /\ x \in OnStack
      BY <1>1, <1>4, <1>9, <3>2, <3>3
    <3>5. x \in Under(k)
      BY <3>2, <3>4 DEF Under
    <3>6. low[Fn(k)] <= index[y] \/ (x = Fn(k) /\ y \in calls[k].rest)
      BY <1>6, <2>2, <3>1, <3>5 DEF SccInv, SccLows
    <3>7. QED
      BY <1>9, <1>12, <3>1, <3>6
  <2>3. QED
    BY <2>1, <2>2 DEF SccLows
<1>18. SccResult'
  <2>1. /\ \A x \in C : graph[x] \subseteq C \cup Placed
        /\ \A x \in C, y \in Scc!Node : y \in C <=> Path(graph, x, y) /\ Path(graph, y, x)
    BY <1>1, ComponentFound
  <2>2. \A i \in 1..Len(result') : i \in 1..Len(result) \/ i = Len(result) + 1
    BY <1>7
  <2>3. \A i \in 1..Len(result') : \A x \in result'[i] :
            graph[x] \subseteq UNION {result'[j] : j \in 1..i}
    <3>1. ASSUME NEW i \in 1..Len(result), NEW x \in result'[i]
          PROVE  graph[x] \subseteq UNION {result'[j] : j \in 1..i}
      <4>1. \A j \in 1..i : result'[j] = result[j]
        BY <1>7
      <4>2. graph[x] \subseteq UNION {result[j] : j \in 1..i}
        BY <1>7, <3>1 DEF SccInv, SccResult
      <4>3. QED
        BY <4>1, <4>2
    <3>2. ASSUME NEW x \in C, NEW y \in graph[x]
          PROVE  \E j \in 1..(Len(result) + 1) : y \in result'[j]
      <4>1. CASE y \in C
        BY <1>7, <4>1
      <4>2. CASE y \in Placed
        <5>1. PICK j \in 1..Len(result) : y \in result[j]
          BY <4>2 DEF Placed
        <5>2. j \in 1..(Len(result) + 1)
          BY <1>7
        <5>3. QED
          BY <1>7, <5>1, <5>2
      <4>3. QED
        BY <2>1, <3>2, <4>1, <4>2
    <3>3. QED
      <4>1. \A x \in C : graph[x] \subseteq UNION {result'[j] : j \in 1..(Len(result) + 1)}
        <5>1. SUFFICES ASSUME NEW x \in C, NEW y \in graph[x]
                       PROVE  y \in UNION {result'[j] : j \in 1..(Len(result) + 1)}
          OBVIOUS
        <5>2. PICK j \in 1..(Len(result) + 1) : y \in result'[j]
          BY <3>2
        <5>3. QED
          BY <5>2
      <4>2. QED
        BY <1>7, <2>2, <3>1, <4>1
  <2>4. \A i \in 1..Len(result') : \A x \in result'[i] : \A y \in Scc!Node :
            y \in result'[i] <=> Path(graph, x, y) /\ Path(graph, y, x)
    BY <1>7, <2>1, <2>2 DEF SccInv, SccResult
  <2>5. \A i \in 1..Len(result) : result[i] \cap C = {}
    <3>1. \A i \in 1..Len(result) : result[i] \cap Scc!Node \subseteq Placed
      BY DEF Placed
    <3>2. QED
      BY <1>2, <1>5, <3>1 DEF SccInv, SccNumbers
  <2>6. \A i, j \in 1..Len(result') : i # j => result'[i] \cap result'[j] = {}
    BY <1>7, <2>2, <2>5 DEF SccInv, SccResult
  <2>7. QED
    <3>1. SUFFICES ASSUME NEW i \in 1..Len(result'), NEW x \in result'[i]
                   PROVE  /\ graph'[x] \subseteq UNION {result'[j] : j \in 1..i}
                          /\ \A y \in Scc!Node : y \in result'[i] <=> /\ Path(graph', x, y)
                                                                      /\ Path(graph', y, x)
      BY <2>6 DEF SccResult
    <3>2. graph'[x] \subseteq UNION {result'[j] : j \in 1..i}
      BY <2>3, <3>1
    <3>3. \A y \in Scc!Node : y \in result'[i] <=> Path(graph', x, y) /\ Path(graph', y, x)
      BY <2>4, <3>1
    <3>4. QED
      BY <3>2, <3>3
<1>19. QED
  BY <1>13, <1>14, <1>15, <1>16, <1>17, <1>18 DEF SccInv

\* The call on top belongs to the component of a function below, and stays on the
\* stack; the call around it takes over what it has found.
LEMMA StayKept ==
  ASSUME SccInv, NEW n \in Nat \ {0}, n = Len(calls), n \in 1..n, calls[n].rest = {},
         low[Fn(n)] # index[Fn(n)],
         graph' = graph, index' = index, result' = result, stack' = stack,
         calls' \in Seq([node : Scc!Node, rest : SUBSET Scc!Node]),
         Len(calls') = n - 1, \A k \in 1..(n - 1) : calls'[k] = calls[k],
         low' \in [Scc!Node -> Nat],
         \A x \in Scc!Node : low'[x] <= low[x] /\ low'[x] <= Cardinality(Seen),
         \A x \in Scc!Node : low'[x] = low[x] \/ (n # 1 /\ x = Fn(n - 1) /\ low'[x] = low[Fn(n)]),
         n # 1 => low'[Fn(n - 1)] <= low[Fn(n)]
  PROVE  SccInv'
<1>1. PICK v : v = Fn(n)
  OBVIOUS
<1>2. /\ v \in Scc!Node /\ v \in OnStack /\ index[v] \in Nat
      /\ graph \in [Scc!Node -> SUBSET Scc!Node]
      /\ \A x \in Scc!Node : index[x] \in Nat /\ low[x] \in Nat /\ low'[x] \in Nat
      /\ \A x \in OnStack : x \in Scc!Node
  BY <1>1, CallShapes
<1>3. OnStack' = OnStack /\ Placed' = Placed /\ Seen' = Seen
  BY DEF OnStack, Placed, Seen
<1>4. PICK b \in 1..n : b < n /\ index[Fn(b)] < index[v] /\ Path(graph, v, Fn(b))
  BY <1>1, LowerFound
<1>5. /\ \A k \in 1..(n - 1) : Fn(k)' = Fn(k) /\ calls'[k].rest = calls[k].rest
      /\ 1..Len(calls') = 1..(n - 1)
      /\ \A k \in 1..n : k = n \/ k \in 1..(n - 1)
      /\ \A k \in 1..(n - 1) : k \in 1..n /\ k < n /\ index[Fn(k)] < index[v]
  <2>1. \A k \in 1..n : k = n \/ k \in 1..(n - 1)
    OBVIOUS
  <2>2. \A k \in 1..(n - 1) : k \in 1..n /\ k < n
    OBVIOUS
  <2>3. \A k \in 1..(n - 1) : index[Fn(k)] < index[v]
    BY <1>1, <2>2 DEF SccInv, SccNumbers
  <2>4. QED
    BY <2>1, <2>2, <2>3 DEF Fn
<1>6. SccShapes'
  BY DEF SccInv, SccShapes
<1>7. SccNumbers'
  <2>1. \A i, j \in 1..Len(calls') : i < j => index'[Fn(i)'] < index'[Fn(j)']
    <3>1. \A i, j \in 1..n : i < j => index[Fn(i)] < index[Fn(j)]
      BY DEF SccInv, SccNumbers
    <3>2. \A i \in 1..(n - 1) : i \in 1..n /\ index'[Fn(i)'] = index[Fn(i)]
      BY <1>5
    <3>3. QED
      BY <1>5, <3>1, <3>2
  <2>2. \A k \in 1..Len(calls') : Fn(k)' \in OnStack'
    BY <1>3, <1>5 DEF SccInv, SccNumbers
  <2>3. QED
    BY <1>3, <2>1, <2>2 DEF SccInv, SccNumbers
<1>8. SccEdges'
  <2>1. \A k \in 1..Len(calls') : /\ calls'[k].rest \subseteq graph'[Fn(k)']
                                  /\ graph'[Fn(k)'] \ calls'[k].rest \subseteq Seen'
    BY <1>3, <1>5 DEF SccInv, SccEdges
  <2>2. ASSUME NEW x \in OnStack, x \notin {Fn(k)' : k \in 1..Len(calls')}
        PROVE  graph[x] \subseteq Seen
    <3>1. CASE x = v
      BY <1>1, <3>1 DEF SccInv, SccEdges
    <3>2. CASE x # v
      <4>1. x \notin {Fn(k) : k \in 1..n}
        BY <1>1, <1>5, <2>2, <3>2
      <4>2. QED
        BY <2>2, <4>1 DEF SccInv, SccEdges
    <3>3. QED
      BY <3>1, <3>2
  <2>3. QED
    BY <1>3, <2>1, <2>2 DEF SccEdges
<1>9. SccPaths'
  <2>1. \A x, y \in OnStack' : index'[x] <= index'[y] => Path(graph', x, y)
    BY <1>3 DEF SccInv, SccPaths
  <2>2. ASSUME NEW x \in OnStack
        PROVE  \E k \in 1..Len(calls') : index'[Fn(k)'] <= index'[x] /\ Path(graph', x, Fn(k)')
    <3>1. PICK k \in 1..n : index[Fn(k)] <= index[x] /\ Path(graph, x, Fn(k))
      BY <2>2 DEF SccInv, SccPaths
    <3>2. CASE k # n
      BY <1>5, <3>1, <3>2
    <3>3. CASE k = n
      <4>1. b \in 1..(n - 1) /\ Fn(b) \in Scc!Node
        BY <1>4, <1>5, CallShapes
      <4>2. Path(graph, x, Fn(b))
        BY <1>1, <1>2, <1>4, <2>2, <3>1, <3>3, <4>1, PathFacts
      <4>3. index[Fn(b)] <= index[x]
        <5>1. /\ index[Fn(b)] \in Nat /\ index[v] \in Nat /\ index[x] \in Nat
              /\ index[Fn(b)] < index[v]
          BY <1>2, <1>4, <2>2, <4>1
        <5>2. index[v] <= index[x]
          BY <1>1, <3>1, <3>3
        <5>3. QED
          BY <5>1, <5>2
      <4>4. QED
        BY <1>5, <4>1, <4>2, <4>3
    <3>4. QED
      BY <3>2, <3>3
  <2>3. QED
    BY <1>3, <2>1, <2>2 DEF SccPaths
<1>10. SccLows'
  <2>1. ASSUME NEW x \in OnStack
        PROVE  /\ low'[x] <= index'[x]
               /\ \E y \in OnStack : index'[y] = low'[x] /\ Path(graph', x, y)
    <3>1. low[x] <= index[x] /\ x \in Scc!Node
      BY <1>2, <2>1 DEF SccInv, SccLows
    <3>2. low'[x] <= index[x]
      BY <1>2, <3>1
    <3>3. CASE low'[x] = low[x]
      BY <2>1, <3>2, <3>3 DEF SccInv, SccLows
    <3>4. CASE n # 1 /\ x = Fn(n - 1) /\ low'[x] = low[v]
      <4>1. PICK y \in OnStack : index[y] = low[v] /\ Path(graph, v, y)
        BY <1>2 DEF SccInv, SccLows
      <4>2. index[x] <= index[v]
        <5>1. n - 1 \in 1..(n - 1)
          BY <3>4
        <5>2. QED
          BY <1>2, <1>5, <3>1, <3>4, <5>1
      <4>3. Path(graph, x, v)
        BY <1>2, <2>1, <4>2 DEF SccInv, SccPaths
      <4>4. Path(graph, x, y)
        BY <1>2, <3>1, <4>1, <4>3, PathFacts
      <4>5. QED
        BY <3>2, <3>4, <4>1, <4>4
    <3>5. QED
      BY <1>1, <3>1, <3>3, <3>4
  <2>2. ASSUME NEW k \in 1..Len(calls'), NEW x \in Under(k)', NEW y \in graph[x] \cap OnStack
        PROVE  low'[Fn(k)'] <= index[y] \/ (x = Fn(k)' /\ y \in calls'[k].rest)
    <3>1. /\ k \in 1..(n - 1) /\ k \in 1..n /\ Fn(k)' = Fn(k) /\ Fn(k) \in Scc!Node
          /\ calls'[k].rest = calls[k].rest
      BY <1>5, CallShapes
    <3>2. /\ x \in OnStack /\ index[Fn(k)] <= index[x]
          /\ k < n - 1 => index[x] < index[Fn(k + 1)']
      BY <1>3, <3>1 DEF Under
    <3>3. /\ k + 1 \in 1..n /\ (k < n - 1 => k + 1 \in 1..(n - 1)) /\ (k < n - 1 \/ k + 1 = n)
          /\ low[Fn(k)] \in Nat /\ low'[Fn(k)] \in Nat /\ index[y] \in Nat
          /\ low'[Fn(k)] <= low[Fn(k)] /\ low[v] \in Nat /\ index[x] \in Nat
      BY <1>2, <2>2, <3>1, <3>2
    <3>4. CASE k < n - 1 \/ index[x] < index[v]
      <4>1. x \in Under(k)
        BY <1>1, <1>5, <3>2, <3>3, <3>4 DEF Under
      <4>2. low[Fn(k)] <= index[y] \/ (x = Fn(k) /\ y \in calls[k].rest)
        BY <2>2, <3>1, <4>1 DEF SccInv, SccLows
      <4>3. QED
        BY <3>1, <3>3, <4>2
    <3>5. CASE k + 1 = n /\ index[v] <= index[x]
      <4>1. x \in Under(n)
        BY <1>1, <3>2, <3>5 DEF Under
      <4>2. low[v] <= index[y]
        BY <1>1, <2>2, <4>1 DEF SccInv, SccLows
      <4>3. low'[Fn(k)] <= low[v]
        <5>1. n # 1 /\ n - 1 = k
          <6>1. k \in Nat /\ k >= 1 /\ k + 1 = n
            BY <3>1, <3>5
          <6>2. QED
            BY <6>1
        <5>2. QED
          BY <1>1, <5>1
      <4>4. QED
        BY <3>1, <3>3, <4>2, <4>3
    <3>6. QED
      BY <1>2, <3>3, <3>4, <3>5
  <2>3. \A x \in OnStack' : /\ low'[x] <= index'[x]
                            /\ \E y \in OnStack' : index'[y] = low'[x] /\ Path(graph', x, y)
    BY <1>3, <2>1
  <2>4. \A k \in 1..Len(calls') : \A x \in Under(k)' : \A y \in graph'[x] \cap OnStack' :
            low'[Fn(k)'] <= index'[y] \/ (x = Fn(k)' /\ y \in calls'[k].rest)
    BY <1>3, <2>2
  <2>5. QED
    BY <2>3, <2>4 DEF SccLows
<1>11. SccResult'
  BY DEF SccInv, SccResult
<1>12. QED
  BY <1>6, <1>7, <1>8, <1>9, <1>10, <1>11 DEF SccInv

\* Either way.
LEMMA ReturnKept ==
  ASSUME SccInv, Scc!Return
  PROVE  SccInv'
<1>1. PICK n \in Nat \ {0}, p \in 1..Len(stack) :
         /\ n = Len(calls) /\ n \in 1..n /\ calls[n].rest = {} /\ stack[p] = Fn(n)
         /\ graph' = graph /\ index' = index
         /\ calls' \in Seq([node : Scc!Node, rest : SUBSET Scc!Node])
         /\ Len(calls') = n - 1 /\ \A k \in 1..(n - 1) : calls'[k] = calls[k]
         /\ IF low[Fn(n)] = index[Fn(n)]
            THEN /\ result' = Append(result, From(Fn(n)))
                 /\ stack' = SubSeq(stack, 1, p - 1)
            ELSE result' = result /\ stack' = stack
         /\ n = 1 => low' = low
         /\ n # 1 => low' = [low EXCEPT ![Fn(n - 1)] =
                                 Scc!Least({low[Fn(n - 1)], low[Fn(n)]})]
  BY ReturnIs
<1>2. /\ low' \in [Scc!Node -> Nat]
      /\ \A x \in Scc!Node : low'[x] <= low[x] /\ low'[x] <= Cardinality(Seen)
      /\ \A x \in Scc!Node : low'[x] = low[x] \/ (n # 1 /\ x = Fn(n - 1) /\ low'[x] = low[Fn(n)])
      /\ n # 1 => low'[Fn(n - 1)] <= low[Fn(n)]
  BY <1>1, ReturnLows
<1>3. CASE low[Fn(n)] = index[Fn(n)]
  <2>1. /\ n = Len(calls) /\ n \in 1..n /\ calls[n].rest = {} /\ stack[p] = Fn(n)
        /\ graph' = graph /\ index' = index
        /\ calls' \in Seq([node : Scc!Node, rest : SUBSET Scc!Node])
        /\ Len(calls') = n - 1 /\ \A k \in 1..(n - 1) : calls'[k] = calls[k]
        /\ result' = Append(result, From(Fn(n))) /\ stack' = SubSeq(stack, 1, p - 1)
    BY <1>1, <1>3
  <2>2. QED
    BY <1>2, <1>3, <2>1, PopKept
<1>4. CASE low[Fn(n)] # index[Fn(n)]
  BY <1>1, <1>2, <1>4, StayKept
<1>5. QED
  BY <1>3, <1>4

\* It holds at the beginning.
LEMMA SccBegins ==
  ASSUME Scc!Init
  PROVE  SccInv
<1>1. /\ graph \in [Scc!Node -> SUBSET Scc!Node] /\ index = [v \in Scc!Node |-> 0] /\ low = index
      /\ stack = << >> /\ calls = << >> /\ result = << >>
  BY DEF Scc!Init
<1>2. Len(stack) = 0 /\ Len(calls) = 0 /\ Len(result) = 0
  BY <1>1
<1>3. 1..Len(stack) = {} /\ 1..Len(calls) = {} /\ 1..Len(result) = {}
  BY <1>2
<1>4. OnStack = {} /\ Placed = {} /\ Seen = {}
  BY <1>1, <1>3 DEF OnStack, Placed, Seen
<1>5. Cardinality(Seen) \in Nat
  BY <1>4, SeenIsFinite
<1>6. SccShapes
  BY <1>1 DEF SccShapes
<1>7. SccNumbers
  BY <1>1, <1>3, <1>4, <1>5 DEF SccNumbers
<1>8. SccEdges /\ SccPaths /\ SccLows /\ SccResult
  BY <1>3, <1>4 DEF SccEdges, SccPaths, SccLows, SccResult
<1>9. QED
  BY <1>6, <1>7, <1>8 DEF SccInv

\* A step that changes none of the algorithm's variables keeps it.
LEMMA SccStutter ==
  ASSUME SccInv, UNCHANGED sccVars
  PROVE  SccInv'
<1>1. /\ graph' = graph /\ index' = index /\ low' = low /\ stack' = stack
      /\ calls' = calls /\ result' = result
  BY DEF sccVars
<1>2. OnStack' = OnStack /\ Placed' = Placed /\ Seen' = Seen
  BY <1>1 DEF OnStack, Placed, Seen
<1>3. SccShapes' /\ SccResult'
  <2>1. SccShapes'
    BY <1>1 DEF SccInv, SccShapes
  <2>2. \A i \in 1..Len(result') : \A x \in result'[i] :
           /\ graph'[x] \subseteq UNION {result'[j] : j \in 1..i}
           /\ \A y \in Scc!Node : y \in result'[i] <=> Path(graph', x, y) /\ Path(graph', y, x)
    <3>1. SUFFICES ASSUME NEW i \in 1..Len(result'), NEW x \in result'[i]
                   PROVE  /\ graph'[x] \subseteq UNION {result'[j] : j \in 1..i}
                          /\ \A y \in Scc!Node : y \in result'[i]
                                 <=> Path(graph', x, y) /\ Path(graph', y, x)
      OBVIOUS
    <3>2. i \in 1..Len(result) /\ x \in result[i] /\ result'[i] = result[i]
      BY <1>1
    <3>3. /\ graph[x] \subseteq UNION {result[j] : j \in 1..i}
          /\ \A y \in Scc!Node : y \in result[i] <=> Path(graph, x, y) /\ Path(graph, y, x)
      BY <3>2 DEF SccInv, SccResult
    <3>4. graph'[x] \subseteq UNION {result'[j] : j \in 1..i}
      BY <1>1, <3>3
    <3>5. \A y \in Scc!Node : Path(graph', x, y) = Path(graph, x, y)
                            /\ Path(graph', y, x) = Path(graph, y, x)
      BY <1>1 DEF Path, Closed
    <3>6. QED
      BY <3>2, <3>3, <3>4, <3>5
  <2>3. \A i, j \in 1..Len(result') : i # j => result'[i] \cap result'[j] = {}
    BY <1>1 DEF SccInv, SccResult
  <2>4. QED
    BY <2>1, <2>2, <2>3 DEF SccResult
<1>4. SccNumbers' /\ SccEdges'
  BY <1>1, <1>2 DEF SccInv, SccNumbers, SccEdges, Fn
<1>5. SccPaths' /\ SccLows'
  BY <1>1, <1>2 DEF SccInv, SccPaths, SccLows, Under, Fn
<1>6. QED
  BY <1>3, <1>4, <1>5 DEF SccInv

\* What is in result are components, in order.
LEMMA ComponentsFollow ==
  ASSUME SccInv
  PROVE  Scc!ComponentsInOrder
<1>1. /\ graph \in [Scc!Node -> SUBSET Scc!Node]
      /\ index \in [Scc!Node -> Nat] /\ low \in [Scc!Node -> Nat]
      /\ stack \in Seq(Scc!Node)
      /\ calls \in Seq([node : Scc!Node, rest : SUBSET Scc!Node])
      /\ result \in Seq(SUBSET Scc!Node)
  BY DEF SccInv, SccShapes
<1>2. DOMAIN stack = 1..Len(stack) /\ DOMAIN calls = 1..Len(calls)
      /\ DOMAIN result = 1..Len(result)
  BY <1>1
<1>3. Scc!TypeOK
  <2>1. index \in [Scc!Node -> 0..N] /\ low \in [Scc!Node -> 0..N]
    <3>1. Cardinality(Seen) \in 0..N
      <4>1. Seen \subseteq Scc!Node
        BY DEF Seen
      <4>2. QED
        BY <4>1, SeenIsFinite
    <3>2. \A x \in Scc!Node : index[x] \in Nat /\ index[x] <= Cardinality(Seen)
                              /\ low[x] \in Nat /\ low[x] <= Cardinality(Seen)
      BY <1>1 DEF SccInv, SccNumbers
    <3>3. N \in Nat
      BY SccAssumption DEF Scc!NAssumption
    <3>4. \A x \in Scc!Node : index[x] \in 0..N /\ low[x] \in 0..N
      BY <3>1, <3>2, <3>3
    <3>5. QED
      BY <1>1, <3>4
  <2>2. Scc!IsInjective(stack)
    <3>1. SUFFICES ASSUME NEW i \in 1..Len(stack), NEW j \in 1..Len(stack), stack[i] = stack[j]
                   PROVE  i = j
      BY <1>2, SeqWords
    <3>2. i \in Nat /\ j \in Nat /\ index[stack[i]] \in Nat
      BY <1>1, ElementOfSeq
    <3>3. ~(i < j) /\ ~(j < i)
      BY <3>1, <3>2 DEF SccInv, SccNumbers
    <3>4. QED
      BY <3>2, <3>3
  <2>3. \A c \in Scc!Range(calls) : c.node \in Scc!Range(stack) /\ c.rest \subseteq graph[c.node]
    <3>1. Scc!Range(stack) = OnStack
      BY <1>2, SeqWords DEF OnStack
    <3>2. Scc!Range(calls) = {calls[k] : k \in 1..Len(calls)}
      BY <1>2, SeqWords
    <3>3. ASSUME NEW c \in Scc!Range(calls)
          PROVE  c.node \in Scc!Range(stack) /\ c.rest \subseteq graph[c.node]
      <4>1. PICK k \in 1..Len(calls) : c = calls[k]
        BY <3>2
      <4>2. c.node = Fn(k) /\ c.rest = calls[k].rest
        BY <4>1 DEF Fn
      <4>3. Fn(k) \in OnStack /\ calls[k].rest \subseteq graph[Fn(k)]
        BY DEF SccInv, SccNumbers, SccEdges
      <4>4. QED
        BY <3>1, <4>2, <4>3
    <3>4. QED
      BY <3>3
  <2>4. QED
    BY <1>1, <2>1, <2>2, <2>3 DEF Scc!TypeOK
<1>4. Scc!ComponentsExact
  <2>1. \A i \in 1..Len(result) : \A v \in result[i] : result[i] = Scc!Component(v)
    <3>1. SUFFICES ASSUME NEW i \in 1..Len(result), NEW v \in result[i]
                   PROVE  result[i] = Scc!Component(v)
      OBVIOUS
    <3>2. result[i] \in SUBSET Scc!Node
      BY <1>1, <3>1, ElementOfSeq
    <3>3. \A y \in Scc!Node : y \in result[i] <=> Path(graph, v, y) /\ Path(graph, y, v)
      BY <3>1 DEF SccInv, SccResult
    <3>4. Scc!Component(v) = {w \in Scc!Node : Path(graph, v, w) /\ Path(graph, w, v)}
      BY <3>1, <3>2, ComponentIs
    <3>5. QED
      BY <3>2, <3>3, <3>4
  <2>2. \A i, j \in 1..Len(result) : i # j => result[i] \cap result[j] = {}
    BY DEF SccInv, SccResult
  <2>3. Scc!Done => UNION Scc!Range(result) = Scc!Node
    <3>1. SUFFICES ASSUME Scc!Done PROVE UNION Scc!Range(result) = Scc!Node
      OBVIOUS
    <3>2. calls = << >> /\ Seen = Scc!Node
      BY <3>1 DEF Scc!Done, Scc!Visited, Seen
    <3>3. 1..Len(calls) = {}
      BY <3>2
    <3>4. OnStack = {}
      BY <3>3 DEF SccInv, SccPaths
    <3>5. Placed = Scc!Node
      BY <3>2, <3>4 DEF SccInv, SccNumbers
    <3>6. \A i \in 1..Len(result) : result[i] \subseteq Scc!Node
      BY <1>1, ElementOfSeq
    <3>7. Scc!Range(result) = {result[i] : i \in 1..Len(result)}
      BY <1>2, SeqWords
    <3>8. \A x \in Scc!Node : \E i \in 1..Len(result) : x \in result[i]
      BY <3>5 DEF Placed
    <3>9. QED
      BY <3>6, <3>7, <3>8
  <2>4. QED
    BY <1>2, <2>1, <2>2, <2>3 DEF Scc!ComponentsExact
<1>5. Scc!CalleesFirst
  BY <1>2 DEF SccInv, SccResult, Scc!CalleesFirst
<1>6. QED
  BY <1>3, <1>4, <1>5 DEF Scc!ComponentsInOrder

\* tarjan_scc is partially correct, for every call graph over any number of
\* functions: what it has emitted at any moment are components by definition,
\* callees first, each function in one, and when it is done every function in one.
THEOREM ComponentsAreRight == Scc!Spec => []Scc!ComponentsInOrder
<1>1. Scc!Init => SccInv
  BY SccBegins
<1>2. SccInv /\ [Scc!Next]_(Scc!vars) => SccInv'
  BY RootKept, LookKept, ReturnKept, SccStutter DEF Scc!Next, Scc!vars, sccVars
<1>3. SccInv => Scc!ComponentsInOrder
  BY ComponentsFollow
<1>4. QED
  BY <1>1, <1>2, <1>3, PTL DEF Scc!Spec

\* The same of what a run checks of it, where a behavior is about tarjan_scc or about
\* the code of the fail effect: the safety half of SccCorrect.
THEOREM RunComponentsAreRight == MCSpec => [][Scc!ComponentsInOrder']_allVars
<1>1. MCInit => SccInv
  BY SccBegins DEF MCInit
<1>2. SccInv /\ [MCNext]_allVars => SccInv'
  <2>1. ASSUME SccInv, SccNext PROVE SccInv'
    BY <2>1, RootKept, LookKept, ReturnKept DEF SccNext
  <2>2. ASSUME SccInv, UNCHANGED sccVars PROVE SccInv'
    BY <2>2, SccStutter
  <2>3. [MCNext]_allVars => SccNext \/ UNCHANGED sccVars
    BY DEF MCNext, allVars
  <2>4. QED
    BY <2>1, <2>2, <2>3
<1>3. SccInv => Scc!ComponentsInOrder
  BY ComponentsFollow
<1>4. SccInv' => Scc!ComponentsInOrder'
  BY <1>3, PTL
<1>5. QED
  BY <1>1, <1>2, <1>4, PTL DEF MCSpec
=============================================================================
