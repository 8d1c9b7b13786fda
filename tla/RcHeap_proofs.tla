--------------------------- MODULE RcHeap_proofs ----------------------------
(***************************************************************************)
(* The counts of RcHeap are exact for every set of blocks, every number of *)
(* variables and slots and every saturation bound, and so no place ever    *)
(* holds a freed or dying block.                                           *)
(*                                                                         *)
(* The invariant is stated as Good(how, t, r, f, c), an operator on the    *)
(* values of tid, rc, ref and calls, because the actions are built from    *)
(* two moves: ASSIGN a shared reference to a place, and MOVE a reference   *)
(* from one place to another, each followed by ring_drop of what the place *)
(* held.  Lemmas Assign and Move prove the two once.                       *)
(*                                                                         *)
(* With how = "exact" a count is the number of references, with "cover" no *)
(* fewer.  Every step of RcHeap keeps the one as well as the other; memory *)
(* safety needs the second only, and that is what CellUpdate keeps.        *)
(*                                                                         *)
(* From the exact counts follow two facts about what outlives its owners:  *)
(* an immortal block is never touched again, and a block nothing reaches   *)
(* is held by another such block.                                          *)
(***************************************************************************)
EXTENDS CellUpdate, TLAPS, FiniteSetTheorems, SequenceTheorems, WellFoundedInduction

\* Induction over the naturals, for a set: the library's theorems take an
\* operator, here the property is a set, and what is not in it has a least
\* member.
LEMMA SetInduction ==
  ASSUME NEW S, 0 \in S, \A n \in Nat : n \in S => n + 1 \in S
  PROVE  Nat \subseteq S
<1> DEFINE Less == {p \in Nat \X Nat : p[1] < p[2]}
           T == Nat \ S
<1>1. IsWellFoundedOn(Less, Nat)
  <2>1. OpToRel(<, Nat) = Less  BY DEF OpToRel
  <2>2. QED  BY <2>1, NatLessThanWellFounded
<1>2. SUFFICES ASSUME T # {} PROVE FALSE  OBVIOUS
<1>3. PICK x \in T : \A y \in T : ~(<<y, x>> \in Less)
  <2> HIDE DEF Less
  <2>1. T \subseteq Nat  OBVIOUS
  <2> HIDE DEF T
  <2>2. QED  BY <1>1, <1>2, <2>1, WFMin
<1>4. x \in Nat /\ x \notin S /\ x # 0  OBVIOUS
<1>5. x - 1 \in Nat /\ x - 1 \notin S  BY <1>4
<1>6. <<x - 1, x>> \in Less  BY <1>4, <1>5
<1>7. QED  BY <1>3, <1>4, <1>5, <1>6

\* A frame of the stack of destructors, the places that hold a block, their
\* number, and whether its destructor runs.
FrameSet == [blk : Addr, at : 0 .. NSlots + 1]
Held(f, a) == {p \in Place : f[p] = a}
Cnt(f, a)  == Cardinality(Held(f, a))
InCalls(a, c) == \E i \in 1 .. Len(c) : c[i].blk = a

Types(t, r, f, c) ==
    /\ t \in [Addr -> AllKinds \cup {"static", "free"}]
    /\ r \in [Addr -> 0 .. MaxRC + 1]
    /\ f \in [Place -> Val]
    /\ c \in Seq(FrameSet)
\* A count n for m references: exact, or of no fewer.
Covers(how, n, m) == n >= m /\ (how = "exact" => n = m)

Exact(how, t, r, f, c) ==
    \A a \in Addr : t[a] \in AllKinds /\ r[a] <= MaxRC /\ ~InCalls(a, c)
        => Covers(how, r[a], Cnt(f, a)) /\ r[a] > 0
FreeUnheld(t, r, f, c) ==
    \A a \in Addr : t[a] = "free" =>
        /\ r[a] = 0 /\ Cnt(f, a) = 0 /\ ~InCalls(a, c)
        /\ \A s \in Slot : f[<<a, s>>] = Null
DyingUnheld(t, r, f, c) ==
    \A i \in 1 .. Len(c) :
        /\ t[c[i].blk] \in AllKinds /\ r[c[i].blk] = 1 /\ Cnt(f, c[i].blk) = 0
        /\ \A s \in Slot : s < c[i].at => f[<<c[i].blk, s>>] = Null
Once(c) == \A i, j \in 1 .. Len(c) : c[i].blk = c[j].blk => i = j

Good(how, t, r, f, c) ==
    Types(t, r, f, c) /\ Exact(how, t, r, f, c) /\ FreeUnheld(t, r, f, c)
        /\ DyingUnheld(t, r, f, c) /\ Once(c)

-----------------------------------------------------------------------------
(* Facts about places and counts.                                          *)

\* There are finitely many places.
LEMMA PlaceFinite == IsFiniteSet(Place)
<1>1. IsFiniteSet(Slot)  BY FS_Interval, HeapAssumption DEF Slot
<1>2. IsFiniteSet(Addr \X Slot)  BY <1>1, FS_Product, HeapAssumption
<1>3. QED  BY <1>2, FS_Union, HeapAssumption DEF Place

\* The places that hold a block are finitely many, so their number is a natural.
LEMMA HeldFinite == ASSUME NEW f, NEW a PROVE IsFiniteSet(Held(f, a)) /\ Cnt(f, a) \in Nat
  BY PlaceFinite, FS_Subset, FS_CardinalityType DEF Held, Cnt

(* When two stores differ at p only, the count of a block differs by p alone. *)
OnlyAt(f, g, p) == \A x \in Place : x # p => g[x] = f[x]
Shifted(f, g, p) ==
    \A a \in Addr : Cnt(g, a) =
        Cnt(f, a) + (IF g[p] = a THEN 1 ELSE 0) - (IF f[p] = a THEN 1 ELSE 0)

\* A store changed at one place.
LEMMA PutCount ==
  ASSUME NEW f, NEW g, NEW p \in Place, OnlyAt(f, g, p)
  PROVE  Shifted(f, g, p)
<1> SUFFICES ASSUME NEW a \in Addr
             PROVE  Cnt(g, a) =
                       Cnt(f, a) + (IF g[p] = a THEN 1 ELSE 0) - (IF f[p] = a THEN 1 ELSE 0)
  BY DEF Shifted
<1> DEFINE H == Held(f, a)
           K == Held(g, a)
<1>1. IsFiniteSet(H) /\ IsFiniteSet(K)  BY HeldFinite
<1>2. Cardinality(H) \in Nat  BY <1>1, FS_CardinalityType
<1>3. p \in H <=> f[p] = a  BY DEF Held
<1>4. Cnt(f, a) = Cardinality(H) /\ Cnt(g, a) = Cardinality(K)  BY DEF Cnt
<1>5. CASE g[p] = a
  <2>1. K = H \cup {p}  BY <1>5 DEF Held, OnlyAt
  <2>2. Cardinality(H \cup {p}) = IF p \in H THEN Cardinality(H) ELSE Cardinality(H) + 1
    BY <1>1, FS_AddElement
  <2> HIDE DEF H, K
  <2>3. QED  BY <2>1, <2>2, <1>2, <1>3, <1>4, <1>5
<1>6. CASE g[p] # a
  <2>1. K = H \ {p}  BY <1>6 DEF Held, OnlyAt
  <2>2. Cardinality(H \ {p}) = IF p \in H THEN Cardinality(H) - 1 ELSE Cardinality(H)
    BY <1>1, FS_RemoveElement
  <2> HIDE DEF H, K
  <2>3. QED  BY <2>1, <2>2, <1>2, <1>3, <1>4, <1>6
<1>7. QED  BY <1>5, <1>6

(* A block that some place holds has a positive count of holders. *)
LEMMA HeldPositive ==
  ASSUME NEW f \in [Place -> Val], NEW p \in Place
  PROVE  Cnt(f, f[p]) \in Nat /\ Cnt(f, f[p]) > 0
<1>1. p \in Held(f, f[p])  BY DEF Held
<1>2. QED  BY <1>1, HeldFinite, FS_EmptySet DEF Cnt

-----------------------------------------------------------------------------
(* ring_dup and ring_drop of RcHeap as operators on values.                *)

Guarded(t, p, r)  == p = Null \/ r[p] = 0 \/ r[p] > MaxRC \/ t[p] = "static"
DupOf(t, p, r)    == IF Guarded(t, p, r) THEN r ELSE [r EXCEPT ![p] = @ + 1]
DropRc(t, p, r)   == IF Guarded(t, p, r) \/ r[p] <= 1 THEN r ELSE [r EXCEPT ![p] = @ - 1]
Entered(t, p)     == [blk |-> p, at |-> IF t[p] = "res" THEN 0 ELSE 1]
DropCalls(t, p, r, c) ==
    IF ~Guarded(t, p, r) /\ r[p] <= 1 THEN Append(c, Entered(t, p)) ELSE c

(* A place that v may be stored in: not in a freed block, not in the part of  *)
(* a dying block that its destructor has already released.                   *)
Open(t, c, q, v) ==
    \/ v = Null
    \/ q \in Local \cup Temp
    \/ \E b \in Addr, s \in Slot :
          /\ q = <<b, s>> /\ t[b] # "free"
          /\ \A i \in 1 .. Len(c) : c[i].blk = b => c[i].at <= s

(* What a place holds is neither free nor dying. *)
LEMMA HeldAlive ==
  ASSUME NEW how, NEW t, NEW r, NEW f, NEW c, Good(how, t, r, f, c), NEW a \in Addr, Cnt(f, a) > 0
  PROVE  t[a] # "free" /\ ~InCalls(a, c)
BY DEF Good, FreeUnheld, DyingUnheld, InCalls

\* The frame ring_drop pushes is well typed.
LEMMA FrameTypes ==
  ASSUME NEW c \in Seq(FrameSet)
  PROVE  Len(c) \in Nat /\ \A i \in 1 .. Len(c) : c[i] \in FrameSet /\ c[i].blk \in Addr
<1>1. Len(c) \in Nat /\ \A i \in 1 .. Len(c) : c[i] \in FrameSet  OBVIOUS
<1>2. QED  BY <1>1 DEF FrameSet

(* Pushing a frame on the stack of destructors. *)
LEMMA Push ==
  ASSUME NEW c \in Seq(FrameSet), NEW e \in FrameSet, ~InCalls(e.blk, c), Once(c)
  PROVE  /\ Append(c, e) \in Seq(FrameSet) /\ Once(Append(c, e))
         /\ Len(Append(c, e)) = Len(c) + 1
         /\ Append(c, e)[Len(c) + 1] = e
         /\ \A i \in 1 .. Len(c) : Append(c, e)[i] = c[i]
         /\ \A a \in Addr : InCalls(a, Append(c, e)) <=> InCalls(a, c) \/ a = e.blk
<1> DEFINE d == Append(c, e)
<1>1. d \in Seq(FrameSet) /\ Len(d) = Len(c) + 1 /\ Len(c) \in Nat  OBVIOUS
<1>2. d[Len(c) + 1] = e /\ \A i \in 1 .. Len(c) : d[i] = c[i]  OBVIOUS
<1> HIDE DEF d
<1>3. \A i \in 1 .. Len(d) : i = Len(c) + 1 \/ i \in 1 .. Len(c)  BY <1>1
<1>4. Once(d)  BY <1>1, <1>2, <1>3 DEF Once, InCalls
<1>5. \A a \in Addr : InCalls(a, d) <=> InCalls(a, c) \/ a = e.blk
  BY <1>1, <1>2, <1>3 DEF InCalls
<1>6. QED  BY <1>1, <1>2, <1>4, <1>5 DEF d

(* What ring_drop adds to the stack, seen on its own: the counts r already    *)
(* hold what the places f2 will hold once o has lost a holder.               *)
LEMMA DropGood ==
  ASSUME NEW how, NEW t, NEW r, NEW g, NEW c, NEW o \in Val,
         Types(t, r, g, c), Once(c), FreeUnheld(t, r, g, c),
         \A a \in Addr : t[a] \in AllKinds /\ r[a] <= MaxRC /\ ~InCalls(a, c)
             => Covers(how, r[a], Cnt(g, a) + (IF a = o THEN 1 ELSE 0)) /\ r[a] > 0,
         DyingUnheld(t, r, g, c),
         o # Null => t[o] # "free" /\ ~InCalls(o, c)
  PROVE  Good(how, t, DropRc(t, o, r), g, DropCalls(t, o, r, c))
<1> DEFINE r2 == DropRc(t, o, r)
           c2 == DropCalls(t, o, r, c)
<1>t. Types(t, r, g, c)  OBVIOUS
<1>n. \A a \in Addr : Cnt(g, a) \in Nat /\ r[a] \in 0 .. MaxRC + 1
  BY HeldFinite DEF Types
<1>m. MaxRC \in Nat \ {0} /\ NSlots \in Nat \ {0} /\ Null \notin Addr  BY HeapAssumption
<1>1. CASE Guarded(t, o, r)
  <2>1. r2 = r /\ c2 = c  BY <1>1 DEF DropRc, DropCalls
  <2>2. Exact(how, t, r, g, c)  BY <1>1, <1>n, <1>m DEF Exact, Covers, Guarded, AllKinds
  <2>3. QED  BY <2>1, <2>2 DEF Good
<1>2. CASE ~Guarded(t, o, r) /\ r[o] > 1
  <2>1. o \in Addr  BY <1>2 DEF Guarded, Val
  <2>2. r2 = [r EXCEPT ![o] = @ - 1] /\ c2 = c
    BY <1>2, <1>n, <2>1 DEF DropRc, DropCalls
  <2>3. t[o] \in AllKinds /\ r[o] <= MaxRC /\ ~InCalls(o, c)
    BY <1>2, <2>1, <1>t, <1>n, <1>m DEF Guarded, Types, Val, AllKinds
  <2>4. r \in [Addr -> 0 .. MaxRC + 1]  BY DEF Types
  <2>5. Types(t, r2, g, c)  BY <2>1, <2>2, <2>4, <1>2, <1>n, <1>m DEF Types
  <2>6. \A a \in Addr : r2[a] = IF a = o THEN r[o] - 1 ELSE r[a]  BY <2>2, <2>4
  <2>7. Exact(how, t, r2, g, c)  BY <2>1, <2>3, <2>6, <1>2, <1>n, <1>m DEF Exact, Covers
  <2>8. FreeUnheld(t, r2, g, c)  BY <2>6, <2>1, <1>m DEF FreeUnheld
  <2>9. \A i \in 1 .. Len(c) : c[i].blk \in Addr /\ c[i].blk # o
    BY <2>3, <1>t, FrameTypes DEF InCalls, Types
  <2>10. DyingUnheld(t, r2, g, c)  BY <2>6, <2>9 DEF DyingUnheld
  <2>11. QED  BY <2>2, <2>5, <2>7, <2>8, <2>10 DEF Good
<1>3. CASE ~Guarded(t, o, r) /\ r[o] <= 1
  <2>1. o \in Addr  BY <1>3 DEF Guarded, Val
  <2>2. r2 = r /\ c2 = Append(c, Entered(t, o))  BY <1>3 DEF DropRc, DropCalls
  <2>3. t[o] \in AllKinds /\ r[o] = 1 /\ ~InCalls(o, c)
    BY <1>3, <2>1, <1>t, <1>n, <1>m DEF Guarded, Types, Val, AllKinds
  <2>4. Cnt(g, o) = 0  BY <2>1, <2>3, <1>n, <1>m DEF Covers
  <2>5. Entered(t, o) \in FrameSet /\ Entered(t, o).blk = o
    BY <2>1, <1>m DEF Entered, FrameSet
  <2>c. c \in Seq(FrameSet)  BY DEF Types
  <2> DEFINE e == Entered(t, o)
             d == Append(c, e)
  <2>6. /\ d \in Seq(FrameSet) /\ Once(d) /\ Len(d) = Len(c) + 1 /\ d[Len(c) + 1] = e
        /\ \A i \in 1 .. Len(c) : d[i] = c[i]
        /\ \A a \in Addr : InCalls(a, d) <=> InCalls(a, c) \/ a = o
    BY <2>3, <2>5, <2>c, Push
  <2>7. e.blk = o /\ \A s \in Slot : ~(s < e.at)
    BY <1>m DEF Entered, Slot
  <2>l. Len(c) \in Nat  BY <2>c
  <2> HIDE DEF d, e
  <2>8. Types(t, r, g, d)  BY <2>6, <1>t DEF Types
  <2>9. Exact(how, t, r, g, d)  BY <2>6, <1>n DEF Exact, Covers
  <2>10. FreeUnheld(t, r, g, d)  BY <2>6, <2>3 DEF FreeUnheld, AllKinds
  <2>11. DyingUnheld(t, r, g, d)
    <3> SUFFICES ASSUME NEW i \in 1 .. Len(d)
                 PROVE  /\ t[d[i].blk] \in AllKinds /\ r[d[i].blk] = 1 /\ Cnt(g, d[i].blk) = 0
                        /\ \A s \in Slot : s < d[i].at => g[<<d[i].blk, s>>] = Null
      BY DEF DyingUnheld
    <3>1. CASE i = Len(c) + 1  BY <3>1, <2>3, <2>4, <2>6, <2>7
    <3>2. CASE i \in 1 .. Len(c)  BY <3>2, <2>6 DEF DyingUnheld
    <3>3. QED  BY <3>1, <3>2, <2>6, <2>l
  <2>12. QED  BY <2>2, <2>6, <2>8, <2>9, <2>10, <2>11 DEF Good, d, e
<1>4. QED
  <2>1. o # Null => r[o] \in Int  BY <1>n DEF Val
  <2>2. r[o] <= 1 \/ r[o] > 1 \/ Guarded(t, o, r)  BY <2>1 DEF Guarded
  <2>3. QED  BY <1>1, <1>2, <1>3, <2>2

-----------------------------------------------------------------------------
(* The two moves every action is made of.                                  *)

(* Place q takes another reference to v, which some place holds already, and  *)
(* ring_drop is called on what q held: Clone, SlotRead, SlotReplace, CellGet, *)
(* and with v = Null every release of a place.                              *)
LEMMA Assign ==
  ASSUME NEW how, NEW t, NEW r, NEW f, NEW c, Good(how, t, r, f, c),
         NEW q \in Place, NEW v \in Val,
         v # Null => Cnt(f, v) > 0, Open(t, c, q, v)
  PROVE  LET r1 == DupOf(t, v, r)
             o  == f[q]
         IN  Good(how, t, DropRc(t, o, r1), [f EXCEPT ![q] = v], DropCalls(t, o, r1, c))
<1> DEFINE r1 == DupOf(t, v, r)
           o  == f[q]
           g  == [f EXCEPT ![q] = v]
<1>t. t \in [Addr -> AllKinds \cup {"static", "free"}] /\ r \in [Addr -> 0 .. MaxRC + 1]
      /\ f \in [Place -> Val] /\ c \in Seq(FrameSet)
  BY DEF Good, Types
<1>m. MaxRC \in Nat \ {0} /\ NSlots \in Nat \ {0} /\ Null \notin Addr  BY HeapAssumption
<1>o. o \in Val /\ (o # Null => o \in Addr /\ Cnt(f, o) > 0)
  BY <1>t, HeldPositive DEF Val
<1>v. v # Null => v \in Addr  BY DEF Val
<1>a. /\ v # Null => t[v] # "free" /\ ~InCalls(v, c)
      /\ o # Null => t[o] # "free" /\ ~InCalls(o, c)
  BY <1>o, <1>v, HeldAlive
<1>n. \A a \in Addr : /\ Cnt(f, a) \in Nat /\ Cnt(g, a) \in Nat /\ r[a] \in 0 .. MaxRC + 1
                      /\ Cnt(g, a) = Cnt(f, a) + (IF v = a THEN 1 ELSE 0) - (IF o = a THEN 1 ELSE 0)
  <2> SUFFICES ASSUME NEW a \in Addr
               PROVE  /\ Cnt(f, a) \in Nat /\ Cnt(g, a) \in Nat /\ r[a] \in 0 .. MaxRC + 1
                      /\ Cnt(g, a) = Cnt(f, a) + (IF v = a THEN 1 ELSE 0) - (IF o = a THEN 1 ELSE 0)
    OBVIOUS
  <2>1. f \in [Place -> Val] /\ r[a] \in 0 .. MaxRC + 1  BY <1>t
  <2>2. Cnt(g, a) = Cnt(f, a) + (IF v = a THEN 1 ELSE 0) - (IF o = a THEN 1 ELSE 0)
    <3>1. g[q] = v /\ OnlyAt(f, g, q)  BY <2>1 DEF OnlyAt
    <3> HIDE DEF g
    <3>2. Shifted(f, g, q)  BY <3>1, PutCount
    <3>3. QED  BY <3>1, <3>2 DEF Shifted
  <2>3. Cnt(f, a) \in Nat /\ Cnt(g, a) \in Nat  BY HeldFinite
  <2> HIDE DEF g, o
  <2>4. QED  BY <2>1, <2>2, <2>3
<1>g. g \in [Place -> Val]  BY <1>t
<1>s. \A a \in Addr, s \in Slot :
        <<a, s>> \in Place /\ g[<<a, s>>] = IF q = <<a, s>> THEN v ELSE f[<<a, s>>]
  BY <1>t DEF Place
<1>q. \A a \in Addr, s \in Slot :
        q = <<a, s>> /\ v # Null =>
            t[a] # "free" /\ \A i \in 1 .. Len(c) : c[i].blk = a => c[i].at <= s
  BY HeapAssumption DEF Open
<1>r. \A a \in Addr : r1[a] = IF a = v /\ ~Guarded(t, v, r) THEN r[a] + 1 ELSE r[a]
  BY <1>t, <1>n DEF DupOf
<1>b. r1 \in [Addr -> 0 .. MaxRC + 1]
  BY <1>t, <1>n, <1>m, <1>v DEF DupOf, Guarded
<1> HIDE DEF r1, g, o
<1>1. Types(t, r1, g, c)  BY <1>t, <1>b, <1>g DEF Types
<1>2. Once(c)  BY DEF Good
<1>3. FreeUnheld(t, r1, g, c)
  <2> SUFFICES ASSUME NEW a \in Addr, t[a] = "free"
               PROVE  r1[a] = 0 /\ Cnt(g, a) = 0 /\ ~InCalls(a, c)
                      /\ \A s \in Slot : g[<<a, s>>] = Null
    BY DEF FreeUnheld
  <2>1. r[a] = 0 /\ Cnt(f, a) = 0 /\ ~InCalls(a, c) /\ \A s \in Slot : f[<<a, s>>] = Null
    BY DEF Good, FreeUnheld
  <2>2. v # a /\ o # a  BY <1>a, <1>m
  <2>3. r1[a] = 0 /\ Cnt(g, a) = 0  BY <2>1, <2>2, <1>n, <1>r
  <2>4. \A s \in Slot : g[<<a, s>>] = Null  BY <2>1, <1>s, <1>q
  <2>5. QED  BY <2>1, <2>3, <2>4
<1>4. \A a \in Addr : t[a] \in AllKinds /\ r1[a] <= MaxRC /\ ~InCalls(a, c)
        => Covers(how, r1[a], Cnt(g, a) + (IF a = o THEN 1 ELSE 0)) /\ r1[a] > 0
  <2> SUFFICES ASSUME NEW a \in Addr, t[a] \in AllKinds, r1[a] <= MaxRC, ~InCalls(a, c)
               PROVE  Covers(how, r1[a], Cnt(g, a) + (IF a = o THEN 1 ELSE 0)) /\ r1[a] > 0
    OBVIOUS
  <2>1. r[a] <= MaxRC  BY <1>r, <1>n, <1>m
  <2>2. Covers(how, r[a], Cnt(f, a)) /\ r[a] > 0  BY <2>1 DEF Good, Exact
  <2>3. a = v => ~Guarded(t, v, r)  BY <2>1, <2>2, <1>n, <1>m DEF Guarded, AllKinds
  <2>4. QED  BY <2>2, <2>3, <1>r, <1>n DEF Covers
<1>5. DyingUnheld(t, r1, g, c)
  <2> SUFFICES ASSUME NEW i \in 1 .. Len(c)
               PROVE  /\ t[c[i].blk] \in AllKinds /\ r1[c[i].blk] = 1 /\ Cnt(g, c[i].blk) = 0
                      /\ \A s \in Slot : s < c[i].at => g[<<c[i].blk, s>>] = Null
    BY DEF DyingUnheld
  <2> DEFINE b == c[i].blk
  <2>1. b \in Addr /\ c[i].at \in 0 .. NSlots + 1  BY <1>t, FrameTypes DEF FrameSet
  <2>2. /\ t[b] \in AllKinds /\ r[b] = 1 /\ Cnt(f, b) = 0
        /\ \A s \in Slot : s < c[i].at => f[<<b, s>>] = Null
    BY DEF Good, DyingUnheld
  <2>3. v # b /\ o # b  BY <1>a, <1>m, <2>1 DEF InCalls
  <2>4. r1[b] = 1 /\ Cnt(g, b) = 0
    <3>1. r1[b] = r[b]  BY <2>1, <2>3, <1>r
    <3>2. Cnt(g, b) = Cnt(f, b) + 0 - 0  BY <2>1, <2>3, <1>n
    <3>3. QED  BY <2>2, <3>1, <3>2
  <2>5. \A s \in Slot : s < c[i].at => g[<<b, s>>] = Null
    BY <2>1, <2>2, <1>s, <1>q, <1>m DEF Slot
  <2>6. QED  BY <2>2, <2>4, <2>5
<1>6. QED  BY <1>1, <1>2, <1>3, <1>4, <1>5, <1>a, <1>o, DropGood DEF r1, g, o

(* The reference in place p goes to place q, and ring_drop is called on what  *)
(* q held: SlotTake, SlotWrite, CellSet.                                     *)
LEMMA Move ==
  ASSUME NEW how, NEW t, NEW r, NEW f, NEW c, Good(how, t, r, f, c),
         NEW p \in Place, NEW q \in Place, p # q, Open(t, c, q, f[p])
  PROVE  Good(how, t, DropRc(t, f[q], r), [f EXCEPT ![q] = f[p], ![p] = Null],
                 DropCalls(t, f[q], r, c))
<1> DEFINE o  == f[q]
           v  == f[p]
           f1 == [f EXCEPT ![q] = v]
           g  == [f EXCEPT ![q] = f[p], ![p] = Null]
<1>t. t \in [Addr -> AllKinds \cup {"static", "free"}] /\ r \in [Addr -> 0 .. MaxRC + 1]
      /\ f \in [Place -> Val] /\ c \in Seq(FrameSet)
  BY DEF Good, Types
<1>m. MaxRC \in Nat \ {0} /\ NSlots \in Nat \ {0} /\ Null \notin Addr /\ Null \in Val
  BY HeapAssumption DEF Val
<1>o. /\ o \in Val /\ (o # Null => o \in Addr /\ Cnt(f, o) > 0)
      /\ v \in Val /\ (v # Null => v \in Addr /\ Cnt(f, v) > 0)
  BY <1>t, HeldPositive DEF Val
<1>a. /\ v # Null => t[v] # "free" /\ ~InCalls(v, c)
      /\ o # Null => t[o] # "free" /\ ~InCalls(o, c)
  BY <1>o, HeldAlive
<1>g. f1 \in [Place -> Val] /\ f1[p] = v /\ g = [f1 EXCEPT ![p] = Null] /\ g \in [Place -> Val]
  BY <1>t, <1>m, <1>o
<1>1. \A a \in Addr : Cnt(f1, a) = Cnt(f, a) + (IF v = a THEN 1 ELSE 0) - (IF o = a THEN 1 ELSE 0)
  <2>1. OnlyAt(f, f1, q)  BY <1>t DEF OnlyAt
  <2>v. f1[q] = v /\ f[q] = o  BY <1>t
  <2> HIDE DEF f1, g, v, o
  <2>2. Shifted(f, f1, q)  BY <2>1, PutCount
  <2>3. QED  BY <2>v, <2>2 DEF Shifted
<1>2. \A a \in Addr : Cnt(g, a) = Cnt(f1, a) + (IF Null = a THEN 1 ELSE 0) - (IF v = a THEN 1 ELSE 0)
  <2> HIDE DEF f1, g, v, o
  <2>1. g[p] = Null /\ f1[p] = v /\ \A x \in Place : x # p => g[x] = f1[x]  BY <1>g
  <2>2. OnlyAt(f1, g, p)  BY <2>1 DEF OnlyAt
  <2>3. Shifted(f1, g, p)  BY <2>2, PutCount
  <2>4. QED  BY <2>1, <2>3 DEF Shifted
<1>n. \A a \in Addr : /\ Cnt(f, a) \in Nat /\ Cnt(g, a) \in Nat /\ r[a] \in 0 .. MaxRC + 1
                      /\ Cnt(g, a) = Cnt(f, a) - (IF o = a THEN 1 ELSE 0)
  <2> SUFFICES ASSUME NEW a \in Addr
               PROVE  /\ Cnt(f, a) \in Nat /\ Cnt(g, a) \in Nat /\ r[a] \in 0 .. MaxRC + 1
                      /\ Cnt(g, a) = Cnt(f, a) - (IF o = a THEN 1 ELSE 0)
    OBVIOUS
  <2>1. Cnt(f, a) \in Nat /\ Cnt(g, a) \in Nat  BY HeldFinite
  <2>2. r[a] \in 0 .. MaxRC + 1 /\ Null # a  BY <1>t, <1>m
  <2> HIDE DEF f1, g, o, v
  <2>3. QED  BY <1>1, <1>2, <2>1, <2>2
<1>s. \A a \in Addr, s \in Slot :
        /\ <<a, s>> \in Place
        /\ g[<<a, s>>] = IF p = <<a, s>> THEN Null ELSE IF q = <<a, s>> THEN v ELSE f[<<a, s>>]
  BY <1>t DEF Place
<1>q. \A a \in Addr, s \in Slot :
        q = <<a, s>> /\ v # Null =>
            t[a] # "free" /\ \A i \in 1 .. Len(c) : c[i].blk = a => c[i].at <= s
  BY HeapAssumption DEF Open
<1> HIDE DEF g, f1, o, v
<1>3. Types(t, r, g, c) /\ Once(c)  BY <1>t, <1>g DEF Types, Good
<1>4. FreeUnheld(t, r, g, c)
  <2> SUFFICES ASSUME NEW a \in Addr, t[a] = "free"
               PROVE  r[a] = 0 /\ Cnt(g, a) = 0 /\ ~InCalls(a, c)
                      /\ \A s \in Slot : g[<<a, s>>] = Null
    BY DEF FreeUnheld
  <2>1. r[a] = 0 /\ Cnt(f, a) = 0 /\ ~InCalls(a, c) /\ \A s \in Slot : f[<<a, s>>] = Null
    BY DEF Good, FreeUnheld
  <2>2. o # a  BY <1>a, <1>m
  <2>3. QED  BY <2>1, <2>2, <1>n, <1>s, <1>q
<1>5. \A a \in Addr : t[a] \in AllKinds /\ r[a] <= MaxRC /\ ~InCalls(a, c)
        => Covers(how, r[a], Cnt(g, a) + (IF a = o THEN 1 ELSE 0)) /\ r[a] > 0
  BY <1>n DEF Good, Exact, Covers
<1>6. DyingUnheld(t, r, g, c)
  <2> SUFFICES ASSUME NEW i \in 1 .. Len(c)
               PROVE  /\ t[c[i].blk] \in AllKinds /\ r[c[i].blk] = 1 /\ Cnt(g, c[i].blk) = 0
                      /\ \A s \in Slot : s < c[i].at => g[<<c[i].blk, s>>] = Null
    BY DEF DyingUnheld
  <2> DEFINE b == c[i].blk
  <2>1. b \in Addr /\ c[i].at \in 0 .. NSlots + 1  BY <1>t, FrameTypes DEF FrameSet
  <2>2. /\ t[b] \in AllKinds /\ r[b] = 1 /\ Cnt(f, b) = 0
        /\ \A s \in Slot : s < c[i].at => f[<<b, s>>] = Null
    BY DEF Good, DyingUnheld
  <2>3. o # b  BY <1>a, <1>m, <2>1 DEF InCalls
  <2>4. Cnt(g, b) = 0  BY <2>1, <2>2, <2>3, <1>n
  <2>5. \A s \in Slot : s < c[i].at => g[<<b, s>>] = Null
    BY <2>1, <2>2, <1>s, <1>q, <1>m DEF Slot
  <2>6. QED  BY <2>2, <2>4, <2>5
<1>7. QED  BY <1>3, <1>4, <1>5, <1>6, <1>a, <1>o, DropGood DEF g, o, v

-----------------------------------------------------------------------------
(* The inductive invariant of RcHeap, and each action's part in it.         *)

HeapInv(how) == Good(how, tid, rc, ref, calls)

\* What the assumption on the constants gives every later step.
LEMMA ConstFacts ==
  /\ MaxRC \in Nat \ {0} /\ NSlots \in Nat \ {0} /\ Null \notin Addr /\ Null \in Val
  /\ \A l \in Local \cup Temp : l \in Place
  /\ \A a \in Addr, s \in Slot : <<a, s>> \in Place /\ <<a, s>> \notin Local \cup Temp
BY HeapAssumption DEF Place, Val

\* The types of the variables, out of the invariant.
LEMMA InvTypes ==
  ASSUME NEW how, HeapInv(how)
  PROVE  /\ tid \in [Addr -> AllKinds \cup {"static", "free"}]
         /\ rc \in [Addr -> 0 .. MaxRC + 1]
         /\ ref \in [Place -> Val]
         /\ calls \in Seq(FrameSet)
         /\ \A p \in Place : ref[p] \in Val /\ (ref[p] # Null => ref[p] \in Addr)
         /\ \A p \in Place : ref[p] # Null => Cnt(ref, ref[p]) > 0
BY HeldPositive DEF HeapInv, Good, Types, Val

(* The steps of the specification are the operators of the lemmas. *)
LEMMA DropIs ==
  ASSUME NEW p, NEW r, NEW c, Drop(p, r, c)
  PROVE  rc' = DropRc(tid, p, r) /\ calls' = DropCalls(tid, p, r, c)
BY DEF Drop, DropRc, DropCalls, NoRc, Guarded, Frame, Entered

\* The model's Dup is the Dup on explicit arguments that the lemmas are about.
LEMMA DupIs == ASSUME NEW p, NEW r PROVE Dup(p, r) = DupOf(tid, p, r)
BY DEF Dup, DupOf, NoRc, Guarded

\* Dropping a value without a count does nothing.
LEMMA NullDrop ==
  ASSUME NEW t, NEW r, NEW c PROVE DropRc(t, Null, r) = r /\ DropCalls(t, Null, r, c) = c
BY DEF DropRc, DropCalls, Guarded

(* The program may store into every slot of a block it can name. *)
LEMMA BaseOpen ==
  ASSUME NEW how, HeapInv(how), NEW b \in Bases, NEW s \in Slot, NEW v
  PROVE  Open(tid, calls, <<b, s>>, v)
<1>b. b \in Addr  BY DEF Bases
<1>1. CASE \E l \in Local : ref[l] = b
  <2>1. Cnt(ref, b) > 0  BY <1>1, <1>b, ConstFacts, InvTypes
  <2>2. tid[b] # "free" /\ ~InCalls(b, calls)  BY <2>1, <1>b, HeldAlive DEF HeapInv
  <2>3. QED  BY <2>2, <1>b DEF Open, InCalls
<1>2. CASE InBody /\ Top.blk = b
  <2>1. Depth \in 1 .. Len(calls) /\ calls[Depth].blk = b /\ calls[Depth].at = 0
    BY <1>2, InvTypes DEF InBody, Depth, Top
  <2>2. tid[b] # "free"  BY <2>1 DEF HeapInv, Good, DyingUnheld, AllKinds
  <2>3. \A i \in 1 .. Len(calls) : calls[i].blk = b => calls[i].at <= s
    BY <2>1 DEF HeapInv, Good, Once, Slot
  <2>4. QED  BY <2>2, <2>3, <1>b DEF Open
<1>3. QED  BY <1>1, <1>2 DEF Bases

\* The empty heap satisfies the invariant.
LEMMA InitInv ==
  ASSUME NEW how
  PROVE  Init => HeapInv(how)
<1> SUFFICES ASSUME Init PROVE HeapInv(how)  OBVIOUS
<1>1. Types(tid, rc, ref, calls)
  BY ConstFacts DEF Init, Types, AllKinds, FrameSet
<1>2. \A a \in Addr : Held(ref, a) = {}  BY ConstFacts DEF Held, Init
<1>3. \A a \in Addr : Cnt(ref, a) = 0  BY <1>2, FS_EmptySet DEF Cnt
<1>4. \A a \in Addr, s \in Slot : ref[<<a, s>>] = Null  BY ConstFacts DEF Init
<1>5. Len(calls) = 0  BY DEF Init
<1>6. QED  BY <1>1, <1>3, <1>4, <1>5 DEF HeapInv, Good, Exact, Covers, FreeUnheld, DyingUnheld,
             Once, InCalls, Init, AllKinds

(* Clone, SlotRead, CellGet: a variable takes another reference. *)
LEMMA ShareInv ==
  ASSUME NEW how, HeapInv(how), NEW p \in Place, NEW l \in Local, ref[l] = Null,
         rc' = Dup(ref[p], rc), ref' = [ref EXCEPT ![l] = ref[p]], UNCHANGED <<tid, calls>>
  PROVE  HeapInv(how)'
<1>1. Open(tid, calls, l, ref[p]) /\ l \in Place  BY ConstFacts DEF Open
<1>2. Good(how, tid, DropRc(tid, ref[l], DupOf(tid, ref[p], rc)), [ref EXCEPT ![l] = ref[p]],
           DropCalls(tid, ref[l], DupOf(tid, ref[p], rc), calls))
  BY <1>1, InvTypes, Assign DEF HeapInv
<1>3. Good(how, tid, DupOf(tid, ref[p], rc), [ref EXCEPT ![l] = ref[p]], calls)
  BY <1>2, NullDrop
<1>4. QED  BY <1>3, DupIs DEF HeapInv

(* DropLocal, SlotDrop: a place is released. *)
LEMMA ReleaseInv ==
  ASSUME NEW how, HeapInv(how), NEW p \in Place,
         Drop(ref[p], rc, calls), ref' = [ref EXCEPT ![p] = Null], UNCHANGED tid
  PROVE  HeapInv(how)'
<1>1. Open(tid, calls, p, Null) /\ Null \in Val  BY ConstFacts DEF Open
<1>2. DupOf(tid, Null, rc) = rc  BY DEF DupOf, Guarded
<1>3. Good(how, tid, DropRc(tid, ref[p], DupOf(tid, Null, rc)), [ref EXCEPT ![p] = Null],
           DropCalls(tid, ref[p], DupOf(tid, Null, rc), calls))
  BY <1>1, Assign DEF HeapInv
<1>4. rc' = DropRc(tid, ref[p], rc) /\ calls' = DropCalls(tid, ref[p], rc, calls)
  BY DropIs
<1>5. QED  BY <1>2, <1>3, <1>4 DEF HeapInv

(* SlotReplace. *)
LEMMA ReplaceInv ==
  ASSUME NEW how, HeapInv(how), NEW b \in Addr, NEW i \in Slot, NEW l \in Local, SlotReplace(b, i, l)
  PROVE  HeapInv(how)'
<1> DEFINE q == <<b, i>>
<1>1. Open(tid, calls, q, ref[l])  BY BaseOpen DEF SlotReplace, Data
<1>2. q \in Place /\ l \in Place  BY ConstFacts
<1>3. Good(how, tid, DropRc(tid, ref[q], DupOf(tid, ref[l], rc)), [ref EXCEPT ![q] = ref[l]],
           DropCalls(tid, ref[q], DupOf(tid, ref[l], rc), calls))
  BY <1>1, <1>2, InvTypes, Assign DEF HeapInv
<1>4. rc' = DropRc(tid, ref[q], DupOf(tid, ref[l], rc))
      /\ calls' = DropCalls(tid, ref[q], DupOf(tid, ref[l], rc), calls)
  BY DropIs, DupIs DEF SlotReplace
<1>5. QED  BY <1>3, <1>4 DEF HeapInv, SlotReplace

(* SlotTake: a reference moves from a slot to a variable that holds nothing. *)
LEMMA TakeInv ==
  ASSUME NEW how, HeapInv(how), NEW b \in Addr, NEW i \in Slot, NEW l \in Local, SlotTake(b, i, l)
  PROVE  HeapInv(how)'
<1> DEFINE p == <<b, i>>
<1>1. p \in Place /\ l \in Place /\ p # l /\ Open(tid, calls, l, ref[p])
  BY ConstFacts DEF Open
<1>2. Good(how, tid, DropRc(tid, ref[l], rc), [ref EXCEPT ![l] = ref[p], ![p] = Null],
           DropCalls(tid, ref[l], rc, calls))
  BY <1>1, Move DEF HeapInv
<1>3. Good(how, tid, rc, [ref EXCEPT ![l] = ref[p], ![p] = Null], calls)
  BY <1>2, NullDrop DEF SlotTake
<1>4. QED  BY <1>3 DEF HeapInv, SlotTake

(* SlotWrite, CellSet: a reference moves from a variable to a slot. *)
LEMMA StoreInv ==
  ASSUME NEW how, HeapInv(how), NEW b \in Bases, NEW i \in Slot, NEW l \in Local,
         Drop(ref[<<b, i>>], rc, calls),
         ref' = [ref EXCEPT ![<<b, i>>] = ref[l], ![l] = Null], UNCHANGED tid
  PROVE  HeapInv(how)'
<1> DEFINE q == <<b, i>>
<1>1. Open(tid, calls, q, ref[l])  BY BaseOpen
<1>2. q \in Place /\ l \in Place /\ l # q  BY ConstFacts DEF Bases
<1>3. Good(how, tid, DropRc(tid, ref[q], rc), [ref EXCEPT ![q] = ref[l], ![l] = Null],
           DropCalls(tid, ref[q], rc, calls))
  BY <1>1, <1>2, Move DEF HeapInv
<1>4. rc' = DropRc(tid, ref[q], rc) /\ calls' = DropCalls(tid, ref[q], rc, calls)
  BY DropIs
<1>5. QED  BY <1>3, <1>4 DEF HeapInv

(* SlotSwap: the same references in other slots. *)
LEMMA SwapInv ==
  ASSUME NEW how, HeapInv(how), NEW b \in Addr, NEW i \in Slot, NEW j \in Slot, SlotSwap(b, i, j)
  PROVE  HeapInv(how)'
<1> DEFINE p  == <<b, i>>
           q  == <<b, j>>
           f  == ref
           f1 == [f EXCEPT ![p] = f[q]]
           g  == [f EXCEPT ![p] = f[q], ![q] = f[p]]
<1>p. p \in Place /\ q \in Place  BY ConstFacts
<1>f. f \in [Place -> Val] /\ f1 \in [Place -> Val] /\ g \in [Place -> Val] /\ g = ref'
  BY <1>p, InvTypes DEF SlotSwap
<1>1. \A a \in Addr : Cnt(f1, a) = Cnt(f, a) + (IF f[q] = a THEN 1 ELSE 0) - (IF f[p] = a THEN 1 ELSE 0)
  <2>1. OnlyAt(f, f1, p)  BY <1>f DEF OnlyAt
  <2>2. f1[p] = f[q]  BY <1>f, <1>p
  <2> HIDE DEF f1, f, g, p, q
  <2>3. Shifted(f, f1, p)  BY <2>1, <1>p, PutCount
  <2>4. QED  BY <2>2, <2>3 DEF Shifted
<1>2. \A a \in Addr : Cnt(g, a) = Cnt(f1, a) + (IF f[p] = a THEN 1 ELSE 0) - (IF f[q] = a THEN 1 ELSE 0)
  <2>1. OnlyAt(f1, g, q)  BY <1>f DEF OnlyAt
  <2>2. g[q] = f[p] /\ f1[q] = f[q]  BY <1>f, <1>p
  <2> HIDE DEF f1, f, g, p, q
  <2>3. Shifted(f1, g, q)  BY <2>1, <1>p, PutCount
  <2>4. QED  BY <2>2, <2>3 DEF Shifted
<1>3. \A a \in Addr : Cnt(f, a) \in Nat /\ Cnt(f1, a) \in Nat /\ Cnt(g, a) \in Nat
  BY HeldFinite
<1>4. \A a \in Addr : Cnt(ref', a) = Cnt(ref, a)
  <2> HIDE DEF f1, g, p, q
  <2>1. \A a \in Addr : Cnt(g, a) = Cnt(f, a)  BY <1>1, <1>2, <1>3
  <2>2. QED  BY <2>1, <1>f
<1>6. tid[b] # "free" /\ \A k \in 1 .. Len(calls) : calls[k].blk = b => calls[k].at = 0 \/ calls[k].at = 1
  <2>2. b \in Bases  BY DEF SlotSwap, Data
  <2>3. 1 \in Slot  BY ConstFacts DEF Slot
  <2>4. Open(tid, calls, <<b, 1>>, b)  BY <2>2, <2>3, BaseOpen
  <2>5. <<b, 1>> \notin Local \cup Temp /\ b # Null  BY <2>3, ConstFacts
  <2>6. tid[b] # "free" /\ \A k \in 1 .. Len(calls) : calls[k].blk = b => calls[k].at <= 1
    BY <2>4, <2>5 DEF Open
  <2>7. \A k \in 1 .. Len(calls) : calls[k].at \in 0 .. NSlots + 1
    BY InvTypes, FrameTypes DEF FrameSet
  <2>8. QED  BY <2>6, <2>7, ConstFacts
<1>7. \A a \in Addr, s \in Slot : a # b => ref'[<<a, s>>] = ref[<<a, s>>]
  BY <1>f, ConstFacts
<1>8. UNCHANGED <<tid, rc, calls>>  BY DEF SlotSwap
<1> HIDE DEF f, f1, g, p, q
<1>9. Types(tid, rc, ref', calls)  BY <1>f DEF HeapInv, Good, Types
<1>10. Exact(how, tid, rc, ref', calls)  BY <1>4 DEF HeapInv, Good, Exact, Covers
<1>11. FreeUnheld(tid, rc, ref', calls)
  BY <1>4, <1>6, <1>7 DEF HeapInv, Good, FreeUnheld
<1>12. DyingUnheld(tid, rc, ref', calls)
  <2>1. \A k \in 1 .. Len(calls) : calls[k].blk \in Addr  BY InvTypes, FrameTypes
  <2>2. \A k \in 1 .. Len(calls), s \in Slot : calls[k].blk = b => ~(s < calls[k].at)
    BY <1>6, ConstFacts DEF Slot
  <2>3. QED  BY <2>1, <2>2, <1>4, <1>7 DEF HeapInv, Good, DyingUnheld
<1>13. QED  BY <1>8, <1>9, <1>10, <1>11, <1>12 DEF HeapInv, Good

(* ring_alloc: a free block with empty slots becomes the property of variable l. *)
LEMMA Fresh ==
  ASSUME NEW how, NEW t, NEW r, NEW f, NEW c, Good(how, t, r, f, c),
         NEW l \in Local, f[l] = Null, NEW a \in Addr, t[a] = "free", NEW k \in AllKinds
  PROVE  Good(how, [t EXCEPT ![a] = k], [r EXCEPT ![a] = 1], [f EXCEPT ![l] = a], c)
<1> DEFINE u == [t EXCEPT ![a] = k]
           w == [r EXCEPT ![a] = 1]
           g == [f EXCEPT ![l] = a]
<1>t. t \in [Addr -> AllKinds \cup {"static", "free"}] /\ r \in [Addr -> 0 .. MaxRC + 1]
      /\ f \in [Place -> Val] /\ c \in Seq(FrameSet)
  BY DEF Good, Types
<1>c. l \in Place  BY ConstFacts
<1>1. r[a] = 0 /\ Cnt(f, a) = 0 /\ ~InCalls(a, c)  BY DEF Good, FreeUnheld
<1>2. \A x \in Addr : Cnt(g, x) = Cnt(f, x) + (IF x = a THEN 1 ELSE 0)
  <2>1. OnlyAt(f, g, l)  BY <1>t DEF OnlyAt
  <2>2. g[l] = a /\ f[l] = Null  BY <1>t, <1>c
  <2>n. \A x \in Addr : Cnt(f, x) \in Nat /\ x # Null  BY HeldFinite, ConstFacts
  <2> HIDE DEF g
  <2>3. Shifted(f, g, l)  BY <2>1, <1>c, PutCount
  <2>4. QED  BY <2>2, <2>3, <2>n DEF Shifted
<1>3. \A x \in Addr : u[x] = (IF x = a THEN k ELSE t[x]) /\ w[x] = (IF x = a THEN 1 ELSE r[x])
  BY <1>t
<1>4. \A x \in Addr, s \in Slot : g[<<x, s>>] = f[<<x, s>>]
  <2>1. \A y \in Place : y # l => g[y] = f[y]  BY <1>t
  <2>2. \A x \in Addr, s \in Slot : <<x, s>> \in Place /\ <<x, s>> # l  BY ConstFacts
  <2> HIDE DEF g
  <2>3. QED  BY <2>1, <2>2
<1>5. Types(u, w, g, c)
  BY <1>t, ConstFacts DEF Types, Val
<1> HIDE DEF u, w, g
<1>6. Exact(how, u, w, g, c)  BY <1>1, <1>2, <1>3, HeldFinite DEF Good, Exact, Covers
<1>7. FreeUnheld(u, w, g, c)  BY <1>2, <1>3, <1>4, HeldFinite DEF Good, FreeUnheld, AllKinds
<1>8. DyingUnheld(u, w, g, c)
  <2>1. \A i \in 1 .. Len(c) : c[i].blk \in Addr /\ c[i].blk # a
    BY <1>1, <1>t, FrameTypes DEF InCalls
  <2>2. QED  BY <2>1, <1>2, <1>3, <1>4, HeldFinite DEF Good, DyingUnheld
<1>9. QED  BY <1>5, <1>6, <1>7, <1>8 DEF Good, u, w, g

\* ring_alloc preserves the invariant.
LEMMA AllocInv ==
  ASSUME NEW how, HeapInv(how), NEW l \in Local, NEW a \in Addr, NEW k \in AllKinds, Alloc(l, a, k)
  PROVE  HeapInv(how)'
<1>1. Good(how, [tid EXCEPT ![a] = k], [rc EXCEPT ![a] = 1], [ref EXCEPT ![l] = a], calls)
  BY Fresh DEF Alloc, HeapInv
<1>2. QED  BY <1>1 DEF Alloc, HeapInv

(* CellNew: a fresh block, whose first slot then shares the argument. *)
LEMMA CellNewInv ==
  ASSUME NEW how, HeapInv(how), NEW l \in Local, NEW a \in Addr, NEW m \in Local, CellNew(l, a, m)
  PROVE  HeapInv(how)'
<1> DEFINE t == [tid EXCEPT ![a] = "cell"]
           r == [rc EXCEPT ![a] = 1]
           f == [ref EXCEPT ![l] = a]
           q == <<a, 1>>
           v == ref[m]
<1>c. 1 \in Slot /\ l \in Place /\ m \in Place /\ q \in Place /\ q # l /\ v \in Val
  BY ConstFacts, InvTypes DEF Slot
<1>n. ref[l] = Null /\ tid[a] = "free"  BY DEF CellNew
<1>1. Good(how, t, r, f, calls)  BY <1>n, Fresh DEF HeapInv, AllKinds
<1>2. ~InCalls(a, calls) /\ ref[q] = Null /\ Cnt(ref, a) = 0
  BY <1>n, <1>c DEF HeapInv, Good, FreeUnheld
<1>3. f[q] = Null  BY <1>2, <1>c, InvTypes
<1>4. v # Null => f[m] = v /\ v # a /\ v \in Addr
  BY <1>n, <1>c, <1>2, InvTypes
<1>5. v # Null => Cnt(f, v) > 0
  <2>1. f \in [Place -> Val]  BY <1>1 DEF Good, Types
  <2> HIDE DEF f
  <2>2. QED  BY <2>1, <1>4, <1>c, HeldPositive
<1>6. t[a] = "cell"  BY InvTypes
<1>7. Open(t, calls, q, v)
  <2>1. \A i \in 1 .. Len(calls) : calls[i].blk # a  BY <1>2 DEF InCalls
  <2> HIDE DEF t
  <2>2. QED  BY <2>1, <1>6, <1>c DEF Open
<1>8. Good(how, t, DropRc(t, f[q], DupOf(t, v, r)), [f EXCEPT ![q] = v],
           DropCalls(t, f[q], DupOf(t, v, r), calls))
  <2> HIDE DEF t, r, f, v, q
  <2>1. QED  BY <1>1, <1>5, <1>7, <1>c, Assign
<1>9. Good(how, t, DupOf(t, v, r), [f EXCEPT ![q] = v], calls)
  BY <1>8, <1>3, NullDrop
<1>10. DupOf(t, v, r) = Dup(v, r)
  <2>1. v # Null => t[v] = tid[v]  BY <1>4, InvTypes
  <2> HIDE DEF t
  <2>2. QED  BY <2>1 DEF DupOf, Dup, Guarded, NoRc
<1>11. QED  BY <1>9, <1>10 DEF HeapInv, CellNew

(* Intern: the block leaves the counted ones. *)
LEMMA InternInv == ASSUME NEW how, HeapInv(how), NEW l \in Local, Intern(l) PROVE HeapInv(how)'
<1> DEFINE a == ref[l]
<1>1. a \in Addr /\ Cnt(ref, a) > 0
  BY ConstFacts, InvTypes DEF Intern
<1>2. ~InCalls(a, calls)  BY <1>1, HeldAlive DEF HeapInv
<1>3. \A x \in Addr : tid'[x] = IF x = a THEN "static" ELSE tid[x]
  BY InvTypes DEF Intern
<1>u. UNCHANGED <<rc, ref, calls>>  BY DEF Intern
<1>4. Types(tid', rc, ref, calls)  BY <1>1, InvTypes DEF Types, Intern
<1>5. Exact(how, tid', rc, ref, calls)  BY <1>3 DEF HeapInv, Good, Exact, Covers, AllKinds
<1>6. FreeUnheld(tid', rc, ref, calls)  BY <1>3 DEF HeapInv, Good, FreeUnheld
<1>7. DyingUnheld(tid', rc, ref, calls)
  <2>1. \A i \in 1 .. Len(calls) : calls[i].blk \in Addr /\ calls[i].blk # a
    BY <1>2, InvTypes, FrameTypes DEF InCalls
  <2>2. QED  BY <2>1, <1>3 DEF HeapInv, Good, DyingUnheld
<1>8. QED  BY <1>u, <1>4, <1>5, <1>6, <1>7 DEF HeapInv, Good

-----------------------------------------------------------------------------
(* The destructors.                                                        *)

(* The innermost destructor moves on; the stack holds the same blocks. *)
LEMMA Advance ==
  ASSUME NEW how, HeapInv(how), NEW n \in 0 .. NSlots + 1, Depth > 0
  PROVE  LET d == [calls EXCEPT ![Depth] = [Top EXCEPT !.at = n]]
         IN  /\ d \in Seq(FrameSet) /\ Len(d) = Len(calls) /\ Once(d)
             /\ \A i \in 1 .. Len(calls) : d[i].blk = calls[i].blk
             /\ \A i \in 1 .. Len(calls) : d[i].at = IF i = Depth THEN n ELSE calls[i].at
             /\ \A a : InCalls(a, d) <=> InCalls(a, calls)
<1> DEFINE d == [calls EXCEPT ![Depth] = [Top EXCEPT !.at = n]]
<1>1. /\ calls \in Seq(FrameSet) /\ Len(calls) \in Nat /\ Depth \in 1 .. Len(calls)
      /\ \A i \in 1 .. Len(calls) : calls[i] \in FrameSet
  BY InvTypes, FrameTypes DEF Depth
<1>2. Top \in FrameSet /\ [Top EXCEPT !.at = n] \in FrameSet
      /\ [Top EXCEPT !.at = n].blk = Top.blk /\ [Top EXCEPT !.at = n].at = n
  BY <1>1 DEF Top, FrameSet
<1>3. d \in Seq(FrameSet) /\ Len(d) = Len(calls)  BY <1>1, <1>2
<1>4. \A i \in 1 .. Len(calls) :
         d[i] = IF i = Depth THEN [Top EXCEPT !.at = n] ELSE calls[i]
  BY <1>1
<1> HIDE DEF d
<1>5. \A i \in 1 .. Len(calls) : /\ d[i].blk = calls[i].blk
                                 /\ d[i].at = IF i = Depth THEN n ELSE calls[i].at
  BY <1>2, <1>4 DEF Top
<1>6. Once(d)  BY <1>3, <1>5 DEF HeapInv, Good, Once
<1>7. \A a : InCalls(a, d) <=> InCalls(a, calls)  BY <1>3, <1>5 DEF InCalls
<1>8. QED  BY <1>3, <1>5, <1>6, <1>7 DEF d

\* The return of an `impl Drop` body preserves the invariant.
LEMMA BodyReturnsInv == ASSUME NEW how, HeapInv(how), BodyReturns PROVE HeapInv(how)'
<1> DEFINE d == [calls EXCEPT ![Depth] = [Top EXCEPT !.at = 1]]
<1>1. Depth > 0 /\ 1 \in 0 .. NSlots + 1  BY ConstFacts DEF BodyReturns, InBody
<1>2. /\ d \in Seq(FrameSet) /\ Len(d) = Len(calls) /\ Once(d)
      /\ \A i \in 1 .. Len(calls) : d[i].blk = calls[i].blk
      /\ \A i \in 1 .. Len(calls) : d[i].at = IF i = Depth THEN 1 ELSE calls[i].at
      /\ \A a : InCalls(a, d) <=> InCalls(a, calls)
  BY <1>1, Advance
<1>3. calls' = d /\ UNCHANGED <<tid, rc, ref>>  BY DEF BodyReturns
<1> HIDE DEF d
<1>4. \A s \in Slot : ~(s < 1)  BY DEF Slot
<1>5. DyingUnheld(tid, rc, ref, d)
  BY <1>2, <1>4 DEF HeapInv, Good, DyingUnheld
<1>6. Types(tid, rc, ref, d) /\ Exact(how, tid, rc, ref, d) /\ FreeUnheld(tid, rc, ref, d)
  BY <1>2 DEF HeapInv, Good, Types, Exact, Covers, FreeUnheld
<1>7. QED  BY <1>2, <1>3, <1>5, <1>6 DEF HeapInv, Good

\* The release of a slot by a destructor preserves the invariant.
LEMMA DropFieldInv == ASSUME NEW how, HeapInv(how), DropField PROVE HeapInv(how)'
<1> DEFINE n == Top.at + 1
           d == [calls EXCEPT ![Depth] = [Top EXCEPT !.at = n]]
           b == Top.blk
           p == <<b, Top.at>>
           o == ref[p]
           g == [ref EXCEPT ![p] = Null]
<1>1. Depth > 0 /\ Depth \in 1 .. Len(calls) /\ Top.at \in Slot /\ b \in Addr /\ Top = calls[Depth]
  BY InvTypes, FrameTypes DEF DropField, Depth, Top
<1>2. n \in 0 .. NSlots + 1 /\ n = Top.at + 1 /\ Top.at \in Int
  BY <1>1, ConstFacts DEF Slot
<1>3. /\ d \in Seq(FrameSet) /\ Len(d) = Len(calls) /\ Once(d)
      /\ \A i \in 1 .. Len(calls) : d[i].blk = calls[i].blk
      /\ \A i \in 1 .. Len(calls) : d[i].at = IF i = Depth THEN n ELSE calls[i].at
      /\ \A a : InCalls(a, d) <=> InCalls(a, calls)
  BY <1>1, <1>2, Advance
<1>4. p \in Place /\ o \in Val /\ (o # Null => o \in Addr /\ Cnt(ref, o) > 0)
  BY <1>1, ConstFacts, InvTypes
<1>5. o # Null => tid[o] # "free" /\ ~InCalls(o, calls)  BY <1>4, HeldAlive DEF HeapInv
<1>6. g \in [Place -> Val] /\ g[p] = Null /\ \A x \in Place : x # p => g[x] = ref[x]
  BY <1>4, ConstFacts, InvTypes
<1>7. rc' = DropRc(tid, o, rc) /\ calls' = DropCalls(tid, o, rc, d) /\ ref' = g /\ tid' = tid
  BY DropIs DEF DropField
<1> HIDE DEF g, d, o, n
<1>8. \A a \in Addr : Cnt(g, a) = Cnt(ref, a) - (IF o = a THEN 1 ELSE 0)
  <2>1. OnlyAt(ref, g, p)  BY <1>6 DEF OnlyAt
  <2>2. Shifted(ref, g, p)  BY <1>4, <2>1, PutCount
  <2>3. \A a \in Addr : Cnt(ref, a) \in Nat /\ a # Null  BY HeldFinite, ConstFacts
  <2>4. QED  BY <2>2, <2>3, <1>6 DEF o, Shifted
<1>9. Types(tid, rc, g, d)  BY <1>3, <1>6 DEF HeapInv, Good, Types
<1>10. \A a \in Addr : tid[a] \in AllKinds /\ rc[a] <= MaxRC /\ ~InCalls(a, d)
         => Covers(how, rc[a], Cnt(g, a) + (IF a = o THEN 1 ELSE 0)) /\ rc[a] > 0
  BY <1>3, <1>8, HeldFinite DEF HeapInv, Good, Exact, Covers
<1>11. FreeUnheld(tid, rc, g, d)
  <2> SUFFICES ASSUME NEW a \in Addr, tid[a] = "free"
               PROVE  rc[a] = 0 /\ Cnt(g, a) = 0 /\ ~InCalls(a, d)
                      /\ \A s \in Slot : g[<<a, s>>] = Null
    BY DEF FreeUnheld
  <2>1. rc[a] = 0 /\ Cnt(ref, a) = 0 /\ ~InCalls(a, calls) /\ \A s \in Slot : ref[<<a, s>>] = Null
    BY DEF HeapInv, Good, FreeUnheld
  <2>2. o # a  BY <1>5, ConstFacts
  <2>3. Cnt(g, a) = 0  BY <2>1, <2>2, <1>8
  <2>4. \A s \in Slot : <<a, s>> \in Place  BY ConstFacts
  <2>5. \A s \in Slot : g[<<a, s>>] = Null  BY <2>1, <2>4, <1>6
  <2>6. QED  BY <2>1, <2>3, <2>5, <1>3
<1>12. DyingUnheld(tid, rc, g, d)
  <2> SUFFICES ASSUME NEW i \in 1 .. Len(calls)
               PROVE  /\ tid[d[i].blk] \in AllKinds /\ rc[d[i].blk] = 1 /\ Cnt(g, d[i].blk) = 0
                      /\ \A s \in Slot : s < d[i].at => g[<<d[i].blk, s>>] = Null
    BY <1>3 DEF DyingUnheld
  <2> DEFINE e == calls[i].blk
  <2>1. e \in Addr /\ calls[i].at \in 0 .. NSlots + 1 /\ d[i].blk = e
    BY <1>3, InvTypes, FrameTypes DEF FrameSet
  <2>2. /\ tid[e] \in AllKinds /\ rc[e] = 1 /\ Cnt(ref, e) = 0
        /\ \A s \in Slot : s < calls[i].at => ref[<<e, s>>] = Null
    BY DEF HeapInv, Good, DyingUnheld
  <2>3. o # e  BY <1>5, ConstFacts, <2>1 DEF InCalls
  <2>4. Cnt(g, e) = 0  BY <2>1, <2>2, <2>3, <1>8
  <2>5. \A s \in Slot : s < d[i].at => g[<<e, s>>] = Null
    <3> SUFFICES ASSUME NEW s \in Slot, s < d[i].at PROVE g[<<e, s>>] = Null  OBVIOUS
    <3>1. <<e, s>> \in Place  BY <2>1, ConstFacts
    <3>2. CASE <<e, s>> = p  BY <3>2, <1>6
    <3>3. CASE <<e, s>> # p
      <4>1. s < calls[i].at
        <5>1. CASE i # Depth  BY <5>1, <1>3
        <5>2. CASE i = Depth
          <6>1. s < Top.at + 1 /\ s # Top.at /\ s \in Int
            BY <5>2, <1>1, <1>2, <1>3, <3>3 DEF Slot
          <6>2. QED  BY <6>1, <5>2, <1>1, <1>2
        <5>3. QED  BY <5>1, <5>2
      <4>2. QED  BY <4>1, <3>1, <3>3, <2>2, <1>6
    <3>4. QED  BY <3>2, <3>3
  <2>6. QED  BY <2>1, <2>2, <2>4, <2>5
<1>13. o # Null => tid[o] # "free" /\ ~InCalls(o, d)  BY <1>3, <1>5
<1>14. Good(how, tid, DropRc(tid, o, rc), g, DropCalls(tid, o, rc, d))
  BY <1>3, <1>4, <1>9, <1>10, <1>11, <1>12, <1>13, DropGood
<1>15. QED  BY <1>7, <1>14 DEF HeapInv

\* The free() at the end of ring_drop preserves the invariant.
LEMMA FreeBlockInv == ASSUME NEW how, HeapInv(how), FreeBlock PROVE HeapInv(how)'
<1> DEFINE b == Top.blk
           d == SubSeq(calls, 1, Depth - 1)
<1>1. Depth \in 1 .. Len(calls) /\ Depth = Len(calls) /\ Len(calls) \in Nat
      /\ Top = calls[Depth] /\ b \in Addr /\ Top.at = NSlots + 1
  BY InvTypes, FrameTypes DEF FreeBlock, Depth, Top
<1>2. d \in Seq(FrameSet) /\ Len(d) = Depth - 1 /\ \A i \in 1 .. Len(d) : d[i] = calls[i]
  <2>1. 1 \in Int /\ Depth - 1 \in Int /\ (1 <= Depth - 1 \/ Depth - 1 = 0)  BY <1>1
  <2>2. \A i \in 1 .. Depth - 1 : calls[i] \in FrameSet  BY <1>1, InvTypes, FrameTypes
  <2>3. /\ d \in Seq(FrameSet)
        /\ Len(d) = IF 1 <= Depth - 1 THEN Depth - 1 - 1 + 1 ELSE 0
        /\ \A i \in 1 .. Depth - 1 - 1 + 1 : d[i] = calls[1 + i - 1]
    BY <2>1, <2>2, SubSeqProperties
  <2>4. Depth - 1 - 1 + 1 = Depth - 1 /\ \A i \in Int : 1 + i - 1 = i  BY <2>1
  <2> HIDE DEF d
  <2>5. QED  BY <2>1, <2>3, <2>4
<1>3. Cnt(ref, b) = 0 /\ \A s \in Slot : ref[<<b, s>>] = Null
  BY <1>1, ConstFacts DEF HeapInv, Good, DyingUnheld, Slot
<1>4. tid' = [tid EXCEPT ![b] = "free"] /\ rc' = [rc EXCEPT ![b] = 0] /\ calls' = d /\ ref' = ref
  BY DEF FreeBlock
<1>5. \A a \in Addr : tid'[a] = (IF a = b THEN "free" ELSE tid[a])
                      /\ rc'[a] = (IF a = b THEN 0 ELSE rc[a])
  BY <1>4, InvTypes
<1>6. \A a \in Addr : InCalls(a, calls) => InCalls(a, d) \/ a = b
  BY <1>1, <1>2 DEF InCalls
<1>7. \A a \in Addr : InCalls(a, d) => InCalls(a, calls)
  BY <1>1, <1>2 DEF InCalls
<1>8. ~InCalls(b, d)
  BY <1>1, <1>2 DEF HeapInv, Good, Once, InCalls
<1>9. Once(d)  BY <1>1, <1>2 DEF HeapInv, Good, Once
<1> HIDE DEF b, d
<1>10. Types(tid', rc', ref, d)
  <2>1. tid' \in [Addr -> AllKinds \cup {"static", "free"}]  BY <1>4, InvTypes
  <2>z. 0 \in 0 .. MaxRC + 1  BY ConstFacts
  <2>2. rc' \in [Addr -> 0 .. MaxRC + 1]  BY <2>z, <1>4, InvTypes
  <2>3. QED  BY <2>1, <2>2, <1>2, InvTypes DEF Types
<1>11. Exact(how, tid', rc', ref, d)
  BY <1>5, <1>6 DEF HeapInv, Good, Exact, Covers, AllKinds
<1>12. FreeUnheld(tid', rc', ref, d)
  BY <1>3, <1>5, <1>7, <1>8 DEF HeapInv, Good, FreeUnheld
<1>13. DyingUnheld(tid', rc', ref, d)
  <2>1. \A i \in 1 .. Len(d) : i \in 1 .. Len(calls) /\ d[i] = calls[i] /\ d[i].blk # b
                               /\ calls[i].blk \in Addr
    BY <1>1, <1>2, <1>8, InvTypes, FrameTypes DEF InCalls
  <2>2. QED  BY <2>1, <1>5 DEF HeapInv, Good, DyingUnheld
<1>14. QED  BY <1>4, <1>9, <1>10, <1>11, <1>12, <1>13 DEF HeapInv, Good

\* Every step preserves the invariant: one case for each action.
LEMMA NextInv == ASSUME NEW how, HeapInv(how), [Next]_vars PROVE HeapInv(how)'
<1>1. ASSUME NEW l \in Local, NEW a \in Addr, NEW k \in AllKinds, Alloc(l, a, k) PROVE HeapInv(how)'
  BY <1>1, AllocInv
<1>2. ASSUME NEW l \in Local, NEW m \in Local, Clone(l, m) PROVE HeapInv(how)'
  BY <1>2, ShareInv, ConstFacts DEF Clone
<1>3. ASSUME NEW l \in Local, DropLocal(l) PROVE HeapInv(how)'
  BY <1>3, ReleaseInv, ConstFacts DEF DropLocal
<1>4. ASSUME NEW l \in Local, Intern(l) PROVE HeapInv(how)'  BY <1>4, InternInv
<1>5. ASSUME NEW b \in Addr, NEW i \in Slot, NEW l \in Local, SlotRead(b, i, l) PROVE HeapInv(how)'
  BY <1>5, ShareInv, ConstFacts DEF SlotRead
<1>6. ASSUME NEW b \in Addr, NEW i \in Slot, NEW l \in Local, SlotTake(b, i, l) PROVE HeapInv(how)'
  BY <1>6, TakeInv
<1>7. ASSUME NEW b \in Addr, NEW i \in Slot, NEW l \in Local, SlotWrite(b, i, l) PROVE HeapInv(how)'
  <2>1. b \in Bases /\ ref[<<b, i>>] = Null  BY <1>7 DEF SlotWrite, Data
  <2>2. Drop(ref[<<b, i>>], rc, calls)  BY <1>7, <2>1 DEF SlotWrite, Drop, NoRc
  <2>3. QED  BY <1>7, <2>1, <2>2, StoreInv DEF SlotWrite
<1>8. ASSUME NEW b \in Addr, NEW i \in Slot, NEW l \in Local, SlotReplace(b, i, l) PROVE HeapInv(how)'
  BY <1>8, ReplaceInv
<1>9. ASSUME NEW b \in Addr, NEW i \in Slot, NEW j \in Slot, SlotSwap(b, i, j) PROVE HeapInv(how)'
  BY <1>9, SwapInv
<1>10. ASSUME NEW b \in Addr, NEW i \in Slot, SlotDrop(b, i) PROVE HeapInv(how)'
  BY <1>10, ReleaseInv, ConstFacts DEF SlotDrop
<1>11. ASSUME NEW l \in Local, NEW m \in Local, NEW a \in Addr, CellNew(l, a, m) PROVE HeapInv(how)'
  BY <1>11, CellNewInv
<1>c. 1 \in Slot  BY ConstFacts DEF Slot
<1>12. ASSUME NEW b \in Addr, NEW l \in Local, CellGet(b, l) PROVE HeapInv(how)'
  BY <1>12, <1>c, ShareInv, ConstFacts DEF CellGet
<1>13. ASSUME NEW b \in Addr, NEW l \in Local, CellSet(b, l) PROVE HeapInv(how)'
  BY <1>13, <1>c, StoreInv DEF CellSet, Cells
<1>14. CASE Destructor
  BY <1>14, BodyReturnsInv, DropFieldInv, FreeBlockInv DEF Destructor
<1>15. CASE UNCHANGED vars
  BY <1>15 DEF vars, HeapInv
<1>16. CASE Mutator
  BY <1>16, <1>1, <1>2, <1>3, <1>4, <1>5, <1>6, <1>7, <1>8, <1>9, <1>10, <1>11, <1>12, <1>13
     DEF Mutator, HeapOp, CellOp
<1>17. QED  BY <1>14, <1>15, <1>16 DEF Next

(* The counts, the emptiness of freed blocks and of the released part of      *)
(* dying ones, and the stack of destructors stay consistent for ever.        *)
THEOREM Invariance == Spec => []HeapInv("exact")
<1>1. Init => HeapInv("exact")  BY InitInv
<1>2. HeapInv("exact") /\ [Next]_vars => HeapInv("exact")'  BY NextInv
<1>3. QED  BY <1>1, <1>2, PTL DEF Spec

\* The invariant implies the properties TLC checks.
LEMMA Implied ==
  ASSUME NEW how
  PROVE  HeapInv(how) => TypeOK /\ NoDangling /\ NoReentry /\ (how = "exact" => RcExact)
<1> SUFFICES ASSUME HeapInv(how)
             PROVE  TypeOK /\ NoDangling /\ NoReentry /\ (how = "exact" => RcExact)
  OBVIOUS
<1>1. TypeOK  BY InvTypes DEF TypeOK, FrameSet
<1>2. \A a \in Addr : InCalls(a, calls) <=> a \in Dying  BY DEF InCalls, Dying, Depth
<1>3. how = "exact" => RcExact
  BY <1>2 DEF HeapInv, Good, Exact, Covers, RcExact, Counted, RefCount, Holders, Cnt, Held
<1>4. NoDangling
  <2> SUFFICES ASSUME NEW p \in Place, ref[p] # Null
               PROVE  tid[ref[p]] # "free" /\ ref[p] \notin Dying
    BY DEF NoDangling
  <2>1. ref[p] \in Addr /\ Cnt(ref, ref[p]) > 0  BY InvTypes
  <2>2. QED  BY <2>1, <1>2, HeldAlive DEF HeapInv
<1>5. NoReentry  BY DEF HeapInv, Good, Once, NoReentry, Depth
<1>6. QED  BY <1>1, <1>3, <1>4, <1>5

\* In particular with exact counts.
LEMMA ExactImplies ==
  HeapInv("exact") => TypeOK /\ RcExact /\ NoDangling /\ NoReentry
BY Implied

(* Every variable of the runtime model keeps its type. *)
THEOREM TypeCorrect == Spec => []TypeOK
BY Invariance, ExactImplies, PTL

(* The header count of a counted block is the number of places that hold it:  *)
(* ring_dup and ring_drop never lose a reference, in any cascade.             *)
THEOREM CountsExact == Spec => []RcExact
BY Invariance, ExactImplies, PTL

(* No use after free: no place the program can read holds a freed or dying    *)
(* block, however the operations and the `impl Drop` bodies interleave.       *)
THEOREM NeverDangling == Spec => []NoDangling
BY Invariance, ExactImplies, PTL

(* No double free: a block's destructor is never running twice. *)
THEOREM DestroyedOnce == Spec => []NoReentry
BY Invariance, ExactImplies, PTL

(* Both together: memory safety of the heap under every interleaving.         *)
THEOREM MemorySafety == Spec => []MemorySafe
<1>1. NoDangling /\ NoReentry => MemorySafe  BY DEF MemorySafe
<1>2. QED  BY NeverDangling, DestroyedOnce, <1>1, PTL

-----------------------------------------------------------------------------
(* Immortal blocks.                                                        *)

\* A block that no count and no destructor touches again.
Settled(a, r) == tid[a] = "static" \/ r[a] > MaxRC

\* ring_dup leaves it alone.
LEMMA DupStays ==
  ASSUME NEW a \in Addr, NEW r \in [Addr -> Nat], NEW v \in Val, Settled(a, r)
  PROVE  Dup(v, r)[a] = r[a] /\ Dup(v, r) \in [Addr -> Nat]
BY ConstFacts DEF Dup, NoRc, Settled, Val

\* So does ring_drop: it neither lowers the count nor starts a destructor.
LEMMA DropStays ==
  ASSUME NEW a \in Addr, NEW r \in [Addr -> Nat], NEW c \in Seq(FrameSet), NEW o \in Val,
         Settled(a, r), ~InCalls(a, c), Drop(o, r, c)
  PROVE  rc'[a] = r[a] /\ ~InCalls(a, calls')
<1>1. CASE NoRc(o, r)  BY <1>1 DEF Drop
<1>2. CASE ~NoRc(o, r)
  <2>1. o # a /\ o \in Addr  BY <1>2 DEF NoRc, Settled, Val
  <2>2. CASE r[o] <= 1
    <3>1. rc' = r /\ calls' = Append(c, Frame(o))  BY <1>2, <2>2 DEF Drop
    <3>2. PICK e, d : e = Frame(o) /\ d = Append(c, e)  OBVIOUS
    <3>3. e.blk = o  BY <3>2 DEF Frame
    <3>4. Len(c) \in Nat /\ Len(d) = Len(c) + 1 /\ d[Len(c) + 1] = e
          /\ \A i \in 1 .. Len(c) : d[i] = c[i]
      BY <3>2
    <3>5. \A i \in 1 .. Len(d) : i \in 1 .. Len(c) \/ i = Len(c) + 1  BY <3>4
    <3>6. ~InCalls(a, d)  BY <2>1, <3>3, <3>4, <3>5 DEF InCalls
    <3>7. QED  BY <3>1, <3>2, <3>6
  <2>3. CASE ~(r[o] <= 1)
    <3>1. rc' = [r EXCEPT ![o] = @ - 1] /\ calls' = c  BY <1>2, <2>3 DEF Drop
    <3>2. QED  BY <2>1, <3>1
  <2>4. QED  BY <2>2, <2>3
<1>3. QED  BY <1>1, <1>2

\* An immortal block is allocated and its destructor does not run.
LEMMA ImmortalLives ==
  ASSUME HeapInv("exact"), NEW a \in Addr, Immortal(a)
  PROVE  /\ Settled(a, rc) /\ tid[a] # "free" /\ ~InCalls(a, calls)
         /\ rc \in [Addr -> Nat] /\ calls \in Seq(FrameSet)
         /\ \A p \in Place : ref[p] \in Val
<1>1. Settled(a, rc)  BY DEF Immortal, Settled
<1>2. rc \in [Addr -> Nat] /\ rc[a] \in Nat /\ MaxRC \in Nat /\ MaxRC >= 1
  <2>1. rc \in [Addr -> 0 .. MaxRC + 1]  BY InvTypes
  <2>2. QED  BY <2>1, ConstFacts
<1>3. tid[a] # "free"  BY <1>1, <1>2 DEF Settled, HeapInv, Good, FreeUnheld
<1>4. ~InCalls(a, calls)
  BY <1>1, <1>2 DEF Settled, InCalls, HeapInv, Good, DyingUnheld, AllKinds
<1>5. QED  BY <1>1, <1>2, <1>3, <1>4, InvTypes

\* Whoever drops what a place holds, perhaps after acquiring v, spares it.
LEMMA ReleaseStays ==
  ASSUME HeapInv("exact"), NEW a \in Addr, Immortal(a), NEW p \in Place, NEW v \in Val,
         NEW c \in Seq(FrameSet), ~InCalls(a, c),
         Drop(ref[p], Dup(v, rc), c) \/ Drop(ref[p], rc, c)
  PROVE  rc'[a] = rc[a] /\ ~InCalls(a, calls')
<1>1. PICK r, o : /\ r = Dup(v, rc) /\ o = ref[p]
  OBVIOUS
<1>2. PICK q : q = rc  OBVIOUS
<1>3. /\ Settled(a, q) /\ q \in [Addr -> Nat] /\ o \in Val
  BY <1>1, <1>2, ImmortalLives
<1>4. r[a] = q[a] /\ r \in [Addr -> Nat]  BY <1>1, <1>2, <1>3, DupStays
<1>5. Settled(a, r)  BY <1>3, <1>4 DEF Settled
<1>6. CASE Drop(o, r, c)  BY <1>2, <1>3, <1>4, <1>5, <1>6, DropStays
<1>7. CASE Drop(o, q, c)  BY <1>2, <1>3, <1>7, DropStays
<1>8. QED  BY <1>1, <1>2, <1>6, <1>7

\* Every step spares an immortal block.
LEMMA NextStays ==
  ASSUME HeapInv("exact"), NEW a \in Addr, Immortal(a), [Next]_vars
  PROVE  tid'[a] \in {tid[a], "static"} /\ rc'[a] = rc[a] /\ ~InCalls(a, calls')
<1> DEFINE Goal == tid'[a] \in {tid[a], "static"} /\ rc'[a] = rc[a] /\ ~InCalls(a, calls')
<1>i. /\ Settled(a, rc) /\ tid[a] # "free" /\ ~InCalls(a, calls)
      /\ rc \in [Addr -> Nat] /\ calls \in Seq(FrameSet)
      /\ \A p \in Place : ref[p] \in Val
  BY ImmortalLives
<1>t. tid \in [Addr -> AllKinds \cup {"static", "free"}] /\ ref \in [Place -> Val]  BY InvTypes
<1>s. 1 \in Slot  BY ConstFacts DEF Slot
<1>d. ASSUME NEW p \in Place, rc' = Dup(ref[p], rc), UNCHANGED <<tid, calls>> PROVE Goal
  <2>1. PICK v, r : v = ref[p] /\ r = rc  OBVIOUS
  <2>2. v \in Val /\ r \in [Addr -> Nat] /\ Settled(a, r)  BY <1>i, <2>1
  <2>3. Dup(v, r)[a] = r[a]  BY <2>2, DupStays
  <2>4. QED  BY <1>d, <1>i, <2>1, <2>3
<1>r. ASSUME NEW p \in Place, UNCHANGED tid, Drop(ref[p], rc, calls) PROVE Goal
  <2>1. PICK c : c = calls  OBVIOUS
  <2>2. rc'[a] = rc[a] /\ ~InCalls(a, calls')
    BY <1>i, <1>r, <2>1, ConstFacts, ReleaseStays
  <2>3. QED  BY <1>r, <2>2
<1> HIDE DEF Goal
<1>1. ASSUME NEW l \in Local, NEW b \in Addr, NEW k \in AllKinds, Alloc(l, b, k) PROVE Goal
  <2>1. a # b  BY <1>1, <1>i DEF Alloc
  <2>2. tid'[a] = tid[a] /\ rc'[a] = rc[a] /\ calls' = calls  BY <1>1, <1>i, <1>t, <2>1 DEF Alloc
  <2>3. QED  BY <1>i, <2>2 DEF Goal
<1>2. ASSUME NEW l \in Local, NEW m \in Local, Clone(l, m) PROVE Goal
  BY <1>2, <1>d, ConstFacts DEF Clone
<1>3. ASSUME NEW l \in Local, DropLocal(l) PROVE Goal
  BY <1>3, <1>r, ConstFacts DEF DropLocal
<1>4. ASSUME NEW l \in Local, Intern(l) PROVE Goal
  <2>1. tid'[a] \in {tid[a], "static"} /\ rc' = rc /\ calls' = calls
    BY <1>4, <1>t DEF Intern
  <2>2. QED  BY <1>i, <2>1 DEF Goal
<1>5. ASSUME NEW b \in Addr, NEW i \in Slot, NEW l \in Local,
             SlotRead(b, i, l) \/ SlotTake(b, i, l) \/ SlotWrite(b, i, l)
      PROVE  Goal
  <2>1. CASE SlotRead(b, i, l)  BY <2>1, <1>d, ConstFacts DEF SlotRead
  <2>2. CASE SlotTake(b, i, l)  BY <1>i, <2>2 DEF SlotTake, Goal
  <2>3. CASE SlotWrite(b, i, l)  BY <1>i, <2>3 DEF SlotWrite, Goal
  <2>4. QED  BY <1>5, <2>1, <2>2, <2>3
<1>6. ASSUME NEW b \in Addr, NEW i \in Slot, NEW l \in Local, SlotReplace(b, i, l) PROVE Goal
  <2>1. PICK v, c : v = ref[l] /\ c = calls  OBVIOUS
  <2>2. v \in Val /\ <<b, i>> \in Place  BY <1>i, <2>1, ConstFacts
  <2>3. Drop(ref[<<b, i>>], Dup(v, rc), c) /\ tid' = tid  BY <1>6, <2>1 DEF SlotReplace
  <2>4. rc'[a] = rc[a] /\ ~InCalls(a, calls')
    <3>1. PICK p : p = <<b, i>>  OBVIOUS
    <3>2. p \in Place /\ Drop(ref[p], Dup(v, rc), c) /\ c \in Seq(FrameSet) /\ ~InCalls(a, c)
      BY <1>i, <2>1, <2>2, <2>3, <3>1
    <3>3. QED  BY <2>2, <3>2, ReleaseStays
  <2>5. QED  BY <2>3, <2>4 DEF Goal
<1>7. ASSUME NEW b \in Addr, NEW i \in Slot, NEW j \in Slot, SlotSwap(b, i, j) PROVE Goal
  BY <1>7, <1>i DEF SlotSwap, Goal
<1>8. ASSUME NEW b \in Addr, NEW i \in Slot, SlotDrop(b, i) PROVE Goal
  BY <1>8, <1>r, ConstFacts DEF SlotDrop
<1>9. ASSUME NEW l \in Local, NEW m \in Local, NEW b \in Addr, CellNew(l, b, m) PROVE Goal
  <2>1. a # b  BY <1>9, <1>i DEF CellNew
  <2>2. tid'[a] = tid[a] /\ calls' = calls /\ rc' = Dup(ref[m], [rc EXCEPT ![b] = 1])
    BY <1>9, <1>t, <2>1 DEF CellNew
  <2>3. PICK v, r : v = ref[m] /\ r = [rc EXCEPT ![b] = 1]  OBVIOUS
  <2>4. r \in [Addr -> Nat] /\ r[a] = rc[a] /\ v \in Val  BY <1>i, <2>1, <2>3, ConstFacts
  <2>5. Settled(a, r)  BY <1>i, <2>4 DEF Settled
  <2>6. Dup(v, r)[a] = r[a]  BY <2>4, <2>5, DupStays
  <2>7. QED  BY <1>i, <2>2, <2>3, <2>4, <2>6 DEF Goal
<1>10. ASSUME NEW b \in Addr, NEW l \in Local, CellGet(b, l) PROVE Goal
  BY <1>10, <1>d, <1>s, ConstFacts DEF CellGet
<1>11. ASSUME NEW b \in Addr, NEW l \in Local, CellSet(b, l) PROVE Goal
  BY <1>11, <1>r, <1>s, ConstFacts DEF CellSet
<1>12. CASE Mutator
  <2>1. Goal
    BY <1>12, <1>1, <1>2, <1>3, <1>4, <1>5, <1>6, <1>7, <1>8, <1>9, <1>10, <1>11
    DEF Mutator, HeapOp, CellOp
  <2>2. QED  BY <2>1 DEF Goal
<1>13. CASE BodyReturns
  <2>1. Depth > 0 /\ 1 \in 0 .. NSlots + 1 /\ calls' = [calls EXCEPT ![Depth] = [Top EXCEPT !.at = 1]]
    BY <1>13, ConstFacts DEF BodyReturns, InBody
  <2>2. ~InCalls(a, calls')  BY <1>i, <2>1, Advance
  <2>3. QED  BY <1>13, <2>2 DEF BodyReturns
<1>14. CASE DropField
  <2>1. PICK n, c : n = Top.at + 1 /\ c = [calls EXCEPT ![Depth] = [Top EXCEPT !.at = n]]
    OBVIOUS
  <2>2. Depth > 0 /\ Top.at \in Slot /\ tid' = tid /\ Drop(ref[<<Top.blk, Top.at>>], rc, c)
    BY <1>14, <2>1 DEF DropField
  <2>3. n \in 0 .. NSlots + 1  BY <2>1, <2>2, ConstFacts DEF Slot
  <2>4. c \in Seq(FrameSet) /\ ~InCalls(a, c)  BY <1>i, <2>1, <2>2, <2>3, Advance
  <2>5. PICK p : p = <<Top.blk, Top.at>>  OBVIOUS
  <2>6. p \in Place
    <3>1. Top.blk \in Addr  BY <1>i, <2>2, FrameTypes DEF Depth, Top
    <3>2. QED  BY <2>2, <2>5, <3>1, ConstFacts
  <2>7. rc'[a] = rc[a] /\ ~InCalls(a, calls')
    BY <2>2, <2>4, <2>5, <2>6, ConstFacts, ReleaseStays
  <2>8. QED  BY <2>2, <2>7
<1>15. CASE FreeBlock
  <2>1. Depth \in 1 .. Len(calls) /\ Len(calls) \in Nat /\ Depth = Len(calls) /\ Top = calls[Depth]
    BY <1>15, <1>i, FrameTypes DEF FreeBlock, Depth, Top
  <2>2. Top.blk # a  BY <1>i, <2>1 DEF InCalls
  <2>3. tid'[a] = tid[a] /\ rc'[a] = rc[a] /\ calls' = SubSeq(calls, 1, Depth - 1)
    BY <1>15, <1>i, <1>t, <2>2 DEF FreeBlock
  <2>4. Len(calls') = Depth - 1 /\ \A i \in 1 .. Depth - 1 : calls'[i] = calls[i]
    <3>1. \A i \in 1 .. Depth - 1 : calls[i] \in FrameSet  BY <1>i, <2>1
    <3>2. PICK m, c : m = Depth - 1 /\ c = calls  OBVIOUS
    <3>3. m \in Nat /\ 1 \in Int /\ m \in Int  BY <2>1, <3>2
    <3>4. /\ Len(SubSeq(c, 1, m)) = IF 1 <= m THEN m - 1 + 1 ELSE 0
          /\ \A i \in 1 .. m - 1 + 1 : SubSeq(c, 1, m)[i] = c[1 + i - 1]
      BY <3>1, <3>2, <3>3, SubSeqProperties
    <3>5. m - 1 + 1 = m /\ \A i \in 1 .. m : 1 + i - 1 = i  BY <3>3
    <3>6. QED  BY <2>3, <3>2, <3>3, <3>4, <3>5
  <2>5. ~InCalls(a, calls')  BY <1>i, <2>1, <2>4 DEF InCalls
  <2>6. QED  BY <2>3, <2>5
<1>16. CASE UNCHANGED vars  BY <1>16, <1>i DEF vars
<1>17. QED  BY <1>12, <1>13, <1>14, <1>15, <1>16 DEF Next, Destructor

(* An interned block, and one whose count went past the guard, keeps its     *)
(* count and its storage for ever, whatever is done to what holds it.        *)
THEOREM ImmortalForEver == Spec => ImmortalStays
<1>1. HeapInv("exact") /\ [Next]_vars
        => [\A a \in Addr : Immortal(a) =>
               tid'[a] \in {tid[a], "static"} /\ rc'[a] = rc[a] /\ a \notin Dying']_vars
  <2>1. \A a \in Addr : ~InCalls(a, calls') => a \notin Dying'
    BY DEF InCalls, Dying, Depth
  <2>2. QED  BY <2>1, NextStays
<1>2. QED  BY Invariance, <1>1, PTL DEF Spec, ImmortalStays

-----------------------------------------------------------------------------
(* What the program reaches.                                               *)

After(f, S) == S \cup {a \in Addr : \E b \in S, i \in Slot : f[<<b, i>>] = a}
Rounds(g, f, S, k) == g = [n \in 0 .. k |-> IF n = 0 THEN S ELSE After(f, g[n - 1])]

\* The function that Reach is defined by exists.
LEMMA RoundsExist ==
  ASSUME NEW f, NEW S, NEW k \in Nat
  PROVE  \E g : Rounds(g, f, S, k)
<1> DEFINE Done == {m \in Nat : \E g : Rounds(g, f, S, m)}
<1>1. 0 \in Done
  <2> DEFINE g == [n \in 0 .. 0 |-> S]
  <2>1. g = [n \in 0 .. 0 |-> IF n = 0 THEN S ELSE After(f, g[n - 1])]  OBVIOUS
  <2> HIDE DEF g
  <2>2. Rounds(g, f, S, 0)  BY <2>1 DEF Rounds
  <2>3. QED  BY <2>2
<1>2. ASSUME NEW m \in Nat, m \in Done PROVE m + 1 \in Done
  <2>1. PICK g : Rounds(g, f, S, m)  BY <1>2
  <2> DEFINE h == [n \in 0 .. m + 1 |-> IF n <= m THEN g[n] ELSE After(f, g[m])]
             j == [n \in 0 .. m + 1 |-> IF n = 0 THEN S ELSE After(f, h[n - 1])]
  <2>2. \A n \in 0 .. m : g[n] = IF n = 0 THEN S ELSE After(f, g[n - 1])
    BY <2>1 DEF Rounds
  <2>3. \A n \in 0 .. m + 1 : h[n] = j[n]
    <3> SUFFICES ASSUME NEW n \in 0 .. m + 1 PROVE h[n] = j[n]  OBVIOUS
    <3>1. CASE n \in 0 .. m
      <4>1. n # 0 => n - 1 \in 0 .. m /\ n - 1 \in 0 .. m + 1 /\ n - 1 <= m  BY <3>1
      <4>2. n # 0 => h[n - 1] = g[n - 1]  BY <4>1
      <4>3. h[n] = g[n]  BY <3>1
      <4>4. j[n] = IF n = 0 THEN S ELSE After(f, h[n - 1])  OBVIOUS
      <4> HIDE DEF h, j
      <4>5. CASE n = 0  BY <2>2, <3>1, <4>3, <4>4, <4>5
      <4>6. CASE n # 0  BY <2>2, <3>1, <4>2, <4>3, <4>4, <4>6
      <4>7. QED  BY <4>5, <4>6
    <3>2. CASE n = m + 1
      <4>1. n - 1 = m /\ n # 0 /\ ~(n <= m) /\ m \in 0 .. m + 1 /\ m <= m  BY <3>2
      <4>2. h[m] = g[m]  BY <4>1
      <4>3. h[n] = After(f, g[m])  BY <4>1
      <4>4. j[n] = After(f, h[n - 1])  BY <4>1
      <4> HIDE DEF h, j
      <4>5. QED  BY <3>2, <4>1, <4>2, <4>3, <4>4
    <3>3. QED  BY <3>1, <3>2
  <2>4. h = j
    <3>1. h = [n \in 0 .. m + 1 |-> h[n]] /\ j = [n \in 0 .. m + 1 |-> j[n]]  OBVIOUS
    <3> HIDE DEF h, j
    <3>2. QED  BY <2>3, <3>1
  <2> HIDE DEF h
  <2>5. Rounds(h, f, S, m + 1)  BY <2>4 DEF Rounds
  <2>6. QED  BY <2>5
<1> HIDE DEF Done
<1>3. Nat \subseteq Done  BY <1>1, <1>2, SetInduction
<1>4. QED  BY <1>3 DEF Done

(* After as many rounds as there are blocks nothing is added any more: each   *)
(* round before that added a block.                                          *)
LEMMA RoundsClose ==
  ASSUME NEW f, NEW S \in SUBSET Addr, NEW k, k = Cardinality(Addr),
         NEW g, Rounds(g, f, S, k)
  PROVE  S \subseteq g[k] /\ After(f, g[k]) = g[k]
<1>1. IsFiniteSet(Addr) /\ k \in Nat  BY HeapAssumption, FS_CardinalityType
<1>2. \A T \in SUBSET Addr :
         /\ T \subseteq After(f, T) /\ After(f, T) \in SUBSET Addr
         /\ IsFiniteSet(T) /\ Cardinality(T) \in Nat
  BY <1>1, FS_Subset, FS_CardinalityType DEF After
<1> DEFINE Right(n) == /\ g[n] \in SUBSET Addr /\ S \subseteq g[n]
                       /\ After(f, g[n]) = g[n] \/ Cardinality(g[n]) >= n
           All == {n \in Nat : n <= k => Right(n)}
<1>3. 0 \in All
  <2>1. g[0] = S  BY <1>1 DEF Rounds
  <2>2. QED  BY <1>2, <2>1
<1>4. ASSUME NEW n \in Nat, n \in All PROVE n + 1 \in All
  <2> SUFFICES ASSUME n + 1 <= k PROVE Right(n + 1)  OBVIOUS
  <2>1. n <= k /\ n + 1 \in 0 .. k /\ n + 1 # 0 /\ n + 1 - 1 = n  BY <1>1
  <2>2. PICK T, U : T = g[n] /\ U = After(f, T)  OBVIOUS
  <2>3. g[n + 1] = U  BY <2>1, <2>2 DEF Rounds
  <2>4. T \in SUBSET Addr /\ S \subseteq T /\ (U = T \/ Cardinality(T) >= n)
    BY <1>4, <2>1, <2>2
  <2>5. /\ T \in SUBSET U /\ U \in SUBSET Addr
        /\ IsFiniteSet(U) /\ Cardinality(U) \in Nat /\ Cardinality(T) \in Nat
    <3> HIDE DEF All
    <3>1. T \in SUBSET Addr  BY <2>4
    <3>2. T \subseteq U /\ U \in SUBSET Addr /\ Cardinality(T) \in Nat  BY <1>2, <2>2, <3>1
    <3>3. IsFiniteSet(U) /\ Cardinality(U) \in Nat  BY <1>2, <3>2
    <3>4. QED  BY <3>2, <3>3
  <2>6. U # T => Cardinality(U) >= n + 1
    <3>1. Cardinality(T) <= Cardinality(U) /\ (Cardinality(U) = Cardinality(T) => U = T)
      BY <2>5, FS_Subset
    <3>2. QED  BY <2>4, <2>5, <3>1
  <2>7. U = T => After(f, U) = U  BY <2>2
  <2>8. U \in SUBSET Addr /\ S \subseteq U /\ (After(f, U) = U \/ Cardinality(U) >= n + 1)
    BY <2>4, <2>5, <2>6, <2>7
  <2>9. QED  BY <2>3, <2>8
<1> HIDE DEF All
<1>5. Nat \subseteq All  BY <1>3, <1>4, SetInduction
<1>6. Right(k)  BY <1>1, <1>5 DEF All
<1>7. CASE After(f, g[k]) = g[k]  BY <1>6, <1>7
<1>8. CASE Cardinality(g[k]) >= k
  <2>1. PICK T : T = g[k]  OBVIOUS
  <2>2. T \in SUBSET Addr /\ Cardinality(T) \in Nat /\ Cardinality(T) >= k
    BY <1>2, <1>6, <1>8, <2>1
  <2>3. Cardinality(T) <= Cardinality(Addr) /\ (Cardinality(Addr) = Cardinality(T) => Addr = T)
    BY <1>1, <2>2, FS_Subset
  <2>4. Addr = T  BY <1>1, <2>2, <2>3
  <2>5. QED  BY <1>2, <1>6, <2>1, <2>4
<1>9. QED  BY <1>6, <1>7, <1>8

(* Reach holds what the variables and the immortal blocks hold, and is closed *)
(* under the slots.                                                          *)
LEMMA ReachCloses ==
  /\ \A a \in Addr : Immortal(a) => a \in Reach
  /\ \A a \in Addr : (\E l \in Local : ref[l] = a) => a \in Reach
  /\ \A a \in Addr : (\E b \in Reach, i \in Slot : ref[<<b, i>>] = a) => a \in Reach
<1>1. PICK f, S, k : /\ f = ref /\ k = Cardinality(Addr)
                     /\ S = {a \in Addr : Immortal(a) \/ \E l \in Local : ref[l] = a}
  OBVIOUS
<1>2. k \in Nat  BY <1>1, HeapAssumption, FS_CardinalityType
<1> DEFINE g == CHOOSE h : Rounds(h, f, S, k)
<1>3. Reach = g[k]  BY <1>1 DEF Reach, Rounds, Step, After
<1>4. Rounds(g, f, S, k)  BY <1>2, RoundsExist
<1> HIDE DEF g
<1>5. S \in SUBSET Addr  BY <1>1
<1>6. S \subseteq g[k] /\ After(f, g[k]) = g[k]  BY <1>1, <1>4, <1>5, RoundsClose
<1>7. \A a \in Addr : (\E b \in Reach, i \in Slot : ref[<<b, i>>] = a) => a \in After(f, g[k])
  BY <1>1, <1>3 DEF After
<1>8. QED  BY <1>1, <1>3, <1>6, <1>7

\* No runtime function of RcHeap holds anything across a step.
TempEmpty == \A p \in Temp : ref[p] = Null

\* Every step keeps it so.
LEMMA TempStays ==
  ASSUME HeapInv("exact"), TempEmpty, [Next]_vars
  PROVE  TempEmpty'
<1>1. SUFFICES ASSUME NEW p \in Temp PROVE ref'[p] = ref[p]
  BY DEF TempEmpty
<1>2. p \in Place /\ \A b, i : p = <<b, i>> => ~(b \in Addr /\ i \in Slot)
  BY ConstFacts
<1>3. p \notin Local  BY HeapAssumption
<1>4. ref \in [Place -> Val]  BY InvTypes
<1>5. ASSUME NEW q \in Local \cup (Addr \X Slot), NEW v, ref' = [ref EXCEPT ![q] = v]
      PROVE  ref'[p] = ref[p]
  <2>1. p # q  BY <1>3, HeapAssumption
  <2>2. QED  BY <1>2, <1>4, <1>5, <2>1
<1>6. /\ \A l \in Local : p # l /\ l \in Place
      /\ \A b \in Addr, i \in Slot : p # <<b, i>> /\ <<b, i>> \in Place
  BY <1>2, <1>3, ConstFacts
<1>7. \A b \in Addr, i \in Slot : <<b, i>> \in Local \cup (Addr \X Slot)  OBVIOUS
<1>8. CASE HeapOp
  <2>1. CASE \E l \in Local, a \in Addr, k \in AllKinds : Alloc(l, a, k)
    BY <2>1, <1>5 DEF Alloc
  <2>2. CASE \E l, m \in Local : Clone(l, m)  BY <2>2, <1>5 DEF Clone
  <2>3. CASE \E l \in Local : DropLocal(l)  BY <2>3, <1>5 DEF DropLocal
  <2>4. CASE \E l \in Local : Intern(l)  BY <2>4 DEF Intern
  <2>5. CASE \E b \in Addr, i \in Slot, l \in Local : SlotRead(b, i, l)
    BY <2>5, <1>5 DEF SlotRead
  <2>6. CASE \E b \in Addr, i \in Slot, l \in Local : SlotTake(b, i, l)
    BY <2>6, <1>2, <1>4, <1>6 DEF SlotTake
  <2>7. CASE \E b \in Addr, i \in Slot, l \in Local : SlotWrite(b, i, l)
    BY <2>7, <1>2, <1>4, <1>6 DEF SlotWrite
  <2>8. CASE \E b \in Addr, i \in Slot, l \in Local : SlotReplace(b, i, l)
    BY <2>8, <1>5, <1>7 DEF SlotReplace
  <2>9. CASE \E b \in Addr, i, j \in Slot : SlotSwap(b, i, j)
    BY <2>9, <1>2, <1>4, <1>6 DEF SlotSwap
  <2>10. CASE \E b \in Addr, i \in Slot : SlotDrop(b, i)
    BY <2>10, <1>5, <1>7 DEF SlotDrop
  <2>11. CASE \E l, m \in Local, a \in Addr : CellNew(l, a, m)
    <3>1. 1 \in Slot  BY ConstFacts DEF Slot
    <3>2. QED  BY <2>11, <3>1, <1>2, <1>4, <1>6 DEF CellNew
  <2>12. QED  BY <1>8, <2>1, <2>2, <2>3, <2>4, <2>5, <2>6, <2>7, <2>8, <2>9, <2>10, <2>11
         DEF HeapOp
<1>9. CASE CellOp
  <2>1. 1 \in Slot  BY ConstFacts DEF Slot
  <2>2. CASE \E b \in Addr, l \in Local : CellGet(b, l)  BY <2>2, <1>5 DEF CellGet
  <2>3. CASE \E b \in Addr, l \in Local : CellSet(b, l)
    BY <2>1, <2>3, <1>2, <1>4, <1>6 DEF CellSet
  <2>4. QED  BY <1>9, <2>2, <2>3 DEF CellOp
<1>10. CASE Destructor
  <2>1. CASE BodyReturns  BY <2>1 DEF BodyReturns
  <2>2. CASE DropField
    <3>1. Top.blk \in Addr /\ Top.at \in Slot
      BY <2>2, InvTypes, FrameTypes DEF DropField, Depth, Top
    <3>2. QED  BY <2>2, <3>1, <1>5, <1>7 DEF DropField
  <2>3. CASE FreeBlock  BY <2>3 DEF FreeBlock
  <2>4. QED  BY <1>10, <2>1, <2>2, <2>3 DEF Destructor
<1>11. CASE UNCHANGED vars  BY <1>11 DEF vars
<1>12. QED  BY <1>8, <1>9, <1>10, <1>11 DEF Next, Mutator

(* A lost block has a count above 0, so some place holds it; that place is    *)
(* no variable, and the block it belongs to is lost as well.                  *)
LEMMA LostIsHeld == HeapInv("exact") /\ TempEmpty => OnlyCyclesLeak
<1> SUFFICES ASSUME HeapInv("exact"), TempEmpty, Depth = 0, NEW a \in Lost
             PROVE  \E b \in Lost, i \in Slot : ref[<<b, i>>] = a
  BY DEF OnlyCyclesLeak
<1>1. a \in Addr /\ tid[a] # "free" /\ a \notin Reach  BY DEF Lost
<1>2. tid[a] \in AllKinds /\ ~(rc[a] > MaxRC)
  BY <1>1, ReachCloses, InvTypes DEF Immortal
<1>3. rc[a] <= MaxRC
  <2>1. rc[a] \in 0 .. MaxRC + 1 /\ MaxRC \in Nat  BY <1>1, InvTypes, ConstFacts
  <2>2. QED  BY <1>2, <2>1
<1>4. ~InCalls(a, calls)  BY DEF InCalls, Depth
<1>5. rc[a] = Cnt(ref, a) /\ rc[a] > 0
  BY <1>1, <1>2, <1>3, <1>4 DEF HeapInv, Good, Exact, Covers
<1>6. PICK p \in Place : ref[p] = a
  <2>1. Held(ref, a) # {}  BY <1>5, FS_EmptySet DEF Cnt
  <2>2. QED  BY <2>1 DEF Held
<1>7. p \notin Local /\ p \notin Temp
  BY <1>1, <1>6, ReachCloses, ConstFacts DEF TempEmpty
<1>8. PICK b \in Addr, i \in Slot : p = <<b, i>>  BY <1>7 DEF Place
<1>9. b \notin Reach  BY <1>1, <1>6, <1>8, ReachCloses
<1>10. tid[b] # "free"
  BY <1>1, <1>6, <1>8, ConstFacts DEF HeapInv, Good, FreeUnheld
<1>11. QED  BY <1>6, <1>8, <1>9, <1>10 DEF Lost

(* Between two statements a block that nothing reaches is held by another     *)
(* such block: following the holders never ends, so on a finite heap ring_drop *)
(* leaves nothing but cycles and what hangs from them.                        *)
THEOREM LeaksAreCycles == Spec => []OnlyCyclesLeak
<1>1. Init => TempEmpty  BY ConstFacts DEF Init, TempEmpty
<1>2. HeapInv("exact") /\ TempEmpty /\ [Next]_vars => TempEmpty'  BY TempStays
<1>3. QED  BY Invariance, LostIsHeld, <1>1, <1>2, PTL DEF Spec

-----------------------------------------------------------------------------
(* Cell.update.  An update may leave a count too high, never too low: for any *)
(* Ring code that runs inside it the counts cover the references, and so no   *)
(* place ever holds a freed or dying block.  The update's own steps are moves *)
(* as above and one more: a place FORGETS what it held without a drop, which  *)
(* is where exactness is lost.                                                *)

\* The variable that lends the cell still holds it.
Lent ==
  /\ upd.cell \in Addr /\ upd.lender \in Local /\ ref[upd.lender] = upd.cell

UpdateInv ==
  /\ HeapInv("cover")
  /\ upd.stage # "idle" => Lent

\* The C variables are places of their own.
LEMMA TempFacts ==
  /\ OldVal \in Place /\ NewVal \in Place /\ OldVal \in Temp /\ NewVal \in Temp
  /\ OldVal # NewVal
  /\ \A l \in Local : l # OldVal /\ l # NewVal
  /\ \A a \in Addr, s \in Slot : <<a, s>> # OldVal /\ <<a, s>> # NewVal
BY TempAssumption, HeapAssumption DEF Place

\* A place is emptied and nothing dropped.
LEMMA Forget ==
  ASSUME NEW t, NEW r, NEW f, NEW c, Good("cover", t, r, f, c), NEW p \in Place
  PROVE  Good("cover", t, r, [f EXCEPT ![p] = Null], c)
<1> DEFINE g == [f EXCEPT ![p] = Null]
<1>1. f \in [Place -> Val] /\ r \in [Addr -> 0 .. MaxRC + 1] /\ c \in Seq(FrameSet)
  BY DEF Good, Types
<1>2. g \in [Place -> Val] /\ g[p] = Null /\ \A x \in Place : x # p => g[x] = f[x]
  BY <1>1, ConstFacts
<1> HIDE DEF g
<1>3. ASSUME NEW a \in Addr
      PROVE  Cnt(g, a) \in Nat /\ Cnt(f, a) \in Nat /\ Cnt(g, a) <= Cnt(f, a)
  <2>1. Cnt(g, a) = Cnt(f, a) + (IF g[p] = a THEN 1 ELSE 0) - (IF f[p] = a THEN 1 ELSE 0)
    <3>1. OnlyAt(f, g, p)  BY <1>2 DEF OnlyAt
    <3>2. Shifted(f, g, p)  BY <3>1, PutCount
    <3>3. QED  BY <3>2 DEF Shifted
  <2>2. Null # a  BY ConstFacts
  <2>3. Cnt(g, a) \in Nat /\ Cnt(f, a) \in Nat  BY HeldFinite
  <2>4. QED  BY <1>2, <2>1, <2>2, <2>3
<1>4. ASSUME NEW a \in Addr, NEW s \in Slot, f[<<a, s>>] = Null
      PROVE  g[<<a, s>>] = Null
  <2>1. <<a, s>> \in Place  BY ConstFacts
  <2>2. QED  BY <1>2, <1>4, <2>1
<1>5. Types(t, r, g, c)  BY <1>2 DEF Good, Types
<1>6. Exact("cover", t, r, g, c)
  <2> SUFFICES ASSUME NEW a \in Addr, t[a] \in AllKinds /\ r[a] <= MaxRC /\ ~InCalls(a, c)
               PROVE  Covers("cover", r[a], Cnt(g, a)) /\ r[a] > 0
    BY DEF Exact
  <2>1. r[a] >= Cnt(f, a) /\ r[a] > 0  BY DEF Good, Exact, Covers
  <2>2. r[a] \in Int  BY <1>1
  <2>3. QED  BY <1>3, <2>1, <2>2 DEF Covers
<1>7. FreeUnheld(t, r, g, c)
  <2> SUFFICES ASSUME NEW a \in Addr, t[a] = "free"
               PROVE  /\ r[a] = 0 /\ Cnt(g, a) = 0 /\ ~InCalls(a, c)
                      /\ \A s \in Slot : g[<<a, s>>] = Null
    BY DEF FreeUnheld
  <2>1. /\ r[a] = 0 /\ Cnt(f, a) = 0 /\ ~InCalls(a, c)
        /\ \A s \in Slot : f[<<a, s>>] = Null
    BY DEF Good, FreeUnheld
  <2>2. QED  BY <1>3, <1>4, <2>1
<1>8. DyingUnheld(t, r, g, c)
  <2> SUFFICES ASSUME NEW i \in 1 .. Len(c)
               PROVE  /\ t[c[i].blk] \in AllKinds /\ r[c[i].blk] = 1 /\ Cnt(g, c[i].blk) = 0
                      /\ \A s \in Slot : s < c[i].at => g[<<c[i].blk, s>>] = Null
    BY DEF DyingUnheld
  <2>1. PICK b : b = c[i].blk  OBVIOUS
  <2>2. b \in Addr  BY <1>1, <2>1, FrameTypes
  <2>3. /\ t[b] \in AllKinds /\ r[b] = 1 /\ Cnt(f, b) = 0
        /\ \A s \in Slot : s < c[i].at => f[<<b, s>>] = Null
    BY <2>1 DEF Good, DyingUnheld
  <2>4. QED  BY <1>3, <1>4, <2>1, <2>2, <2>3
<1>9. QED  BY <1>5, <1>6, <1>7, <1>8 DEF Good, g

\* A place keeps a reference to what a place holds, and nothing is dropped.
LEMMA Keep ==
  ASSUME NEW t, NEW r, NEW f, NEW c, Good("cover", t, r, f, c),
         NEW p \in Place, NEW q \in Temp, p # q
  PROVE  Good("cover", t, DupOf(t, f[p], r), [f EXCEPT ![q] = f[p], ![p] = Null], c)
<1> DEFINE v  == f[p]
           f1 == [f EXCEPT ![q] = Null]
           f2 == [f1 EXCEPT ![q] = v]
           f3 == [f2 EXCEPT ![p] = Null]
           r1 == DupOf(t, v, r)
<1>1. f \in [Place -> Val] /\ q \in Place /\ v \in Val  BY ConstFacts DEF Good, Types
<1>2. Good("cover", t, r, f1, c)  BY <1>1, Forget
<1>3. f1 \in [Place -> Val] /\ f1[p] = v /\ f1[q] = Null  BY <1>1, ConstFacts
<1>4. [f EXCEPT ![q] = v, ![p] = Null] = f3  BY <1>1
<1> HIDE DEF f1, v
<1>5. v # Null => Cnt(f1, v) > 0
  <2>1. Cnt(f1, f1[p]) > 0  BY <1>3, HeldPositive
  <2>2. QED  BY <1>3, <2>1
<1>6. Open(t, c, q, v)  BY DEF Open
<1>7. Good("cover", t, DropRc(t, f1[q], r1), f2, DropCalls(t, f1[q], r1, c))
  BY <1>1, <1>2, <1>5, <1>6, Assign
<1>8. Good("cover", t, r1, f2, c)  BY <1>3, <1>7, NullDrop
<1> HIDE DEF f2, r1
<1>9. Good("cover", t, r1, f3, c)  BY <1>8, Forget
<1>10. QED  BY <1>4, <1>9 DEF r1, v

\* A reference moves and what the place held is forgotten.
LEMMA Overwrite ==
  ASSUME NEW t, NEW r, NEW f, NEW c, Good("cover", t, r, f, c),
         NEW p \in Place, NEW q \in Place, p # q, Open(t, c, q, f[p])
  PROVE  Good("cover", t, r, [f EXCEPT ![q] = f[p], ![p] = Null], c)
<1> DEFINE f1 == [f EXCEPT ![q] = Null]
<1>1. f \in [Place -> Val]  BY DEF Good, Types
<1>2. Good("cover", t, r, f1, c)  BY Forget
<1>3. f1[p] = f[p] /\ f1[q] = Null  BY <1>1
<1>4. [f EXCEPT ![q] = f[p], ![p] = Null] = [f1 EXCEPT ![q] = f[p], ![p] = Null]  BY <1>1
<1> HIDE DEF f1
<1>5. Good("cover", t, DropRc(t, f1[q], r), [f1 EXCEPT ![q] = f1[p], ![p] = Null],
           DropCalls(t, f1[q], r, c))
  BY <1>2, <1>3, Move
<1>6. QED  BY <1>3, <1>4, <1>5, NullDrop

-----------------------------------------------------------------------------
(* The steps of an update.                                                 *)

\* The types that the steps need.
LEMMA HeapTypes ==
  ASSUME HeapInv("cover")
  PROVE  /\ ref \in [Place -> Val] /\ calls \in Seq(FrameSet)
         /\ \A l \in Local : l \in Place
         /\ \A a \in Addr, s \in Slot : <<a, s>> \in Place /\ <<a, s>> \notin Local \cup Temp
         /\ 1 \in Slot /\ Null \notin Addr
BY ConstFacts DEF HeapInv, Good, Types, Slot

\* The destructors take nothing from a variable.
LEMMA ReleaseKeepsLocals ==
  ASSUME HeapInv("cover"), Destructor, NEW l \in Local
  PROVE  ref'[l] = ref[l]
<1>1. CASE BodyReturns  BY <1>1 DEF BodyReturns
<1>2. CASE FreeBlock  BY <1>2 DEF FreeBlock
<1>3. CASE DropField
  <2>1. PICK b, s : /\ b = Top.blk /\ s = Top.at /\ s \in Slot
                    /\ ref' = [ref EXCEPT ![<<b, s>>] = Null]
    BY <1>3 DEF DropField
  <2>2. b \in Addr
    <3>1. calls \in Seq(FrameSet) /\ Depth > 0  BY <1>3, HeapTypes DEF DropField
    <3>2. Depth \in 1 .. Len(calls)  BY <3>1 DEF Depth
    <3>3. QED  BY <2>1, <3>1, <3>2, FrameTypes DEF Top
  <2>3. <<b, s>> # l  BY <2>1, <2>2, HeapTypes
  <2>4. QED  BY <2>1, <2>3, HeapTypes
<1>4. QED  BY <1>1, <1>2, <1>3 DEF Destructor

\* What RcHeap does keeps the invariant of the heap.
LEMMA HeapSteps ==
  ASSUME HeapInv("cover"), Mutator \/ Destructor
  PROVE  HeapInv("cover")'
<1>1. [Next]_vars  BY DEF Next
<1>2. QED  BY <1>1, NextInv

\* The program, or a Drop body, between the steps of an update.
LEMMA ProgramInv == ASSUME UpdateInv, Program PROVE UpdateInv'
<1>1. HeapInv("cover") /\ Mutator  BY DEF UpdateInv, Program
<1>2. HeapInv("cover")'  BY <1>1, HeapSteps
<1>3. upd' = upd /\ (upd.stage # "idle" => ref'[upd.lender] = ref[upd.lender])
  BY DEF Program, LenderKept
<1>4. QED  BY <1>2, <1>3 DEF UpdateInv, Lent

\* The callback: RcHeap's operations, and a copy of its borrowed argument.
LEMMA CallbackInv == ASSUME UpdateInv, Callback PROVE UpdateInv'
<1>1. HeapInv("cover") /\ upd' = upd /\ upd.stage # "idle" /\ Lent
  BY DEF UpdateInv, Callback
<1>2. CASE HeapOp /\ LenderKept
  <2>1. HeapInv("cover")'  BY <1>1, <1>2, HeapSteps DEF Mutator
  <2>2. ref'[upd.lender] = ref[upd.lender]  BY <1>1, <1>2 DEF LenderKept
  <2>3. QED  BY <1>1, <2>1, <2>2 DEF UpdateInv, Lent
<1>3. ASSUME NEW l \in Local, Clone(OldVal, l) PROVE UpdateInv'
  <2>1. /\ ref[l] = Null /\ rc' = Dup(ref[OldVal], rc)
        /\ ref' = [ref EXCEPT ![l] = ref[OldVal]] /\ UNCHANGED <<tid, calls>>
    BY <1>3 DEF Clone
  <2>2. HeapInv("cover")'  BY <1>1, <2>1, TempFacts, ShareInv
  <2>3. upd.lender # l  BY <1>1, <2>1, HeapTypes DEF Lent
  <2>4. ref'[upd.lender] = ref[upd.lender]  BY <1>1, <2>1, <2>3, HeapTypes DEF Lent
  <2>5. QED  BY <1>1, <2>2, <2>4 DEF UpdateInv, Lent
<1>4. QED  BY <1>2, <1>3 DEF Callback

\* A step of a destructor.
LEMMA ReleaseStepInv == ASSUME UpdateInv, Release PROVE UpdateInv'
<1>1. HeapInv("cover") /\ Destructor /\ upd' = upd  BY DEF UpdateInv, Release
<1>2. HeapInv("cover")'  BY <1>1, HeapSteps
<1>3. \A l \in Local : ref'[l] = ref[l]  BY <1>1, ReleaseKeepsLocals
<1>4. QED  BY <1>1, <1>2, <1>3 DEF UpdateInv, Lent

\* The value leaves the cell and is dup'd for the callback.
LEMMA UpdateCallInv ==
  ASSUME UpdateInv, NEW b \in Addr, NEW l \in Local, UpdateCall(b, l)
  PROVE  UpdateInv'
<1> DEFINE p == <<b, 1>>
<1>1. /\ HeapInv("cover") /\ ref[l] = b /\ rc' = Dup(ref[p], rc)
      /\ ref' = [ref EXCEPT ![OldVal] = ref[p], ![p] = Null] /\ UNCHANGED <<tid, calls>>
      /\ upd' = [stage |-> "callback", cell |-> b, lender |-> l, depth |-> Depth]
  BY DEF UpdateInv, UpdateCall
<1>2. p \in Place /\ p # OldVal /\ p # l /\ OldVal \in Temp /\ l \in Place /\ l # OldVal
  BY <1>1, HeapTypes, TempFacts
<1>3. Good("cover", tid, DupOf(tid, ref[p], rc), [ref EXCEPT ![OldVal] = ref[p], ![p] = Null],
           calls)
  BY <1>1, <1>2, Keep DEF HeapInv
<1>4. HeapInv("cover")'  BY <1>1, <1>3, DupIs DEF HeapInv
<1>5. ref'[l] = b  BY <1>1, <1>2, HeapTypes
<1>6. QED  BY <1>1, <1>4, <1>5 DEF UpdateInv, Lent

\* The callback hands over its result; old_val is dropped.
LEMMA ReturnInv ==
  ASSUME UpdateInv, NEW l \in Local, CallbackReturns(l)
  PROVE  UpdateInv'
<1> DEFINE f1 == [ref EXCEPT ![NewVal] = ref[l], ![l] = Null]
           o  == ref[OldVal]
<1>1. /\ HeapInv("cover") /\ Lent /\ l # upd.lender /\ Drop(o, rc, calls) /\ tid' = tid
      /\ ref' = [ref EXCEPT ![NewVal] = ref[l], ![l] = Null, ![OldVal] = Null]
      /\ upd' = [upd EXCEPT !.stage = "store"]
  BY DEF UpdateInv, CallbackReturns
<1>2. l \in Place /\ l # OldVal /\ l # NewVal /\ OldVal # NewVal /\ OldVal \in Place
      /\ NewVal \in Place /\ NewVal \in Temp /\ ref \in [Place -> Val]
  BY <1>1, HeapTypes, TempFacts
<1>3. Open(tid, calls, NewVal, ref[l])  BY <1>2 DEF Open
<1>4. Good("cover", tid, rc, f1, calls)  BY <1>1, <1>2, <1>3, Overwrite DEF HeapInv
<1>5. f1[OldVal] = o /\ ref' = [f1 EXCEPT ![OldVal] = Null]  BY <1>1, <1>2
<1> HIDE DEF f1
<1>6. Open(tid, calls, OldVal, Null) /\ Null \in Val  BY ConstFacts DEF Open
<1>7. Good("cover", tid, DropRc(tid, f1[OldVal], DupOf(tid, Null, rc)), [f1 EXCEPT ![OldVal] = Null],
           DropCalls(tid, f1[OldVal], DupOf(tid, Null, rc), calls))
  BY <1>2, <1>4, <1>6, Assign
<1>8. DupOf(tid, Null, rc) = rc  BY DEF DupOf, Guarded
<1>9. rc' = DropRc(tid, o, rc) /\ calls' = DropCalls(tid, o, rc, calls)  BY <1>1, DropIs
<1>10. HeapInv("cover")'  BY <1>1, <1>5, <1>7, <1>8, <1>9 DEF HeapInv
<1>11. Lent'
  <2>1. upd.lender # OldVal /\ upd.lender # NewVal /\ upd.lender \in Place
    BY <1>1, HeapTypes, TempFacts DEF Lent
  <2>2. ref'[upd.lender] = ref[upd.lender]  BY <1>1, <1>2, <2>1
  <2>3. upd'.cell = upd.cell /\ upd'.lender = upd.lender  BY <1>1
  <2>4. QED  BY <1>1, <2>2, <2>3 DEF Lent
<1>12. QED  BY <1>10, <1>11 DEF UpdateInv

\* The result is stored over what the cell holds by now.
LEMMA StoreStepInv == ASSUME UpdateInv, StoreNew PROVE UpdateInv'
<1>1. PICK b : b = upd.cell  OBVIOUS
<1> DEFINE q == <<b, 1>>
<1>2. /\ HeapInv("cover") /\ Lent /\ UNCHANGED <<tid, rc, calls>>
      /\ ref' = [ref EXCEPT ![q] = ref[NewVal], ![NewVal] = Null] /\ upd' = Idle
  BY <1>1 DEF UpdateInv, StoreNew
<1>3. b \in Addr /\ q \in Place /\ q # NewVal /\ NewVal \in Place
  BY <1>1, <1>2, HeapTypes, TempFacts DEF Lent
<1>4. Cnt(ref, b) > 0
  <2>1. upd.lender \in Place /\ ref[upd.lender] = b  BY <1>1, <1>2, HeapTypes DEF Lent
  <2>2. QED  BY <1>2, <2>1, HeapTypes, HeldPositive
<1>5. tid[b] # "free" /\ ~InCalls(b, calls)  BY <1>2, <1>3, <1>4, HeldAlive DEF HeapInv
<1>6. Open(tid, calls, q, ref[NewVal])
  <2>1. 1 \in Slot  BY <1>2, HeapTypes
  <2>2. QED  BY <1>3, <1>5, <2>1 DEF Open, InCalls
<1>7. Good("cover", tid, rc, [ref EXCEPT ![q] = ref[NewVal], ![NewVal] = Null], calls)
  BY <1>2, <1>3, <1>6, Overwrite DEF HeapInv
<1>8. HeapInv("cover")'  BY <1>2, <1>7 DEF HeapInv
<1>9. upd'.stage = "idle"  BY <1>2 DEF Idle
<1>10. QED  BY <1>8, <1>9 DEF UpdateInv

-----------------------------------------------------------------------------
(* The theorems.                                                           *)

\* The counts cover the references, and a running update's cell is held by the
\* variable that lends it: so it is intact when the result is stored.
THEOREM UpdateInvariance == UpdSpec => []UpdateInv
<1>1. UpdInit => UpdateInv  BY InitInv DEF UpdInit, UpdateInv, Idle
<1>2. UpdateInv /\ [UpdNext]_uvars => UpdateInv'
  <2> SUFFICES ASSUME UpdateInv, [UpdNext]_uvars PROVE UpdateInv'  OBVIOUS
  <2>1. CASE Program  BY <2>1, ProgramInv
  <2>2. CASE Callback  BY <2>2, CallbackInv
  <2>3. CASE Release  BY <2>3, ReleaseStepInv
  <2>4. ASSUME NEW b \in Addr, NEW l \in Local, UpdateCall(b, l) PROVE UpdateInv'
    BY <2>4, UpdateCallInv
  <2>5. ASSUME NEW l \in Local, CallbackReturns(l) PROVE UpdateInv'  BY <2>5, ReturnInv
  <2>6. CASE StoreNew  BY <2>6, StoreStepInv
  <2>7. CASE UNCHANGED uvars
    BY <2>7 DEF uvars, vars, UpdateInv, HeapInv, Lent
  <2>8. QED  BY <2>1, <2>2, <2>3, <2>4, <2>5, <2>6, <2>7 DEF UpdNext
<1>3. QED  BY <1>1, <1>2, PTL DEF UpdSpec

\* Whatever the callback of one running ring_Cell_update and the Drop bodies it sets
\* off do, short of starting another update, no count is below the number of
\* references: none is released that somebody still has.
THEOREM CountsAlwaysCover == UpdSpec => []CountsCover
<1>1. UpdateInv => CountsCover
  <2> SUFFICES ASSUME HeapInv("cover"), NEW a \in Addr, Counted(a)
               PROVE  rc[a] >= RefCount(a)
    BY DEF UpdateInv, CountsCover
  <2>1. ~InCalls(a, calls)  BY DEF Counted, InCalls, Dying, Depth
  <2>2. Covers("cover", rc[a], Cnt(ref, a))
    BY <2>1 DEF HeapInv, Good, Exact, Counted
  <2>3. QED  BY <2>2 DEF Covers, RefCount, Holders, Cnt, Held
<1>2. QED  BY <1>1, UpdateInvariance, PTL

\* No use after free and no double free inside an update either, whatever the
\* callback and the Drop bodies it sets off do to any cell, short of starting
\* another update.
THEOREM UpdateIsMemorySafe == UpdSpec => []MemorySafe
<1>1. HeapInv("cover") => NoDangling /\ NoReentry  BY Implied
<1>2. UpdateInv => MemorySafe  BY <1>1 DEF UpdateInv, MemorySafe
<1>3. QED  BY <1>2, UpdateInvariance, PTL
=============================================================================
