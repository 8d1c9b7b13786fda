------------------------- MODULE ListBuffer_proofs -------------------------
(***************************************************************************)
(* std/list.ring on its slot buffers, for any lists, elements and bounds,  *)
(* where no callback of filter or map changes the list that it walks over  *)
(* and those of the other walks may.  The invariant says of every element that its count is the       *)
(* number of slots below a length that hold it, of variables that own it   *)
(* and of walks that hand it out; of a walk over a list that nobody        *)
(* changes, that what it has gathered is a part of what it has passed.     *)
(*                                                                         *)
(* The accounting is one fact about sequences, how often a value occurs    *)
(* in them, and one about sets, what a changed list adds to the owners of  *)
(* a value.  Every operation is then what it does to the items of a list   *)
(* (PushedIs, PoppedIs, ...), which the invariant and the refinement of    *)
(* ListSpec share.                                                         *)
(***************************************************************************)
EXTENDS ListBuffer, TLAPS, FiniteSetTheorems, SequenceTheorems, WellFoundedInduction

\* Induction over the naturals, for a set: the library's theorems take an
\* operator, here the property is a set, and what is not in it has a least
\* member.
LEMMA SetInduction ==
  ASSUME NEW S, 0 \in S, \A n \in Nat : n \in S => n + 1 \in S
  PROVE  Nat \subseteq S
<1> DEFINE Less == {p \in Nat \X Nat : p[1] < p[2]}
           T == Nat \ S
<1>1. IsWellFoundedOn(Less, Nat)
  <2>1. OpToRel(<, Nat) = Less  BY DEF OpToRel
  <2>2. QED  BY <2>1, NatLessThanWellFounded
<1>2. SUFFICES ASSUME T # {} PROVE FALSE  OBVIOUS
<1>3. PICK x \in T : \A y \in T : ~(<<y, x>> \in Less)
  <2> HIDE DEF Less
  <2>1. T \subseteq Nat  OBVIOUS
  <2> HIDE DEF T
  <2>2. QED  BY <1>1, <1>2, <2>1, WFMin
<1>4. x \in Nat /\ x \notin S /\ x # 0  OBVIOUS
<1>5. x - 1 \in Nat /\ x - 1 \notin S  BY <1>4
<1>6. <<x - 1, x>> \in Less  BY <1>4, <1>5
<1>7. QED  BY <1>3, <1>4, <1>5, <1>6

-----------------------------------------------------------------------------
(* How often a value occurs in a sequence.                                 *)

Item == Elem \cup {Null}
One(e, v) == IF e = v THEN 1 ELSE 0

\* A sequence is finite.
LEMMA OccursNat ==
  ASSUME NEW s \in Seq(Item), NEW v
  PROVE  /\ IsFiniteSet({i \in DOMAIN s : s[i] = v}) /\ Occurs(v, s) \in Nat
         /\ Occurs(v, s) = 0 <=> \A i \in 1 .. Len(s) : s[i] # v
<1>1. DOMAIN s = 1 .. Len(s) /\ Len(s) \in Nat  BY LenProperties
<1>2. IsFiniteSet(1 .. Len(s))  BY <1>1, FS_Interval
<1>3. {i \in DOMAIN s : s[i] = v} \in SUBSET (1 .. Len(s))  BY <1>1
<1>4. IsFiniteSet({i \in DOMAIN s : s[i] = v})  BY <1>2, <1>3, FS_Subset
<1>5. Occurs(v, s) \in Nat  BY <1>4, FS_CardinalityType DEF Occurs
<1>6. Occurs(v, s) = 0 <=> {i \in DOMAIN s : s[i] = v} = {}  BY <1>4, FS_EmptySet DEF Occurs
<1>7. QED  BY <1>1, <1>4, <1>5, <1>6

\* Nothing is in an empty sequence, one value in a sequence of one.
LEMMA OccursFew ==
  ASSUME NEW v, NEW e
  PROVE  Occurs(v, << >>) = 0 /\ Occurs(v, <<e>>) = One(e, v)
<1>1. {i \in DOMAIN << >> : << >>[i] = v} = {}  OBVIOUS
<1>2. Occurs(v, << >>) = 0  BY <1>1, FS_EmptySet DEF Occurs
<1>3. CASE e = v
  <2>1. {i \in DOMAIN <<e>> : <<e>>[i] = v} = {1}  BY <1>3
  <2>2. QED  BY <1>2, <1>3, <2>1, FS_Singleton DEF Occurs, One
<1>4. CASE e # v
  <2>1. {i \in DOMAIN <<e>> : <<e>>[i] = v} = {}  BY <1>4
  <2>2. QED  BY <1>2, <1>4, <2>1, FS_EmptySet DEF Occurs, One
<1>5. QED  BY <1>3, <1>4

\* Storing an element exchanges it for the one that was there.
LEMMA OccursExcept ==
  ASSUME NEW s \in Seq(Item), NEW i \in 1 .. Len(s), NEW e \in Item, NEW v
  PROVE  Occurs(v, [s EXCEPT ![i] = e]) = Occurs(v, s) + One(e, v) - One(s[i], v)
<1> DEFINE t == [s EXCEPT ![i] = e]
           P == {j \in DOMAIN s : s[j] = v}
           Q == {j \in DOMAIN t : t[j] = v}
<1>1. DOMAIN s = 1 .. Len(s) /\ DOMAIN t = 1 .. Len(s)
      /\ \A j \in 1 .. Len(s) : t[j] = IF j = i THEN e ELSE s[j]
  BY LenProperties
<1>2. IsFiniteSet(P) /\ Cardinality(P) \in Nat  BY OccursNat DEF Occurs
<1>3. Cardinality(Q) = Cardinality(P) + One(e, v) - One(s[i], v)
  <2> HIDE DEF t
  <2>1. CASE e = v
    <3>1. Q = P \cup {i}  BY <1>1, <2>1
    <3>2. i \in P <=> s[i] = v  BY <1>1
    <3> HIDE DEF P, Q
    <3>3. Cardinality(Q) = IF i \in P THEN Cardinality(P) ELSE Cardinality(P) + 1
      BY <1>2, <3>1, FS_AddElement
    <3>4. One(e, v) = 1 /\ One(s[i], v) = IF i \in P THEN 1 ELSE 0  BY <2>1, <3>2 DEF One
    <3>5. QED  BY <1>2, <3>3, <3>4
  <2>2. CASE e # v
    <3>1. Q = P \ {i}  BY <1>1, <2>2
    <3>2. i \in P <=> s[i] = v  BY <1>1
    <3> HIDE DEF P, Q
    <3>3. Cardinality(Q) = IF i \in P THEN Cardinality(P) - 1 ELSE Cardinality(P)
      BY <1>2, <3>1, FS_RemoveElement
    <3>4. One(e, v) = 0 /\ One(s[i], v) = IF i \in P THEN 1 ELSE 0  BY <2>2, <3>2 DEF One
    <3>5. QED  BY <1>2, <3>3, <3>4
  <2>3. QED  BY <2>1, <2>2
<1>4. QED  BY <1>3 DEF Occurs

\* Two sequences in a row.
LEMMA OccursConcat ==
  ASSUME NEW s \in Seq(Item), NEW t \in Seq(Item), NEW v
  PROVE  Occurs(v, s \o t) = Occurs(v, s) + Occurs(v, t)
<1> DEFINE u == s \o t  m == Len(s)
           P == {i \in DOMAIN s : s[i] = v}
           Q == {i \in DOMAIN t : t[i] = v}
           M == {i \in DOMAIN u : u[i] = v /\ m < i}
           R == {i \in DOMAIN u : u[i] = v}
           f == [i \in Q |-> m + i]
<1>1. /\ m \in Nat /\ Len(t) \in Nat /\ u \in Seq(Item) /\ Len(u) = m + Len(t)
      /\ \A i \in 1 .. m + Len(t) : u[i] = IF i <= m THEN s[i] ELSE t[i - m]
      /\ DOMAIN s = 1 .. m /\ DOMAIN t = 1 .. Len(t) /\ DOMAIN u = 1 .. m + Len(t)
  BY ConcatProperties, LenProperties
<1> HIDE DEF u, m
<1>2. IsFiniteSet(P) /\ IsFiniteSet(Q)  BY OccursNat
<1>3. R = P \cup M /\ P \cap M = {}  BY <1>1
<1>4. f \in Bijection(Q, M)
  <2>1. \A i \in Q : f[i] \in M
    BY <1>1
  <2>2. \A i, j \in Q : f[i] = f[j] => i = j  BY <1>1
  <2>3. \A j \in M : \E i \in Q : f[i] = j
    <3> SUFFICES ASSUME NEW j \in M PROVE \E i \in Q : f[i] = j  OBVIOUS
    <3>1. j - m \in Q /\ m + (j - m) = j  BY <1>1
    <3>2. QED  BY <3>1
  <2>4. f \in [Q -> M]  BY <2>1
  <2> HIDE DEF f, Q, M
  <2>5. f \in Injection(Q, M)  BY <2>2, <2>4 DEF Injection, IsInjective
  <2>6. f \in Surjection(Q, M)  BY <2>3, <2>4 DEF Surjection
  <2>7. QED  BY <2>5, <2>6 DEF Bijection
<1> HIDE DEF f, P, Q, M, R
<1>5. IsFiniteSet(M) /\ Cardinality(M) = Cardinality(Q)
  BY <1>2, <1>4, FS_Bijection DEF ExistsBijection
<1>6. Cardinality(R) = Cardinality(P) + Cardinality(M) - Cardinality({})
  BY <1>2, <1>3, <1>5, FS_Union
<1>7. Cardinality(P) \in Nat /\ Cardinality(Q) \in Nat  BY <1>2, FS_CardinalityType
<1>8. Cardinality(R) = Cardinality(P) + Cardinality(Q)
  BY <1>5, <1>6, <1>7, FS_EmptySet
<1>9. QED  BY <1>8 DEF Occurs, P, Q, R, u

\* One more at the end.
LEMMA OccursAppend ==
  ASSUME NEW s \in Seq(Item), NEW e \in Item, NEW v
  PROVE  Occurs(v, Append(s, e)) = Occurs(v, s) + One(e, v)
<1>1. Append(s, e) = s \o <<e>> /\ <<e>> \in Seq(Item)  BY AppendIsConcat
<1>2. Occurs(v, s \o <<e>>) = Occurs(v, s) + Occurs(v, <<e>>)  BY <1>1, OccursConcat
<1>3. Occurs(v, <<e>>) = One(e, v)  BY OccursFew
<1>4. QED  BY <1>1, <1>2, <1>3

\* All but the last, and the last.
LEMMA OccursFront ==
  ASSUME NEW s \in Seq(Item), Len(s) > 0, NEW v
  PROVE  Occurs(v, s) = Occurs(v, SubSeq(s, 1, Len(s) - 1)) + One(s[Len(s)], v)
<1>1. Len(s) \in 1 .. Len(s) /\ 1 \in 1 .. Len(s) /\ Len(s) \in Nat  BY LenProperties
<1>2. s = SubSeq(s, 1, Len(s) - 1) \o <<s[Len(s)]>>
  BY <1>1, SubSeqRecursiveSecond, SubSeqFull
<1>3. s[Len(s)] \in Item /\ \A i \in 1 .. Len(s) - 1 : s[i] \in Item  BY <1>1, ElementOfSeq
<1>4. SubSeq(s, 1, Len(s) - 1) \in Seq(Item) /\ <<s[Len(s)]>> \in Seq(Item)
  BY <1>1, <1>3, SubSeqProperties
<1> DEFINE p == SubSeq(s, 1, Len(s) - 1)  q == <<s[Len(s)]>>
<1>5. Occurs(v, p \o q) = Occurs(v, p) + Occurs(v, q)
  <2>1. p \in Seq(Item) /\ q \in Seq(Item)  BY <1>4
  <2> HIDE DEF p, q
  <2>2. QED  BY <2>1, OccursConcat
<1>6. QED  BY <1>2, <1>5, OccursFew DEF One

\* The first, and all but the first.
LEMMA OccursTail ==
  ASSUME NEW s \in Seq(Item), Len(s) > 0, NEW v
  PROVE  Occurs(v, s) = Occurs(v, Tail(s)) + One(s[1], v)
<1>1. Len(s) \in 1 .. Len(s) /\ 1 \in 1 .. Len(s) /\ Len(s) \in Nat /\ s # << >>
  BY LenProperties
<1>2. SubSeq(s, 1, Len(s)) = <<s[1]>> \o SubSeq(s, 1 + 1, Len(s))
  BY <1>1, SubSeqRecursiveFirst
<1>3. s = <<s[1]>> \o Tail(s)  BY <1>1, <1>2, SubSeqFull, TailIsSubSeq
<1>4. s[1] \in Item  BY <1>1, ElementOfSeq
<1>5. Tail(s) \in Seq(Item) /\ <<s[1]>> \in Seq(Item)  BY <1>1, <1>4, HeadTailProperties
<1> DEFINE p == <<s[1]>>  q == Tail(s)
<1>6. Occurs(v, p \o q) = Occurs(v, p) + Occurs(v, q)
  <2>1. p \in Seq(Item) /\ q \in Seq(Item)  BY <1>5
  <2> HIDE DEF p, q
  <2>2. QED  BY <2>1, OccursConcat
<1>7. Occurs(v, p) \in Nat /\ Occurs(v, q) \in Nat  BY <1>5, OccursNat
<1>8. Occurs(v, p) = One(s[1], v)  BY OccursFew
<1> HIDE DEF p
<1>9. Occurs(v, s) = Occurs(v, p) + Occurs(v, q)  BY <1>3, <1>6 DEF p
<1>10. QED  BY <1>7, <1>8, <1>9

-----------------------------------------------------------------------------
(* Buffers, and the items they own.                                        *)

\* The slots below the length hold elements; those past it may hold anything.
Solid(x) ==
  /\ x = Buffer(x.buf, x.len)
  /\ x.buf \in Seq(Item) /\ x.len \in 0 .. Len(x.buf)
  /\ \A i \in 1 .. x.len : x.buf[i] \in Elem

\* Its items and the rest of it.
LEMMA SolidHas ==
  ASSUME NEW x, Solid(x)
  PROVE  /\ Items(x) \in Seq(Elem) /\ Items(x) \in Seq(Item) /\ Len(Items(x)) = x.len
         /\ DOMAIN Items(x) = 1 .. x.len /\ \A i \in 1 .. x.len : Items(x)[i] = x.buf[i]
         /\ Past(x) \in Seq(Item) /\ Len(Past(x)) = Len(x.buf) - x.len
         /\ x.len \in Nat /\ Len(x.buf) \in Nat
         /\ \A v : /\ IsFiniteSet(Holding(x, v))
                   /\ Cardinality(Holding(x, v)) = Occurs(v, Items(x))
<1>1. /\ x.buf \in Seq(Item) /\ Len(x.buf) \in Nat /\ x.len \in Nat /\ x.len <= Len(x.buf)
      /\ \A i \in 1 .. x.len : x.buf[i] \in Elem
  BY LenProperties DEF Solid
<1>2. /\ Items(x) \in Seq(Elem) /\ Len(Items(x)) = x.len
      /\ \A i \in 1 .. x.len : Items(x)[i] = x.buf[i]
  <2>1. /\ SubSeq(x.buf, 1, x.len) \in Seq(Elem)
        /\ Len(SubSeq(x.buf, 1, x.len)) = IF 1 <= x.len THEN x.len - 1 + 1 ELSE 0
        /\ \A i \in 1 .. x.len - 1 + 1 : SubSeq(x.buf, 1, x.len)[i] = x.buf[1 + i - 1]
    BY <1>1, SubSeqProperties
  <2>2. (IF 1 <= x.len THEN x.len - 1 + 1 ELSE 0) = x.len /\ x.len - 1 + 1 = x.len
        /\ \A i \in 1 .. x.len : 1 + i - 1 = i
    BY <1>1
  <2>3. QED  BY <2>1, <2>2 DEF Items
<1>3. Items(x) \in Seq(Item) /\ DOMAIN Items(x) = 1 .. x.len
  BY <1>2, SeqMonotonic, LenProperties DEF Item
<1>4. Past(x) \in Seq(Item) /\ Len(Past(x)) = Len(x.buf) - x.len
  <2>1. \A i \in x.len + 1 .. Len(x.buf) : i \in 1 .. Len(x.buf)  BY <1>1
  <2>2. \A i \in x.len + 1 .. Len(x.buf) : x.buf[i] \in Item  BY <1>1, <2>1, ElementOfSeq
  <2>3. /\ SubSeq(x.buf, x.len + 1, Len(x.buf)) \in Seq(Item)
        /\ Len(SubSeq(x.buf, x.len + 1, Len(x.buf))) =
             IF x.len + 1 <= Len(x.buf) THEN Len(x.buf) - (x.len + 1) + 1 ELSE 0
    BY <1>1, <2>2, SubSeqProperties
  <2>4. QED  BY <1>1, <2>3 DEF Past
<1>5. ASSUME NEW v
      PROVE  IsFiniteSet(Holding(x, v)) /\ Cardinality(Holding(x, v)) = Occurs(v, Items(x))
  <2>1. Holding(x, v) = {i \in DOMAIN Items(x) : Items(x)[i] = v}
    BY <1>2, <1>3 DEF Holding
  <2>2. QED  BY <1>3, <2>1, OccursNat DEF Occurs
<1>6. QED  BY <1>1, <1>2, <1>3, <1>4, <1>5

\* A buffer made of items and a rest.
LEMMA Made ==
  ASSUME NEW s \in Seq(Elem), NEW t \in Seq(Item), NEW n, n = Len(s)
  PROVE  Solid(Buffer(s \o t, n)) /\ Items(Buffer(s \o t, n)) = s
<1> DEFINE x == Buffer(s \o t, n)
<1>1. s \in Seq(Item) /\ n \in Nat /\ Len(t) \in Nat  BY SeqMonotonic, LenProperties DEF Item
<1>2. /\ s \o t \in Seq(Item) /\ Len(s \o t) = n + Len(t)
      /\ \A i \in 1 .. n + Len(t) : (s \o t)[i] = IF i <= n THEN s[i] ELSE t[i - n]
  BY <1>1, ConcatProperties
<1>3. x.buf = s \o t /\ x.len = n  BY DEF Buffer
<1>4. \A i \in 1 .. n : x.buf[i] = s[i] /\ s[i] \in Elem
  BY <1>1, <1>2, <1>3, ElementOfSeq
<1>5. Solid(x)
  <2>1. n \in 0 .. n + Len(t)  BY <1>1
  <2>2. x = Buffer(x.buf, x.len)  BY <1>3
  <2> HIDE DEF x
  <2>3. QED  BY <1>2, <1>3, <1>4, <2>1, <2>2 DEF Solid
<1> HIDE DEF x
<1>6. /\ Items(x) \in Seq(Elem) /\ Len(Items(x)) = n
      /\ \A i \in 1 .. n : Items(x)[i] = x.buf[i]
  BY <1>3, <1>5, SolidHas
<1>7. Items(x) = s  BY <1>4, <1>6, SeqEqual
<1>8. QED  BY <1>5, <1>7 DEF x

\* The rest may be empty.
LEMMA MadeExact ==
  ASSUME NEW s \in Seq(Elem)
  PROVE  Solid(Buffer(s, Len(s))) /\ Items(Buffer(s, Len(s))) = s
<1>1. << >> \in Seq(Item) /\ s \o << >> = s  BY EmptySeq, ConcatEmptySeq
<1>2. Solid(Buffer(s \o << >>, Len(s))) /\ Items(Buffer(s \o << >>, Len(s))) = s
  BY <1>1, Made
<1>3. QED  BY <1>1, <1>2

\* A buffer of nulls.
LEMMA SlotsAre ==
  ASSUME NEW n \in Nat
  PROVE  Slots(n) \in Seq(Item) /\ Len(Slots(n)) = n
<1>1. Slots(n) \in [1 .. n -> Item]  BY DEF Slots, Item
<1>2. Slots(n) \in Seq(Item)  BY <1>1, SeqDef
<1>3. DOMAIN Slots(n) = 1 .. n /\ DOMAIN Slots(n) = 1 .. Len(Slots(n)) /\ Len(Slots(n)) \in Nat
  BY <1>2, LenProperties DEF Slots
<1>4. QED  BY <1>2, <1>3

\* A buffer without items.
LEMMA Bare ==
  ASSUME NEW t \in Seq(Item)
  PROVE  Solid(Buffer(t, 0)) /\ Items(Buffer(t, 0)) = << >>
<1>1. << >> \in Seq(Elem) /\ Len(<< >>) = 0 /\ << >> \o t = t  BY EmptySeq, ConcatEmptySeq
<1>2. Solid(Buffer(<< >> \o t, 0)) /\ Items(Buffer(<< >> \o t, 0)) = << >>  BY <1>1, Made
<1>3. QED  BY <1>1, <1>2

\* One item stored in the first slot past the length.
LEMMA Stored ==
  ASSUME NEW x, Solid(x), NEW g \in Seq(Item), NEW v \in Elem, x.len < Len(g),
         \A i \in 1 .. x.len : g[i] = x.buf[i]
  PROVE  LET y == Buffer([g EXCEPT ![x.len + 1] = v], x.len + 1)
         IN  Solid(y) /\ Items(y) = Append(Items(x), v)
<1> DEFINE n == x.len  h == [g EXCEPT ![n + 1] = v]  y == Buffer(h, n + 1)
<1>1. /\ n \in Nat /\ Len(g) \in Nat /\ Items(x) \in Seq(Elem) /\ Len(Items(x)) = n
      /\ \A i \in 1 .. n : Items(x)[i] = x.buf[i] /\ x.buf[i] \in Elem
  BY SolidHas, LenProperties DEF Solid
<1>2. n + 1 \in 1 .. Len(g) /\ v \in Item  BY <1>1 DEF Item
<1>3. /\ h \in Seq(Item) /\ Len(h) = Len(g)
      /\ \A j \in 1 .. Len(g) : h[j] = IF j = n + 1 THEN v ELSE g[j]
  BY <1>2, ExceptSeq
<1>4. \A i \in 1 .. n : h[i] = x.buf[i]  BY <1>1, <1>2, <1>3
<1>5. h[n + 1] = v  BY <1>2, <1>3
<1>6. y.buf = h /\ y.len = n + 1 /\ y = Buffer(y.buf, y.len)  BY DEF Buffer
<1> HIDE DEF h, y
<1>7. Solid(y)
  <2>1. n + 1 \in 0 .. Len(h)  BY <1>1, <1>2, <1>3
  <2>2. \A i \in 1 .. n + 1 : i \in 1 .. n \/ i = n + 1  BY <1>1
  <2>4. \A i \in 1 .. n + 1 : h[i] \in Elem  BY <1>1, <1>4, <1>5, <2>2
  <2>3. QED  BY <1>3, <1>6, <2>1, <2>4 DEF Solid
<1>8. /\ Items(y) \in Seq(Elem) /\ Len(Items(y)) = n + 1
      /\ \A i \in 1 .. n + 1 : Items(y)[i] = h[i]
  BY <1>6, <1>7, SolidHas
<1>9. /\ Append(Items(x), v) \in Seq(Elem) /\ Len(Append(Items(x), v)) = n + 1
      /\ \A i \in 1 .. n : Append(Items(x), v)[i] = x.buf[i]
      /\ Append(Items(x), v)[n + 1] = v
  BY <1>1, AppendProperties
<1>10. \A i \in 1 .. n + 1 : Items(y)[i] = Append(Items(x), v)[i]
  <2> SUFFICES ASSUME NEW i \in 1 .. n + 1 PROVE Items(y)[i] = Append(Items(x), v)[i]  OBVIOUS
  <2>1. CASE i = n + 1  BY <1>5, <1>8, <1>9, <2>1
  <2>2. CASE i \in 1 .. n  BY <1>4, <1>8, <1>9, <2>2
  <2>3. QED  BY <1>1, <2>1, <2>2
<1>11. Items(y) = Append(Items(x), v)  BY <1>8, <1>9, <1>10, SeqEqual
<1>12. QED  BY <1>7, <1>11 DEF y, h

\* push.
LEMMA PushedIs ==
  ASSUME NEW x, Solid(x), NEW v \in Elem
  PROVE  Solid(Pushed(x, v)) /\ Items(Pushed(x, v)) = Append(Items(x), v)
<1>1. PICK n, m : n = x.len /\ m = Len(x.buf)  OBVIOUS
<1>2. n \in Nat /\ m \in Nat /\ n <= m /\ x.buf \in Seq(Item)  BY <1>1, SolidHas DEF Solid
<1>3. CASE n < m
  <2>1. Grown(x) = x.buf  BY <1>1, <1>3 DEF Grown
  <2>2. QED  BY <1>1, <1>2, <1>3, <2>1, Stored DEF Pushed
<1>4. CASE ~(n < m)
  <2>1. PICK cap : cap = IF m < 4 THEN 4 ELSE m + m \div 2  OBVIOUS
  <2>2. m \div 2 \in Nat /\ (m >= 4 => m \div 2 >= 1)  BY <1>2
  <2>3. cap - n \in Nat /\ cap - n >= 1  BY <1>2, <1>4, <2>1, <2>2
  <2>4. Grown(x) = Items(x) \o Slots(cap - n)  BY <1>1, <1>4, <2>1 DEF Grown
  <2>5. Slots(cap - n) \in Seq(Item) /\ Len(Slots(cap - n)) = cap - n  BY <2>3, SlotsAre
  <2>6. /\ Items(x) \in Seq(Item) /\ Len(Items(x)) = n
        /\ \A i \in 1 .. n : Items(x)[i] = x.buf[i]
    BY <1>1, SolidHas
  <2>7. /\ Grown(x) \in Seq(Item) /\ Len(Grown(x)) = n + (cap - n)
        /\ \A i \in 1 .. n + (cap - n) :
             Grown(x)[i] = IF i <= n THEN Items(x)[i] ELSE Slots(cap - n)[i - n]
    <3>1. PICK s, t : s = Items(x) /\ t = Slots(cap - n)  OBVIOUS
    <3>2. s \in Seq(Item) /\ t \in Seq(Item) /\ Len(s) = n /\ Len(t) = cap - n
      BY <2>5, <2>6, <3>1
    <3>3. /\ s \o t \in Seq(Item) /\ Len(s \o t) = n + (cap - n)
          /\ \A i \in 1 .. n + (cap - n) : (s \o t)[i] = IF i <= n THEN s[i] ELSE t[i - n]
      BY <3>2, ConcatProperties
    <3>4. QED  BY <2>4, <3>1, <3>3
  <2>8. \A i \in 1 .. n : Grown(x)[i] = x.buf[i]  BY <1>2, <2>3, <2>6, <2>7
  <2>9. n < Len(Grown(x))  BY <1>2, <2>3, <2>7
  <2>10. QED  BY <1>1, <2>7, <2>8, <2>9, Stored DEF Pushed
<1>5. QED  BY <1>3, <1>4

\* pop.
LEMMA PoppedIs ==
  ASSUME NEW x, Solid(x), x.len > 0
  PROVE  Solid(Popped(x)) /\ Items(Popped(x)) = SubSeq(Items(x), 1, x.len - 1)
<1>1. PICK n : n = x.len  OBVIOUS
<1> DEFINE h == [x.buf EXCEPT ![n] = Null]  y == Buffer(h, n - 1)
<1>2. /\ n \in Nat /\ Len(x.buf) \in Nat /\ n <= Len(x.buf) /\ n > 0 /\ x.buf \in Seq(Item)
      /\ Items(x) \in Seq(Elem) /\ Len(Items(x)) = n
      /\ \A i \in 1 .. n : Items(x)[i] = x.buf[i] /\ x.buf[i] \in Elem
  BY <1>1, SolidHas DEF Solid
<1>3. n \in 1 .. Len(x.buf) /\ Null \in Item  BY <1>2 DEF Item
<1>4. /\ h \in Seq(Item) /\ Len(h) = Len(x.buf)
      /\ \A j \in 1 .. Len(x.buf) : h[j] = IF j = n THEN Null ELSE x.buf[j]
  BY <1>2, <1>3, ExceptSeq
<1>5. \A i \in 1 .. n - 1 : i \in 1 .. n /\ h[i] = x.buf[i]  BY <1>2, <1>4
<1>6. y.buf = h /\ y.len = n - 1 /\ y = Buffer(y.buf, y.len) /\ y = Popped(x)
  BY <1>1 DEF Buffer, Popped
<1> HIDE DEF h, y
<1>7. Solid(y)
  <2>1. n - 1 \in 0 .. Len(h)  BY <1>2, <1>4
  <2>2. QED  BY <1>2, <1>4, <1>5, <1>6, <2>1 DEF Solid
<1>8. /\ Items(y) \in Seq(Elem) /\ Len(Items(y)) = n - 1
      /\ \A i \in 1 .. n - 1 : Items(y)[i] = h[i]
  BY <1>6, <1>7, SolidHas
<1> DEFINE t == SubSeq(Items(x), 1, n - 1)
<1>9. t \in Seq(Elem) /\ Len(t) = n - 1 /\ \A i \in 1 .. n - 1 : t[i] = Items(x)[i]
  <2>1. n - 1 \in Int /\ \A i \in 1 .. n - 1 : Items(x)[i] \in Elem  BY <1>2, <1>5
  <2>2. /\ t \in Seq(Elem) /\ Len(t) = IF 1 <= n - 1 THEN n - 1 - 1 + 1 ELSE 0
        /\ \A i \in 1 .. n - 1 - 1 + 1 : t[i] = Items(x)[1 + i - 1]
    BY <2>1, SubSeqProperties
  <2>3. (IF 1 <= n - 1 THEN n - 1 - 1 + 1 ELSE 0) = n - 1 /\ n - 1 - 1 + 1 = n - 1
        /\ \A i \in 1 .. n - 1 : 1 + i - 1 = i
    BY <1>2
  <2> HIDE DEF t
  <2>4. QED  BY <2>2, <2>3
<1> HIDE DEF t
<1>10. \A i \in 1 .. n - 1 : Items(y)[i] = t[i]  BY <1>2, <1>5, <1>8, <1>9
<1>11. Items(y) = t  BY <1>8, <1>9, <1>10, SeqEqual
<1>12. QED  BY <1>1, <1>6, <1>7, <1>11 DEF t

\* shift.
LEMMA ShiftedIs ==
  ASSUME NEW x, Solid(x), x.len > 0
  PROVE  Solid(Shifted(x)) /\ Items(Shifted(x)) = Tail(Items(x))
<1>1. PICK n, s : n = x.len /\ s = Items(x)  OBVIOUS
<1>2. /\ n \in Nat /\ n > 0 /\ s \in Seq(Elem) /\ Len(s) = n
      /\ Past(x) \in Seq(Item) /\ \A i \in 1 .. n : x.buf[i] \in Elem
  BY <1>1, SolidHas DEF Solid
<1>3. s # << >>  BY <1>2, EmptySeq
<1>4. Tail(s) \in Seq(Elem) /\ Len(Tail(s)) = n - 1  BY <1>2, <1>3, HeadTailProperties
<1>5. PICK e : e = IF n > 1 THEN x.buf[n] ELSE Null  OBVIOUS
<1>6. e \in Item  BY <1>2, <1>5 DEF Item
<1>7. (IF x.len > 1 THEN <<x.buf[x.len]>> ELSE <<Null>>) = <<e>>  BY <1>1, <1>5
<1>8. <<e>> \in Seq(Item)  BY <1>6
<1>9. PICK p : p = <<e>>  OBVIOUS
<1>10. p \o Past(x) \in Seq(Item)  BY <1>2, <1>8, <1>9, ConcatProperties
<1>11. Tail(s) \o p \o Past(x) = Tail(s) \o (p \o Past(x))
  <2>1. Tail(s) \in Seq(Item) /\ p \in Seq(Item)
    BY <1>4, <1>8, <1>9, SeqMonotonic DEF Item
  <2>2. PICK r, q : r = Tail(s) /\ q = Past(x)  OBVIOUS
  <2>3. r \in Seq(Item) /\ q \in Seq(Item)  BY <1>2, <2>1, <2>2
  <2>4. (r \o p) \o q = r \o (p \o q)  BY <2>1, <2>3, ConcatAssociative
  <2>5. QED  BY <2>2, <2>4
<1>12. Shifted(x) = Buffer(Tail(s) \o (p \o Past(x)), n - 1)
  BY <1>1, <1>7, <1>9, <1>11 DEF Shifted
<1>13. PICK t, r : t = Tail(s) /\ r = p \o Past(x)  OBVIOUS
<1>14. Solid(Buffer(t \o r, n - 1)) /\ Items(Buffer(t \o r, n - 1)) = t
  BY <1>4, <1>10, <1>13, Made
<1>15. QED  BY <1>1, <1>12, <1>13, <1>14

\* set.
LEMMA SetIs ==
  ASSUME NEW x, Solid(x), NEW i \in 1 .. x.len, NEW v \in Elem
  PROVE  LET y == Buffer([x.buf EXCEPT ![i] = v], x.len)
         IN  Solid(y) /\ Items(y) = [Items(x) EXCEPT ![i] = v]
<1>1. PICK n : n = x.len  OBVIOUS
<1> DEFINE h == [x.buf EXCEPT ![i] = v]  y == Buffer(h, n)  t == [Items(x) EXCEPT ![i] = v]
<1>2. /\ n \in Nat /\ Len(x.buf) \in Nat /\ n <= Len(x.buf) /\ x.buf \in Seq(Item)
      /\ Items(x) \in Seq(Elem) /\ Len(Items(x)) = n
      /\ \A j \in 1 .. n : Items(x)[j] = x.buf[j] /\ x.buf[j] \in Elem
  BY <1>1, SolidHas DEF Solid
<1>3. i \in 1 .. n /\ i \in 1 .. Len(x.buf) /\ v \in Item  BY <1>1, <1>2 DEF Item
<1>4. /\ h \in Seq(Item) /\ Len(h) = Len(x.buf)
      /\ \A j \in 1 .. Len(x.buf) : h[j] = IF j = i THEN v ELSE x.buf[j]
  BY <1>2, <1>3, ExceptSeq
<1>5. /\ t \in Seq(Elem) /\ Len(t) = n
      /\ \A j \in 1 .. n : t[j] = IF j = i THEN v ELSE Items(x)[j]
  BY <1>2, <1>3, ExceptSeq
<1>6. y.buf = h /\ y.len = n /\ y = Buffer(y.buf, y.len)  BY DEF Buffer
<1> HIDE DEF h, t, y
<1>7. \A j \in 1 .. n : h[j] = t[j] /\ h[j] \in Elem
  <2>1. \A j \in 1 .. n : j \in 1 .. Len(x.buf)  BY <1>2
  <2>2. QED  BY <1>2, <1>4, <1>5, <2>1
<1>8. Solid(y)
  <2>1. n \in 0 .. Len(h)  BY <1>2, <1>4
  <2>2. QED  BY <1>4, <1>6, <1>7, <2>1 DEF Solid
<1>9. /\ Items(y) \in Seq(Elem) /\ Len(Items(y)) = n
      /\ \A j \in 1 .. n : Items(y)[j] = h[j]
  BY <1>6, <1>8, SolidHas
<1>10. Items(y) = t  BY <1>5, <1>7, <1>9, SeqEqual
<1>11. QED  BY <1>1, <1>8, <1>10 DEF h, t, y

\* reverse and sort_by: every element as often as before.
LEMMA OrderedIs ==
  ASSUME NEW x, Solid(x), NEW s \in Orders(Items(x))
  PROVE  LET y == Buffer(s \o Past(x), x.len)
         IN  /\ Solid(y) /\ Items(y) = s
             /\ \A v : Occurs(v, s) = Occurs(v, Items(x))
<1>1. PICK t : t = Items(x)  OBVIOUS
<1>2. /\ t \in Seq(Elem) /\ t \in Seq(Item) /\ Len(t) = x.len /\ DOMAIN t = 1 .. x.len
      /\ x.len \in Nat /\ Past(x) \in Seq(Item)
  BY <1>1, SolidHas
<1>3. Range(t) = {t[i] : i \in 1 .. x.len}  BY <1>2 DEF Range
<1>4. s \in [1 .. x.len -> Range(t)]  BY <1>1, <1>2 DEF Orders
<1>5. Range(t) \subseteq Elem  BY <1>2, <1>3, ElementOfSeq
<1>6. s \in Seq(Elem)
  <2>1. s \in [1 .. x.len -> Elem]  BY <1>4, <1>5
  <2>2. QED  BY <1>2, <2>1, SeqDef
<1>7. s \in Seq(Item) /\ Len(s) = x.len
  <2>1. DOMAIN s = 1 .. x.len  BY <1>4
  <2>2. DOMAIN s = 1 .. Len(s) /\ Len(s) \in Nat  BY <1>6, LenProperties
  <2>3. QED  BY <1>2, <1>6, <2>1, <2>2, SeqMonotonic DEF Item
<1>8. ASSUME NEW v PROVE Occurs(v, s) = Occurs(v, t)
  <2>1. CASE v \in Range(t)  BY <1>1, <2>1 DEF Orders
  <2>2. CASE v \notin Range(t)
    <3>1. \A i \in 1 .. x.len : t[i] # v  BY <1>3, <2>2
    <3>2. \A i \in 1 .. x.len : s[i] # v  BY <1>4, <2>2
    <3>3. Occurs(v, t) = 0  BY <1>2, <3>1, OccursNat
    <3>4. Occurs(v, s) = 0  BY <1>7, <3>2, OccursNat
    <3>5. QED  BY <3>3, <3>4
  <2>3. QED  BY <2>1, <2>2
<1>9. Solid(Buffer(s \o Past(x), x.len)) /\ Items(Buffer(s \o Past(x), x.len)) = s
  BY <1>2, <1>6, <1>7, Made
<1>10. QED  BY <1>1, <1>8, <1>9

\* clear.
LEMMA ClearedIs ==
  ASSUME NEW x, Solid(x)
  PROVE  Solid(Cleared(x)) /\ Items(Cleared(x)) = << >>
<1>1. Slots(x.len) \o Past(x) \in Seq(Item)  BY SolidHas, SlotsAre, ConcatProperties
<1>2. QED  BY <1>1, Bare DEF Cleared

\* g is what the pushes of extend leave, one after the other.
Pushes(g, x, s, m) == g = [n \in 0 .. m |-> IF n = 0 THEN x ELSE Pushed(g[n - 1], s[n])]

\* There is such a function.
LEMMA PushesExist ==
  ASSUME NEW x, NEW s, NEW k \in Nat
  PROVE  \E g : Pushes(g, x, s, k)
<1> DEFINE Done == {m \in Nat : \E g : Pushes(g, x, s, m)}
<1>1. 0 \in Done
  <2> DEFINE g == [n \in 0 .. 0 |-> x]
  <2>1. g = [n \in 0 .. 0 |-> IF n = 0 THEN x ELSE Pushed(g[n - 1], s[n])]  OBVIOUS
  <2> HIDE DEF g
  <2>2. Pushes(g, x, s, 0)  BY <2>1 DEF Pushes
  <2>3. QED  BY <2>2
<1>2. ASSUME NEW m \in Nat, m \in Done PROVE m + 1 \in Done
  <2>1. PICK g : Pushes(g, x, s, m)  BY <1>2
  <2> DEFINE h == [n \in 0 .. m + 1 |-> IF n <= m THEN g[n] ELSE Pushed(g[m], s[m + 1])]
             j == [n \in 0 .. m + 1 |-> IF n = 0 THEN x ELSE Pushed(h[n - 1], s[n])]
  <2>2. \A n \in 0 .. m : g[n] = IF n = 0 THEN x ELSE Pushed(g[n - 1], s[n])
    BY <2>1 DEF Pushes
  <2>3. \A n \in 0 .. m + 1 : h[n] = j[n]
    <3> SUFFICES ASSUME NEW n \in 0 .. m + 1 PROVE h[n] = j[n]  OBVIOUS
    <3>1. CASE n \in 0 .. m
      <4>1. n # 0 => n - 1 \in 0 .. m /\ n - 1 \in 0 .. m + 1 /\ n - 1 <= m  BY <3>1
      <4>2. n # 0 => h[n - 1] = g[n - 1]  BY <4>1
      <4>3. h[n] = g[n]  BY <3>1
      <4>4. j[n] = IF n = 0 THEN x ELSE Pushed(h[n - 1], s[n])  OBVIOUS
      <4> HIDE DEF h, j
      <4>5. CASE n = 0  BY <2>2, <3>1, <4>3, <4>4, <4>5
      <4>6. CASE n # 0  BY <2>2, <3>1, <4>2, <4>3, <4>4, <4>6
      <4>7. QED  BY <4>5, <4>6
    <3>2. CASE n = m + 1
      <4>1. n - 1 = m /\ n # 0 /\ ~(n <= m) /\ m \in 0 .. m + 1 /\ m <= m  BY <3>2
      <4>2. h[m] = g[m]  BY <4>1
      <4>3. h[n] = Pushed(g[m], s[m + 1])  BY <4>1
      <4>4. j[n] = Pushed(h[n - 1], s[n])  BY <4>1
      <4> HIDE DEF h, j
      <4>5. QED  BY <3>2, <4>1, <4>2, <4>3, <4>4
    <3>3. QED  BY <3>1, <3>2
  <2>4. h = j
    <3>1. h = [n \in 0 .. m + 1 |-> h[n]] /\ j = [n \in 0 .. m + 1 |-> j[n]]  OBVIOUS
    <3> HIDE DEF h, j
    <3>2. QED  BY <2>3, <3>1
  <2> HIDE DEF h
  <2>5. Pushes(h, x, s, m + 1)  BY <2>4 DEF Pushes
  <2>6. QED  BY <2>5
<1> HIDE DEF Done
<1>3. Nat \subseteq Done  BY <1>1, <1>2, SetInduction
<1>4. QED  BY <1>3 DEF Done

\* extend leaves the items of both.
LEMMA ExtendedIs ==
  ASSUME NEW x, Solid(x), NEW s \in Seq(Elem)
  PROVE  Solid(Extended(x, s)) /\ Items(Extended(x, s)) = Items(x) \o s
<1>1. PICK k, t : k = Len(s) /\ t = Items(x)  OBVIOUS
<1>2. k \in Nat /\ t \in Seq(Elem)  BY <1>1, LenProperties, SolidHas
<1> DEFINE g == CHOOSE f : Pushes(f, x, s, k)
<1>3. Extended(x, s) = g[k]  BY <1>1 DEF Extended, Pushes
<1>4. Pushes(g, x, s, k)  BY <1>2, PushesExist
<1> HIDE DEF g
<1> DEFINE Right(n) == Solid(g[n]) /\ Items(g[n]) = t \o SubSeq(s, 1, n)
           All == {n \in Nat : n <= k => Right(n)}
<1>5. 0 \in All
  <2>1. g[0] = x  BY <1>2, <1>4 DEF Pushes
  <2>2. SubSeq(s, 1, 0) = << >> /\ t \o << >> = t  BY <1>2, SubSeqEmpty, ConcatEmptySeq
  <2>3. QED  BY <1>1, <2>1, <2>2
<1>6. ASSUME NEW n \in Nat, n \in All PROVE n + 1 \in All
  <2> SUFFICES ASSUME n + 1 <= k PROVE Right(n + 1)  OBVIOUS
  <2>1. n <= k /\ n + 1 \in 0 .. k /\ n + 1 # 0 /\ n + 1 - 1 = n /\ n + 1 \in 1 .. k  BY <1>2
  <2>2. g[n + 1] = Pushed(g[n], s[n + 1])  BY <1>4, <2>1 DEF Pushes
  <2>3. s[n + 1] \in Elem  BY <1>1, <2>1, ElementOfSeq
  <2>4. PICK y, e, u : y = g[n] /\ e = s[n + 1] /\ u = SubSeq(s, 1, n)  OBVIOUS
  <2>5. Solid(y) /\ Items(y) = t \o u  BY <1>6, <2>1, <2>4
  <2>6. Solid(Pushed(y, e)) /\ Items(Pushed(y, e)) = Append(t \o u, e)
    BY <2>3, <2>4, <2>5, PushedIs
  <2>7. u \in Seq(Elem)
    <3>1. \A i \in 1 .. n : s[i] \in Elem  BY <1>1, <1>2, <2>1, ElementOfSeq
    <3>2. QED  BY <2>4, <3>1, SubSeqProperties
  <2>8. SubSeq(s, 1, n + 1) = u \o <<e>>
    BY <1>1, <1>2, <2>1, <2>4, SubSeqRecursiveSecond
  <2>9. PICK p : p = <<e>>  OBVIOUS
  <2>10. p \in Seq(Elem)  BY <2>3, <2>4, <2>9
  <2>11. (t \o u) \o p = t \o (u \o p)  BY <1>2, <2>7, <2>10, ConcatAssociative
  <2>12. t \o u \in Seq(Elem)  BY <1>2, <2>7, ConcatProperties
  <2>13. Append(t \o u, e) = (t \o u) \o p
    <3>1. PICK w : w = t \o u  OBVIOUS
    <3>2. Append(w, e) = w \o <<e>>  BY <2>3, <2>4, <2>12, <3>1, AppendIsConcat
    <3>3. QED  BY <2>9, <3>1, <3>2
  <2>14. QED  BY <2>2, <2>4, <2>6, <2>8, <2>9, <2>11, <2>13
<1> HIDE DEF All
<1>7. Nat \subseteq All  BY <1>5, <1>6, SetInduction
<1>8. Right(k)  BY <1>2, <1>7 DEF All
<1>9. SubSeq(s, 1, k) = s  BY <1>1, SubSeqFull
<1>10. QED  BY <1>1, <1>3, <1>8, <1>9

-----------------------------------------------------------------------------
(* The owners of an element.                                               *)

Own(ls, v) == UNION {{l} \X Holding(ls[l], v) : l \in DOMAIN ls}
Elsewhere(ls, l, v) == UNION {{m} \X Holding(ls[m], v) : m \in DOMAIN ls \ {l}}

\* Those of one list, and the others.
LEMMA Apart ==
  ASSUME NEW ls, NEW l \in DOMAIN ls, Solid(ls[l]), NEW v
  PROVE  /\ IsFiniteSet(Own(ls, v)) <=> IsFiniteSet(Elsewhere(ls, l, v))
         /\ IsFiniteSet(Elsewhere(ls, l, v)) =>
              /\ Cardinality(Own(ls, v)) = Cardinality(Elsewhere(ls, l, v))
                                           + Occurs(v, Items(ls[l]))
              /\ Cardinality(Elsewhere(ls, l, v)) \in Nat
              /\ Occurs(v, Items(ls[l])) \in Nat
<1> DEFINE H == Holding(ls[l], v)  Q == {l} \X H  O == Own(ls, v)
           E == Elsewhere(ls, l, v)  f == [i \in H |-> <<l, i>>]
<1>1. IsFiniteSet(H) /\ Cardinality(H) = Occurs(v, Items(ls[l]))  BY SolidHas
<1>2. O = E \cup Q /\ E \cap Q = {}  BY DEF Own, Elsewhere
<1>3. f \in Bijection(H, Q)
  <2> HIDE DEF H
  <2>1. f \in [H -> Q] /\ \A i, j \in H : f[i] = f[j] => i = j  OBVIOUS
  <2>2. \A q \in Q : \E i \in H : f[i] = q  OBVIOUS
  <2> HIDE DEF f, Q
  <2>3. QED  BY <2>1, <2>2 DEF Bijection, Injection, IsInjective, Surjection
<1> HIDE DEF H, Q, O, E, f
<1>4. IsFiniteSet(Q) /\ Cardinality(Q) = Cardinality(H)
  BY <1>1, <1>3, FS_Bijection DEF ExistsBijection
<1>5. IsFiniteSet(O) <=> IsFiniteSet(E)
  <2>1. E \in SUBSET O  BY <1>2
  <2>2. QED  BY <1>2, <1>4, <2>1, FS_Subset, FS_Union
<1>6. ASSUME IsFiniteSet(E)
      PROVE  /\ Cardinality(O) = Cardinality(E) + Cardinality(Q)
             /\ Cardinality(E) \in Nat /\ Cardinality(Q) \in Nat
  <2>1. Cardinality(O) = Cardinality(E) + Cardinality(Q) - Cardinality({})
    BY <1>2, <1>4, <1>6, FS_Union
  <2>2. QED  BY <1>4, <1>6, <2>1, FS_CardinalityType, FS_EmptySet
<1>7. QED  BY <1>1, <1>4, <1>5, <1>6 DEF H, O, E

\* A list is changed, added or dropped.
Put(ls, l, y)  == [ls EXCEPT ![l] = y]
Plus(ls, l, y) == [m \in DOMAIN ls \cup {l} |-> IF m = l THEN y ELSE ls[m]]
Less(ls, l)    == [m \in DOMAIN ls \ {l} |-> ls[m]]

\* What a changed list owns, and the others as before.
LEMMA OwnUpdated ==
  ASSUME NEW ls, NEW l \in DOMAIN ls, Solid(ls[l]), NEW y, Solid(y), NEW v,
         IsFiniteSet(Own(ls, v))
  PROVE  /\ IsFiniteSet(Own(Put(ls, l, y), v))
         /\ Cardinality(Own(Put(ls, l, y), v)) = Cardinality(Own(ls, v))
                                      - Occurs(v, Items(ls[l])) + Occurs(v, Items(y))
<1>1. PICK ks : ks = Put(ls, l, y)  OBVIOUS
<1>2. DOMAIN ks = DOMAIN ls /\ ks[l] = y /\ \A m \in DOMAIN ls \ {l} : ks[m] = ls[m]
  BY <1>1 DEF Put
<1>3. Elsewhere(ks, l, v) = Elsewhere(ls, l, v)  BY <1>2 DEF Elsewhere
<1>4. /\ IsFiniteSet(Elsewhere(ls, l, v))
      /\ Cardinality(Own(ls, v)) = Cardinality(Elsewhere(ls, l, v)) + Occurs(v, Items(ls[l]))
      /\ Cardinality(Elsewhere(ls, l, v)) \in Nat /\ Occurs(v, Items(ls[l])) \in Nat
  BY Apart
<1>5. /\ IsFiniteSet(Own(ks, v)) /\ Occurs(v, Items(y)) \in Nat
      /\ Cardinality(Own(ks, v)) = Cardinality(Elsewhere(ls, l, v)) + Occurs(v, Items(y))
  <2>1. l \in DOMAIN ks /\ Solid(ks[l])  BY <1>2
  <2>2. QED  BY <1>2, <1>3, <1>4, <2>1, Apart
<1>6. QED  BY <1>1, <1>4, <1>5

\* What a list that is added owns is added.
LEMMA OwnAdded ==
  ASSUME NEW ls, NEW l, l \notin DOMAIN ls, NEW y, Solid(y), NEW v, IsFiniteSet(Own(ls, v))
  PROVE  /\ IsFiniteSet(Own(Plus(ls, l, y), v))
         /\ Cardinality(Own(Plus(ls, l, y), v)) = Cardinality(Own(ls, v)) + Occurs(v, Items(y))
<1>1. PICK ks : ks = Plus(ls, l, y)  OBVIOUS
<1>2. /\ DOMAIN ks = DOMAIN ls \cup {l} /\ ks[l] = y /\ DOMAIN ks \ {l} = DOMAIN ls
      /\ \A m \in DOMAIN ls : ks[m] = ls[m]
  BY <1>1 DEF Plus
<1>3. Elsewhere(ks, l, v) = Own(ls, v)  BY <1>2 DEF Elsewhere, Own
<1>4. l \in DOMAIN ks /\ Solid(ks[l])  BY <1>2
<1>5. QED  BY <1>1, <1>2, <1>3, <1>4, Apart

\* What a list that is dropped owned is taken away.
LEMMA OwnDropped ==
  ASSUME NEW ls, NEW l \in DOMAIN ls, Solid(ls[l]), NEW v, IsFiniteSet(Own(ls, v))
  PROVE  /\ IsFiniteSet(Own(Less(ls, l), v))
         /\ Cardinality(Own(Less(ls, l), v)) = Cardinality(Own(ls, v))
                                                  - Occurs(v, Items(ls[l]))
<1>1. Own(Less(ls, l), v) = Elsewhere(ls, l, v)  BY DEF Elsewhere, Own, Less
<1>2. QED  BY <1>1, Apart

-----------------------------------------------------------------------------
(* The invariant.                                                          *)

\* What a walk owns of v.
Lends(w, v) == IF w = Idle THEN 0 ELSE Occurs(v, <<w.elem>>) + Occurs(v, Items(w.out))

\* Every reference is counted once.
Tally(ls, r, h, w) ==
  \A v \in Elem : /\ IsFiniteSet(Own(ls, v))
                  /\ r[v] = h[v] + Cardinality(Own(ls, v)) + Lends(w, v)

\* What a walk is.
Walker == [kind : Walks, l : ListId, i : Nat, call : BOOLEAN, elem : Item,
           out : [buf : Seq(Item), len : Nat]]
WalkOK(w, ls) ==
  w # Idle =>
    /\ w \in Walker /\ w.l \in DOMAIN ls /\ Solid(w.out)
    /\ IF w.call THEN w.elem \in Elem ELSE w.elem = Null
    /\ w.kind = "each" => w.out = Empty
    /\ w.kind = "map" => w.out.len = w.i

\* The items of y are some of the first i of x in their order.
Picked(y, x, i) ==
  \E f \in [1 .. y.len -> 1 .. i] :
    /\ \A j, k \in 1 .. y.len : j < k => f[j] < f[k]
    /\ \A k \in 1 .. y.len : Items(y)[k] = Items(x)[f[k]]

\* A walk over a list that nobody changes.
Following(w, ls) ==
  w # Idle /\ w.kind \notin Changing =>
    /\ w.i <= ls[w.l].len
    /\ w.call => w.i < ls[w.l].len /\ w.elem = ls[w.l].buf[w.i + 1]
    /\ w.kind # "each" => Picked(w.out, ls[w.l], w.i)
    /\ w.kind = "map" => Len(w.out.buf) = ls[w.l].len

\* A fault is a slot outside a list that a callback of filter or map changed.
FaultOK(f, w) ==
  f # "none" => w # Idle /\ w.kind \in Changing /\ w.kind # "each"

Shapes(ls) ==
  /\ DOMAIN ls \subseteq ListId /\ ls = [l \in DOMAIN ls |-> ls[l]]
  /\ \A l \in DOMAIN ls : Solid(ls[l])

ListInv ==
  /\ Shapes(lists)
  /\ rc \in [Elem -> Nat] /\ held \in [Elem -> 0 .. MaxHeld]
  /\ Tally(lists, rc, held, walk)
  /\ WalkOK(walk, lists) /\ Following(walk, lists)
  /\ FaultOK(fault, walk)

\* What can be counted is a number.
LEMMA Numbers ==
  ASSUME ListInv, NEW v \in Elem
  PROVE  /\ rc[v] \in Nat /\ held[v] \in 0 .. MaxHeld /\ MaxHeld \in Nat
         /\ IsFiniteSet(Own(lists, v)) /\ Cardinality(Own(lists, v)) \in Nat
         /\ Lends(walk, v) \in Nat
         /\ rc[v] = held[v] + Cardinality(Own(lists, v)) + Lends(walk, v)
<1>1. Lends(walk, v) \in Nat
  <2>1. CASE walk = Idle  BY <2>1 DEF Lends
  <2>2. CASE walk # Idle
    <3>1. Solid(walk.out)  BY <2>2 DEF ListInv, WalkOK
    <3>2. Items(walk.out) \in Seq(Item)
      <4>1. PICK x : x = walk.out  OBVIOUS
      <4>2. QED  BY <3>1, <4>1, SolidHas
    <3>3. Occurs(v, Items(walk.out)) \in Nat
      <4>1. PICK s : s = Items(walk.out)  OBVIOUS
      <4>2. QED  BY <3>2, <4>1, OccursNat
    <3>4. Occurs(v, <<walk.elem>>) \in Nat
      <4>1. PICK e : e = walk.elem  OBVIOUS
      <4>2. Occurs(v, <<e>>) = One(e, v)  BY OccursFew
      <4>3. QED  BY <4>1, <4>2 DEF One
    <3>5. QED  BY <2>2, <3>3, <3>4 DEF Lends
  <2>3. QED  BY <2>1, <2>2
<1>2. IsFiniteSet(Own(lists, v))  BY DEF ListInv, Tally
<1>3. Cardinality(Own(lists, v)) \in Nat  BY <1>2, FS_CardinalityType
<1>4. QED  BY <1>1, <1>2, <1>3, ListAssumption DEF ListInv, Tally

\* A list owns no more than all of them.
LEMMA ItemsCounted ==
  ASSUME ListInv, NEW v \in Elem, NEW l \in DOMAIN lists
  PROVE  /\ Solid(lists[l]) /\ Occurs(v, Items(lists[l])) \in Nat
         /\ Occurs(v, Items(lists[l])) <= Cardinality(Own(lists, v))
<1>1. PICK ls, O : ls = lists /\ O = Own(lists, v)  OBVIOUS
<1>2. l \in DOMAIN ls /\ Solid(ls[l]) /\ IsFiniteSet(O) /\ O = Own(ls, v)
  BY <1>1, Numbers DEF ListInv, Shapes
<1>3. QED  BY <1>1, <1>2, Apart

\* A counted element is allocated.
LEMMA InAList ==
  ASSUME ListInv, NEW l \in DOMAIN lists, NEW i \in 1 .. lists[l].len
  PROVE  lists[l].buf[i] \in Elem /\ rc[lists[l].buf[i]] > 0
<1>1. PICK x, v : x = lists[l] /\ v = x.buf[i]  OBVIOUS
<1>2. Solid(x) /\ v \in Elem /\ i \in 1 .. x.len  BY <1>1 DEF ListInv, Shapes, Solid
<1>3. Items(x) \in Seq(Item) /\ i \in 1 .. Len(Items(x)) /\ Items(x)[i] = v
  BY <1>1, <1>2, SolidHas
<1>4. PICK s : s = Items(x)  OBVIOUS
<1>5. Occurs(v, s) \in Nat /\ Occurs(v, s) # 0  BY <1>3, <1>4, OccursNat
<1>6. Occurs(v, s) <= Cardinality(Own(lists, v))  BY <1>1, <1>2, <1>4, ItemsCounted
<1>7. rc[v] > 0  BY <1>2, <1>5, <1>6, Numbers
<1>8. QED  BY <1>1, <1>2, <1>7

\* Dups of allocated elements, and no more drops than references.
LEMMA CountedIs ==
  ASSUME ListInv, NEW d \in Seq(Item), NEW e \in Seq(Item), Counted(d, e),
         \A v \in Elem : /\ Occurs(v, d) > 0 => rc[v] > 0
                         /\ Occurs(v, e) <= rc[v] + Occurs(v, d)
  PROVE  /\ fault' = fault /\ rc' \in [Elem -> Nat]
         /\ \A v \in Elem : rc'[v] = rc[v] + Occurs(v, d) - Occurs(v, e)
<1>1. \A v \in Elem : rc[v] \in Nat /\ Occurs(v, d) \in Nat /\ Occurs(v, e) \in Nat
  BY Numbers, OccursNat
<1>2. ~ \E v \in Elem : \/ rc[v] = 0 /\ Occurs(v, d) > 0
                        \/ rc[v] + Occurs(v, d) < Occurs(v, e)
  BY <1>1
<1>3. rc' = [v \in Elem |-> rc[v] + Occurs(v, d) - Occurs(v, e)]
  BY DEF Counted
<1>6. fault' = IF \E v \in Elem : \/ rc[v] = 0 /\ Occurs(v, d) > 0
                                 \/ rc[v] + Occurs(v, d) < Occurs(v, e)
               THEN "dead" ELSE fault
  BY Zenon DEF Counted
<1>4. \A v \in Elem : rc[v] + Occurs(v, d) - Occurs(v, e) \in Nat  BY <1>1
<1>5. QED  BY <1>2, <1>3, <1>4, <1>6

\* A list is changed by code that may change it.
LEMMA Changed ==
  ASSUME ListInv, NEW l, Usable(l), NEW y, Solid(y), Update(l, y), walk' = walk,
         fault' = fault, rc' \in [Elem -> Nat], held' \in [Elem -> 0 .. MaxHeld],
         \A v \in Elem : rc'[v] - held'[v] = rc[v] - held[v]
                            - Occurs(v, Items(lists[l])) + Occurs(v, Items(y))
  PROVE  ListInv'
<1>1. PICK ls, ks : ls = lists /\ ks = Put(ls, l, y)  OBVIOUS
<1>2. lists' = ks /\ l \in DOMAIN ls /\ Shapes(ls)
  BY <1>1 DEF Update, Usable, ListInv, Put
<1>3. DOMAIN ks = DOMAIN ls /\ ks = [m \in DOMAIN ks |-> ks[m]]
      /\ ks[l] = y /\ \A m \in DOMAIN ls : m # l => ks[m] = ls[m]
  BY <1>1, <1>2 DEF Put
<1>4. Shapes(ks)  BY <1>2, <1>3 DEF Shapes
<1>5. ASSUME NEW v \in Elem
      PROVE  /\ IsFiniteSet(Own(ks, v))
             /\ rc'[v] = held'[v] + Cardinality(Own(ks, v)) + Lends(walk, v)
  <2>1. /\ IsFiniteSet(Own(ls, v)) /\ rc[v] \in Nat /\ held[v] \in Nat /\ Lends(walk, v) \in Nat
        /\ Cardinality(Own(ls, v)) \in Nat
        /\ rc[v] = held[v] + Cardinality(Own(ls, v)) + Lends(walk, v)
    BY <1>1, Numbers
  <2>2. /\ IsFiniteSet(Own(ks, v))
        /\ Cardinality(Own(ks, v)) = Cardinality(Own(ls, v))
                                     - Occurs(v, Items(ls[l])) + Occurs(v, Items(y))
    <3>1. Solid(ls[l])  BY <1>2 DEF Shapes
    <3>2. QED  BY <1>1, <1>2, <2>1, <3>1, OwnUpdated
  <2>3. Occurs(v, Items(ls[l])) \in Nat  BY <1>1, <1>2, ItemsCounted
  <2>4. Occurs(v, Items(y)) \in Nat
    <3>1. PICK s : s = Items(y)  OBVIOUS
    <3>2. QED  BY <3>1, SolidHas, OccursNat
  <2>5. rc'[v] \in Nat /\ held'[v] \in Nat  BY ListAssumption
  <2>6. rc'[v] - held'[v] = rc[v] - held[v] - Occurs(v, Items(ls[l])) + Occurs(v, Items(y))
    BY <1>1
  <2>7. PICK a, b, c, d, r, h, p, q :
          /\ a = Cardinality(Own(ls, v)) /\ b = Occurs(v, Items(ls[l])) /\ c = Occurs(v, Items(y))
          /\ d = Lends(walk, v) /\ r = rc[v] /\ h = held[v] /\ p = rc'[v] /\ q = held'[v]
    OBVIOUS
  <2>8. /\ a \in Nat /\ b \in Nat /\ c \in Nat /\ d \in Nat /\ r \in Nat /\ h \in Nat
        /\ p \in Nat /\ q \in Nat /\ r = h + a + d /\ p - q = r - h - b + c
    BY <2>1, <2>3, <2>4, <2>5, <2>6, <2>7
  <2>9. p = q + (a - b + c) + d  BY <2>8
  <2>10. QED  BY <2>2, <2>7, <2>9
<1>6. Tally(ks, rc', held', walk)  BY <1>5 DEF Tally
<1>7. WalkOK(walk, ks)  BY <1>1, <1>3 DEF ListInv, WalkOK
<1>8. Following(walk, ks)  BY DEF Usable, Walking, Following
<1>9. QED  BY <1>2, <1>4, <1>6, <1>7, <1>8 DEF ListInv

\* A new list, perhaps of what a walk has gathered.
LEMMA Added ==
  ASSUME ListInv, NEW l \in ListId \ DOMAIN lists, NEW y, Solid(y), With(l, y),
         walk' = Idle, fault' = "none", rc' \in [Elem -> Nat],
         held' \in [Elem -> 0 .. MaxHeld],
         \A v \in Elem : rc'[v] - held'[v] = rc[v] - held[v]
                            - Lends(walk, v) + Occurs(v, Items(y))
  PROVE  ListInv'
<1>1. PICK ls, ks : ls = lists /\ ks = Plus(ls, l, y)  OBVIOUS
<1>2. lists' = ks /\ l \notin DOMAIN ls /\ Shapes(ls)  BY <1>1 DEF With, ListInv, Plus
<1>3. /\ DOMAIN ks = DOMAIN ls \cup {l} /\ ks = [m \in DOMAIN ks |-> ks[m]]
      /\ ks[l] = y /\ \A m \in DOMAIN ls : ks[m] = ls[m]
  BY <1>1, <1>2 DEF Plus
<1>4. Shapes(ks)  BY <1>2, <1>3 DEF Shapes
<1>5. ASSUME NEW v \in Elem
      PROVE  /\ IsFiniteSet(Own(ks, v))
             /\ rc'[v] = held'[v] + Cardinality(Own(ks, v)) + 0
  <2>1. /\ IsFiniteSet(Own(ls, v)) /\ rc[v] \in Nat /\ held[v] \in Nat /\ Lends(walk, v) \in Nat
        /\ Cardinality(Own(ls, v)) \in Nat
        /\ rc[v] = held[v] + Cardinality(Own(ls, v)) + Lends(walk, v)
    BY <1>1, Numbers
  <2>2. /\ IsFiniteSet(Own(ks, v))
        /\ Cardinality(Own(ks, v)) = Cardinality(Own(ls, v)) + Occurs(v, Items(y))
    BY <1>1, <1>2, <2>1, OwnAdded
  <2>3. Occurs(v, Items(y)) \in Nat
    <3>1. PICK s : s = Items(y)  OBVIOUS
    <3>2. QED  BY <3>1, SolidHas, OccursNat
  <2>4. rc'[v] \in Nat /\ held'[v] \in Nat  BY ListAssumption
  <2>5. rc'[v] - held'[v] = rc[v] - held[v] - Lends(walk, v) + Occurs(v, Items(y))
    OBVIOUS
  <2>6. QED  BY <2>1, <2>2, <2>3, <2>4, <2>5
<1>6. Tally(ks, rc', held', Idle)  BY <1>5 DEF Tally, Lends
<1>7. WalkOK(Idle, ks) /\ Following(Idle, ks) /\ FaultOK("none", Idle)
  BY DEF WalkOK, Following, FaultOK
<1>8. QED  BY <1>2, <1>4, <1>6, <1>7 DEF ListInv

\* The lists stay as they are.
LEMMA Kept ==
  ASSUME ListInv, lists' = lists, WalkOK(walk', lists), Following(walk', lists),
         FaultOK(fault', walk'), rc' \in [Elem -> Nat], held' \in [Elem -> 0 .. MaxHeld],
         \A v \in Elem : /\ Lends(walk', v) \in Nat
                         /\ rc'[v] - held'[v] - Lends(walk', v) = rc[v] - held[v] - Lends(walk, v)
  PROVE  ListInv'
<1>1. ASSUME NEW v \in Elem
      PROVE  /\ IsFiniteSet(Own(lists, v))
             /\ rc'[v] = held'[v] + Cardinality(Own(lists, v)) + Lends(walk', v)
  <2>1. rc'[v] \in Nat /\ held'[v] \in Nat /\ held[v] \in Nat  BY Numbers, ListAssumption
  <2>2. QED  BY <2>1, Numbers
<1>2. Tally(lists, rc', held', walk')  BY <1>1 DEF Tally
<1>3. QED  BY <1>2 DEF ListInv

-----------------------------------------------------------------------------
(* Every step keeps the invariant.                                         *)

\* A variable takes a reference.
LEMMA HoldIs ==
  ASSUME ListInv, NEW v \in Elem, Hold(v)
  PROVE  /\ held' \in [Elem -> 0 .. MaxHeld]
         /\ \A w \in Elem : held'[w] = held[w] + One(v, w)
<1>1. /\ held \in [Elem -> 0 .. MaxHeld] /\ held[v] < MaxHeld
      /\ held' = [held EXCEPT ![v] = held[v] + 1]
  BY DEF ListInv, Hold
<1>2. held[v] + 1 \in 0 .. MaxHeld  BY <1>1, ListAssumption
<1>3. \A w \in Elem : held'[w] = IF w = v THEN held[v] + 1 ELSE held[w]  BY <1>1
<1>4. \A w \in Elem : held[w] \in Int  BY <1>1, ListAssumption
<1>5. QED  BY <1>1, <1>2, <1>3, <1>4 DEF One

\* A counted copy of an allocated element.
LEMMA DupOne ==
  ASSUME ListInv, NEW v \in Elem, rc[v] > 0, Counted(<<v>>, << >>)
  PROVE  /\ fault' = fault /\ rc' \in [Elem -> Nat]
         /\ \A w \in Elem : rc'[w] = rc[w] + One(v, w)
<1>1. PICK d, e : d = <<v>> /\ e = << >>  OBVIOUS
<1>2. d \in Seq(Item) /\ e \in Seq(Item)  BY <1>1 DEF Item
<1>3. \A w \in Elem : Occurs(w, d) = One(v, w) /\ Occurs(w, e) = 0  BY <1>1, OccursFew
<1>4. \A w \in Elem : rc[w] \in Nat /\ One(v, w) \in Nat  BY DEF ListInv, One
<1>5. \A w \in Elem : /\ Occurs(w, d) > 0 => rc[w] > 0
                      /\ Occurs(w, e) <= rc[w] + Occurs(w, d)
  BY <1>3, <1>4 DEF One
<1>6. Counted(d, e)  BY <1>1
<1>7. /\ fault' = fault /\ rc' \in [Elem -> Nat]
      /\ \A w \in Elem : rc'[w] = rc[w] + Occurs(w, d) - Occurs(w, e)
  BY <1>2, <1>5, <1>6, CountedIs
<1>8. QED  BY <1>3, <1>4, <1>7

\* A reference of an allocated element is dropped.
LEMMA DropOne ==
  ASSUME ListInv, NEW v \in Elem, rc[v] > 0, Counted(<< >>, <<v>>)
  PROVE  /\ fault' = fault /\ rc' \in [Elem -> Nat]
         /\ \A w \in Elem : rc'[w] = rc[w] - One(v, w)
<1>1. PICK d, e : d = << >> /\ e = <<v>>  OBVIOUS
<1>2. d \in Seq(Item) /\ e \in Seq(Item)  BY <1>1 DEF Item
<1>3. \A w \in Elem : Occurs(w, e) = One(v, w) /\ Occurs(w, d) = 0  BY <1>1, OccursFew
<1>4. \A w \in Elem : rc[w] \in Nat /\ One(v, w) \in Nat  BY DEF ListInv, One
<1>5. \A w \in Elem : /\ Occurs(w, d) > 0 => rc[w] > 0
                      /\ Occurs(w, e) <= rc[w] + Occurs(w, d)
  BY <1>3, <1>4 DEF One
<1>6. Counted(d, e)  BY <1>1
<1>7. /\ fault' = fault /\ rc' \in [Elem -> Nat]
      /\ \A w \in Elem : rc'[w] = rc[w] + Occurs(w, d) - Occurs(w, e)
  BY <1>2, <1>5, <1>6, CountedIs
<1>8. QED  BY <1>3, <1>4, <1>7

\* One is acquired and then another, or the same, released.
LEMMA Exchange ==
  ASSUME ListInv, NEW v \in Elem, NEW u \in Elem, rc[v] > 0, rc[u] > 0,
         Counted(<<v>>, <<u>>)
  PROVE  /\ fault' = fault /\ rc' \in [Elem -> Nat]
         /\ \A w \in Elem : rc'[w] = rc[w] + One(v, w) - One(u, w)
<1>1. PICK d, e : d = <<v>> /\ e = <<u>>  OBVIOUS
<1>2. d \in Seq(Item) /\ e \in Seq(Item)  BY <1>1 DEF Item
<1>3. \A w \in Elem : Occurs(w, d) = One(v, w) /\ Occurs(w, e) = One(u, w)  BY <1>1, OccursFew
<1>4. \A w \in Elem : rc[w] \in Nat /\ One(v, w) \in Nat  BY DEF ListInv, One
<1>5. \A w \in Elem : /\ Occurs(w, d) > 0 => rc[w] > 0
                      /\ Occurs(w, e) <= rc[w] + Occurs(w, d)
  BY <1>3, <1>4 DEF One
<1>6. Counted(d, e)  BY <1>1
<1>7. /\ fault' = fault /\ rc' \in [Elem -> Nat]
      /\ \A w \in Elem : rc'[w] = rc[w] + Occurs(w, d) - Occurs(w, e)
  BY <1>2, <1>5, <1>6, CountedIs
<1>8. QED  BY <1>3, <1>7

\* What is held is allocated.
LEMMA HeldLive ==
  ASSUME ListInv, NEW v \in Elem, held[v] > 0 \/ Owners(v) # {}
  PROVE  rc[v] > 0
<1>1. PICK O : O = Own(lists, v)  OBVIOUS
<1>2. Owners(v) = O  BY <1>1 DEF Owners, Own
<1>3. IsFiniteSet(O) /\ Cardinality(O) \in Nat  BY <1>1, Numbers
<1>4. O # {} => Cardinality(O) # 0  BY <1>3, FS_EmptySet
<1>5. QED  BY <1>1, <1>2, <1>3, <1>4, Numbers

\* The element a callback has is allocated.
LEMMA LentLive ==
  ASSUME ListInv, Calling
  PROVE  walk.elem \in Elem /\ rc[walk.elem] > 0
<1>1. PICK e : e = walk.elem  OBVIOUS
<1>2. walk # Idle /\ e \in Elem /\ Solid(walk.out)
  BY <1>1 DEF ListInv, WalkOK, Calling, Walking
<1>3. PICK s : s = Items(walk.out)  OBVIOUS
<1>4. s \in Seq(Item)
  <2>1. PICK x : x = walk.out  OBVIOUS
  <2>2. QED  BY <1>2, <1>3, <2>1, SolidHas
<1>5. Occurs(e, s) \in Nat  BY <1>4, OccursNat
<1>6. Occurs(e, <<e>>) = 1  BY OccursFew DEF One
<1>7. Lends(walk, e) = 1 + Occurs(e, s)  BY <1>1, <1>2, <1>3, <1>6 DEF Lends
<1>8. rc[e] > 0  BY <1>2, <1>5, <1>7, Numbers
<1>9. QED  BY <1>1, <1>2, <1>8

\* Alloc.
LEMMA AllocKeeps ==
  ASSUME ListInv, NEW v \in Elem, Alloc(v)
  PROVE  ListInv'
<1>1. /\ held' \in [Elem -> 0 .. MaxHeld]
      /\ \A w \in Elem : held'[w] = held[w] + One(v, w)
  BY HoldIs DEF Alloc
<1>2. /\ rc' \in [Elem -> Nat]
      /\ \A w \in Elem : rc'[w] = rc[w] + One(v, w)
  BY DEF Alloc, ListInv, One
<1>3. lists' = lists /\ walk' = walk /\ fault' = fault  BY DEF Alloc
<1>4. \A w \in Elem : /\ rc[w] \in Nat /\ held[w] \in Nat /\ Lends(walk, w) \in Nat
                      /\ One(v, w) \in Nat
  BY Numbers DEF One
<1>5. \A w \in Elem : rc'[w] - held'[w] - Lends(walk, w) = rc[w] - held[w] - Lends(walk, w)
  BY <1>1, <1>2, <1>4
<1>6. WalkOK(walk, lists) /\ Following(walk, lists) /\ FaultOK(fault, walk)  BY DEF ListInv
<1>7. QED  BY <1>1, <1>2, <1>3, <1>4, <1>5, <1>6, Kept

\* Release.
LEMMA ReleaseKeeps ==
  ASSUME ListInv, NEW v \in Elem, Release(v)
  PROVE  ListInv'
<1>1. held[v] \in 0 .. MaxHeld /\ held[v] > 0 /\ held' = [held EXCEPT ![v] = held[v] - 1]
      /\ held \in [Elem -> 0 .. MaxHeld]
  BY DEF Release, ListInv
<1>2. /\ held' \in [Elem -> 0 .. MaxHeld]
      /\ \A w \in Elem : held'[w] = held[w] - One(v, w)
  <2>1. held[v] - 1 \in 0 .. MaxHeld  BY <1>1, ListAssumption
  <2>2. \A w \in Elem : held'[w] = IF w = v THEN held[v] - 1 ELSE held[w]  BY <1>1
  <2>3. \A w \in Elem : held[w] \in Int  BY <1>1, ListAssumption
  <2>4. QED  BY <1>1, <2>1, <2>2, <2>3 DEF One
<1>3. rc[v] > 0  BY <1>1, HeldLive
<1>4. /\ fault' = fault /\ rc' \in [Elem -> Nat]
      /\ \A w \in Elem : rc'[w] = rc[w] - One(v, w)
  BY <1>3, DropOne DEF Release
<1>5. lists' = lists /\ walk' = walk  BY DEF Release
<1>6. \A w \in Elem : /\ rc[w] \in Nat /\ held[w] \in Nat /\ Lends(walk, w) \in Nat
                      /\ One(v, w) \in Nat
  BY Numbers DEF One
<1>7. \A w \in Elem : rc'[w] - held'[w] - Lends(walk, w) = rc[w] - held[w] - Lends(walk, w)
  BY <1>2, <1>4, <1>6
<1>8. WalkOK(walk, lists) /\ Following(walk, lists) /\ FaultOK(fault, walk)  BY DEF ListInv
<1>9. QED  BY <1>2, <1>4, <1>5, <1>6, <1>7, <1>8, Kept

\* push.
LEMMA PushKeeps ==
  ASSUME ListInv, NEW l, NEW v \in Elem, push(l, v)
  PROVE  ListInv'
<1>1. PICK x, y : x = lists[l] /\ y = Pushed(x, v)  OBVIOUS
<1>2. l \in DOMAIN lists /\ Solid(x)  BY <1>1 DEF push, Usable, ListInv, Shapes
<1>3. Solid(y) /\ Items(y) = Append(Items(x), v)  BY <1>1, <1>2, PushedIs
<1>4. rc[v] > 0  BY HeldLive DEF push
<1>5. /\ fault' = fault /\ rc' \in [Elem -> Nat]
      /\ \A w \in Elem : rc'[w] = rc[w] + One(v, w)
  BY <1>4, DupOne DEF push
<1>6. held' = held /\ walk' = walk /\ Update(l, y)  BY <1>1 DEF push, Keep
<1>7. ASSUME NEW w \in Elem
      PROVE  rc'[w] - held'[w] = rc[w] - held[w]
                - Occurs(w, Items(lists[l])) + Occurs(w, Items(y))
  <2>1. PICK s : s = Items(x)  OBVIOUS
  <2>2. s \in Seq(Item) /\ v \in Item  BY <1>2, <2>1, SolidHas DEF Item
  <2>3. Occurs(w, Append(s, v)) = Occurs(w, s) + One(v, w) /\ Occurs(w, s) \in Nat
    BY <2>2, OccursAppend, OccursNat
  <2>4. rc[w] \in Nat /\ held[w] \in Nat /\ One(v, w) \in Nat  BY Numbers DEF One
  <2>5. QED  BY <1>1, <1>3, <1>5, <1>6, <2>1, <2>3, <2>4
<1>8. held' \in [Elem -> 0 .. MaxHeld]  BY <1>6 DEF ListInv
<1>9. Usable(l)  BY DEF push
<1>10. QED  BY <1>3, <1>5, <1>6, <1>7, <1>8, <1>9, Changed

\* The last item, and then the others.
LEMMA PopKeeps ==
  ASSUME ListInv, NEW l, pop(l)
  PROVE  ListInv'
<1>1. PICK x, y, v : x = lists[l] /\ y = Popped(x) /\ v = x.buf[x.len]  OBVIOUS
<1>2. l \in DOMAIN lists /\ Solid(x) /\ x.len > 0  BY <1>1 DEF pop, Usable, ListInv, Shapes
<1>3. Solid(y) /\ Items(y) = SubSeq(Items(x), 1, x.len - 1)  BY <1>1, <1>2, PoppedIs
<1>4. PICK s : s = Items(x)  OBVIOUS
<1>5. s \in Seq(Item) /\ Len(s) = x.len /\ s[x.len] = v /\ v \in Elem
  <2>1. x.len \in 1 .. x.len  BY <1>2, SolidHas
  <2>2. QED  BY <1>1, <1>2, <1>4, <2>1, SolidHas DEF Solid
<1>6. /\ held' \in [Elem -> 0 .. MaxHeld]
      /\ \A w \in Elem : held'[w] = held[w] + One(v, w)
  BY <1>1, <1>5, HoldIs DEF pop
<1>7. rc' = rc /\ fault' = fault /\ walk' = walk /\ Update(l, y)  BY <1>1 DEF pop, Uncounted
<1>8. ASSUME NEW w \in Elem
      PROVE  rc'[w] - held'[w] = rc[w] - held[w]
                - Occurs(w, Items(lists[l])) + Occurs(w, Items(y))
  <2>1. Occurs(w, s) = Occurs(w, SubSeq(s, 1, Len(s) - 1)) + One(s[Len(s)], w)
    BY <1>2, <1>5, OccursFront
  <2>2. Occurs(w, s) \in Nat  BY <1>5, OccursNat
  <2>3. Occurs(w, Items(y)) \in Nat
    <3>1. PICK t : t = Items(y)  OBVIOUS
    <3>2. t \in Seq(Item)  BY <1>3, <3>1, SolidHas
    <3>3. QED  BY <3>1, <3>2, OccursNat
  <2>4. rc[w] \in Nat /\ held[w] \in Nat /\ One(v, w) \in Nat  BY Numbers DEF One
  <2>5. Occurs(w, s) = Occurs(w, Items(y)) + One(v, w)  BY <1>3, <1>4, <1>5, <2>1
  <2>6. QED  BY <1>1, <1>4, <1>6, <1>7, <2>2, <2>3, <2>4, <2>5
<1>9. rc' \in [Elem -> Nat]  BY <1>7 DEF ListInv
<1>10. Usable(l)  BY DEF pop
<1>11. QED  BY <1>3, <1>6, <1>7, <1>8, <1>9, <1>10, Changed

\* The first item, and then the others.
LEMMA ShiftKeeps ==
  ASSUME ListInv, NEW l, shift(l)
  PROVE  ListInv'
<1>1. PICK x, y, v : x = lists[l] /\ y = Shifted(x) /\ v = x.buf[1]  OBVIOUS
<1>2. l \in DOMAIN lists /\ Solid(x) /\ x.len > 0  BY <1>1 DEF shift, Usable, ListInv, Shapes
<1>3. Solid(y) /\ Items(y) = Tail(Items(x))  BY <1>1, <1>2, ShiftedIs
<1>4. PICK s : s = Items(x)  OBVIOUS
<1>5. s \in Seq(Item) /\ Len(s) = x.len /\ s[1] = v /\ v \in Elem
  <2>1. 1 \in 1 .. x.len  BY <1>2, SolidHas
  <2>2. QED  BY <1>1, <1>2, <1>4, <2>1, SolidHas DEF Solid
<1>6. /\ held' \in [Elem -> 0 .. MaxHeld]
      /\ \A w \in Elem : held'[w] = held[w] + One(v, w)
  BY <1>1, <1>5, HoldIs DEF shift
<1>7. rc' = rc /\ fault' = fault /\ walk' = walk /\ Update(l, y)  BY <1>1 DEF shift, Uncounted
<1>8. ASSUME NEW w \in Elem
      PROVE  rc'[w] - held'[w] = rc[w] - held[w]
                - Occurs(w, Items(lists[l])) + Occurs(w, Items(y))
  <2>1. Occurs(w, s) = Occurs(w, Tail(s)) + One(s[1], w)
    BY <1>2, <1>5, OccursTail
  <2>2. Occurs(w, s) \in Nat  BY <1>5, OccursNat
  <2>3. Occurs(w, Items(y)) \in Nat
    <3>1. PICK t : t = Items(y)  OBVIOUS
    <3>2. t \in Seq(Item)  BY <1>3, <3>1, SolidHas
    <3>3. QED  BY <3>1, <3>2, OccursNat
  <2>4. rc[w] \in Nat /\ held[w] \in Nat /\ One(v, w) \in Nat  BY Numbers DEF One
  <2>5. Occurs(w, s) = Occurs(w, Items(y)) + One(v, w)  BY <1>3, <1>4, <1>5, <2>1
  <2>6. QED  BY <1>1, <1>4, <1>6, <1>7, <2>2, <2>3, <2>4, <2>5
<1>9. rc' \in [Elem -> Nat]  BY <1>7 DEF ListInv
<1>10. Usable(l)  BY DEF shift
<1>11. QED  BY <1>3, <1>6, <1>7, <1>8, <1>9, <1>10, Changed

\* get.
LEMMA GetKeeps ==
  ASSUME ListInv, NEW l, NEW i \in Nat, get(l, i)
  PROVE  ListInv'
<1>1. PICK v : v = lists[l].buf[i + 1]  OBVIOUS
<1>2. v \in Elem /\ rc[v] > 0
  <2>1. l \in DOMAIN lists /\ i < lists[l].len  BY DEF get, Usable
  <2>2. lists[l].len \in Nat  BY <2>1, LenProperties DEF ListInv, Shapes, Solid
  <2>3. i + 1 \in 1 .. lists[l].len  BY <2>1, <2>2
  <2>4. QED  BY <1>1, <2>1, <2>3, InAList
<1>3. /\ held' \in [Elem -> 0 .. MaxHeld]
      /\ \A w \in Elem : held'[w] = held[w] + One(v, w)
  BY <1>1, <1>2, HoldIs DEF get
<1>4. /\ fault' = fault /\ rc' \in [Elem -> Nat]
      /\ \A w \in Elem : rc'[w] = rc[w] + One(v, w)
  BY <1>1, <1>2, DupOne DEF get
<1>5. lists' = lists /\ walk' = walk  BY DEF get
<1>6. \A w \in Elem : /\ rc[w] \in Nat /\ held[w] \in Nat /\ Lends(walk, w) \in Nat
                      /\ One(v, w) \in Nat
  BY Numbers DEF One
<1>7. \A w \in Elem : rc'[w] - held'[w] - Lends(walk, w) = rc[w] - held[w] - Lends(walk, w)
  BY <1>3, <1>4, <1>6
<1>8. WalkOK(walk, lists) /\ Following(walk, lists) /\ FaultOK(fault, walk)  BY DEF ListInv
<1>9. QED  BY <1>3, <1>4, <1>5, <1>6, <1>7, <1>8, Kept

\* set.
LEMMA SetKeeps ==
  ASSUME ListInv, NEW l, NEW i \in Nat, NEW v \in Elem, set(l, i, v)
  PROVE  ListInv'
<1>1. PICK x, y, u : /\ x = lists[l] /\ y = Buffer([x.buf EXCEPT ![i + 1] = v], x.len)
                     /\ u = x.buf[i + 1]
  OBVIOUS
<1>2. l \in DOMAIN lists /\ Solid(x) /\ i < x.len  BY <1>1 DEF set, Usable, ListInv, Shapes
<1>3. i + 1 \in 1 .. x.len  BY <1>2, SolidHas
<1>4. Solid(y) /\ Items(y) = [Items(x) EXCEPT ![i + 1] = v]  BY <1>1, <1>2, <1>3, SetIs
<1>5. u \in Elem /\ rc[u] > 0  BY <1>1, <1>2, <1>3, InAList
<1>6. rc[v] > 0  BY HeldLive DEF set
<1>7. /\ fault' = fault /\ rc' \in [Elem -> Nat]
      /\ \A w \in Elem : rc'[w] = rc[w] + One(v, w) - One(u, w)
  BY <1>1, <1>5, <1>6, Exchange DEF set, Replace
<1>8. held' = held /\ walk' = walk /\ Update(l, y)  BY <1>1 DEF set, Keep
<1>9. ASSUME NEW w \in Elem
      PROVE  rc'[w] - held'[w] = rc[w] - held[w]
                - Occurs(w, Items(lists[l])) + Occurs(w, Items(y))
  <2>1. PICK s : s = Items(x)  OBVIOUS
  <2>2. s \in Seq(Item) /\ v \in Item /\ i + 1 \in 1 .. Len(s) /\ s[i + 1] = u
    BY <1>1, <1>2, <1>3, <2>1, SolidHas DEF Item
  <2>3. PICK j : j = i + 1  OBVIOUS
  <2>4. /\ Occurs(w, [s EXCEPT ![j] = v]) = Occurs(w, s) + One(v, w) - One(s[j], w)
        /\ Occurs(w, s) \in Nat
    <3>1. j \in 1 .. Len(s)  BY <2>2, <2>3
    <3>2. Occurs(w, [s EXCEPT ![j] = v]) = Occurs(w, s) + One(v, w) - One(s[j], w)
      BY <2>2, <3>1, OccursExcept
    <3>3. QED  BY <2>2, <3>2, OccursNat
  <2>5. rc[w] \in Nat /\ held[w] \in Nat /\ One(v, w) \in Nat /\ One(u, w) \in Nat
    BY Numbers DEF One
  <2>6. Occurs(w, Items(y)) = Occurs(w, s) + One(v, w) - One(u, w)
    BY <1>4, <2>1, <2>2, <2>3, <2>4
  <2>7. QED  BY <1>1, <1>7, <1>8, <2>1, <2>4, <2>5, <2>6
<1>10. held' \in [Elem -> 0 .. MaxHeld]  BY <1>8 DEF ListInv
<1>11. Usable(l)  BY DEF set
<1>12. QED  BY <1>4, <1>7, <1>8, <1>9, <1>10, <1>11, Changed

\* reverse and sort_by.
LEMMA OrderKeeps ==
  ASSUME ListInv, NEW l, order(l)
  PROVE  ListInv'
<1>1. PICK x : x = lists[l]  OBVIOUS
<1>2. l \in DOMAIN lists /\ Solid(x)  BY <1>1 DEF order, Usable, ListInv, Shapes
<1>3. PICK items \in Orders(Items(x)) : Update(l, Buffer(items \o Past(x), x.len))
  BY <1>1 DEF order
<1>4. PICK y : y = Buffer(items \o Past(x), x.len)  OBVIOUS
<1>5. /\ Solid(y) /\ Items(y) = items
      /\ \A w : Occurs(w, items) = Occurs(w, Items(x))
  BY <1>2, <1>4, OrderedIs
<1>6. /\ held' = held /\ walk' = walk /\ Update(l, y) /\ rc' = rc /\ fault' = fault
  BY <1>3, <1>4 DEF order, Keep, Uncounted
<1>7. ASSUME NEW w \in Elem
      PROVE  rc'[w] - held'[w] = rc[w] - held[w]
                - Occurs(w, Items(lists[l])) + Occurs(w, Items(y))
  <2>1. Occurs(w, Items(lists[l])) \in Nat  BY <1>2, ItemsCounted
  <2>2. rc[w] \in Nat /\ held[w] \in Nat  BY Numbers
  <2>3. Occurs(w, Items(y)) = Occurs(w, Items(lists[l]))  BY <1>1, <1>5
  <2>4. QED  BY <1>6, <2>1, <2>2, <2>3
<1>8. held' \in [Elem -> 0 .. MaxHeld] /\ rc' \in [Elem -> Nat]  BY <1>6 DEF ListInv
<1>9. Usable(l)  BY DEF order
<1>10. QED  BY <1>5, <1>6, <1>7, <1>8, <1>9, Changed

\* Every item of a list is dropped.
LEMMA DropItems ==
  ASSUME ListInv, NEW l, l \in DOMAIN lists, Counted(<< >>, Items(lists[l]))
  PROVE  /\ fault' = fault /\ rc' \in [Elem -> Nat]
         /\ \A w \in Elem : rc'[w] = rc[w] - Occurs(w, Items(lists[l]))
<1>1. PICK d, e : d = << >> /\ e = Items(lists[l])  OBVIOUS
<1>2. d \in Seq(Item) /\ e \in Seq(Item)
  <2>1. PICK x : x = lists[l]  OBVIOUS
  <2>2. Solid(x)  BY <2>1 DEF ListInv, Shapes
  <2>3. QED  BY <1>1, <2>1, <2>2, SolidHas
<1>3. \A w : Occurs(w, d) = 0  BY <1>1, OccursFew
<1>4. \A w \in Elem : /\ rc[w] \in Nat /\ Occurs(w, e) \in Nat /\ Occurs(w, e) <= rc[w]
  <2> SUFFICES ASSUME NEW w \in Elem
               PROVE  rc[w] \in Nat /\ Occurs(w, e) \in Nat /\ Occurs(w, e) <= rc[w]
    OBVIOUS
  <2>1. Occurs(w, e) \in Nat /\ Occurs(w, e) <= Cardinality(Own(lists, w))
    BY <1>1, ItemsCounted
  <2>2. QED  BY <2>1, Numbers
<1>5. \A w \in Elem : /\ Occurs(w, d) > 0 => rc[w] > 0
                      /\ Occurs(w, e) <= rc[w] + Occurs(w, d)
  BY <1>3, <1>4
<1>6. Counted(d, e)  BY <1>1
<1>7. /\ fault' = fault /\ rc' \in [Elem -> Nat]
      /\ \A w \in Elem : rc'[w] = rc[w] + Occurs(w, d) - Occurs(w, e)
  BY <1>2, <1>5, <1>6, CountedIs
<1>8. \A w \in Elem : rc'[w] = rc[w] - Occurs(w, e)  BY <1>3, <1>4, <1>7
<1>9. QED  BY <1>1, <1>7, <1>8

\* Every one of these items, which are in lists, gets one more reference.
LEMMA DupItems ==
  ASSUME ListInv, NEW s \in Seq(Elem), Counted(s, << >>),
         \A v \in Elem : Occurs(v, s) > 0 => rc[v] > 0
  PROVE  /\ fault' = fault /\ rc' \in [Elem -> Nat]
         /\ \A w \in Elem : rc'[w] = rc[w] + Occurs(w, s)
<1>1. PICK e : e = << >>  OBVIOUS
<1>2. s \in Seq(Item) /\ e \in Seq(Item)  BY <1>1, SeqMonotonic DEF Item
<1>3. \A w : Occurs(w, e) = 0  BY <1>1, OccursFew
<1>4. \A w \in Elem : rc[w] \in Nat /\ Occurs(w, s) \in Nat  BY <1>2, OccursNat, Numbers
<1>5. \A w \in Elem : /\ Occurs(w, s) > 0 => rc[w] > 0
                      /\ Occurs(w, e) <= rc[w] + Occurs(w, s)
  BY <1>3, <1>4
<1>6. Counted(s, e)  BY <1>1
<1>7. /\ fault' = fault /\ rc' \in [Elem -> Nat]
      /\ \A w \in Elem : rc'[w] = rc[w] + Occurs(w, s) - Occurs(w, e)
  BY <1>2, <1>5, <1>6, CountedIs
<1>8. QED  BY <1>3, <1>4, <1>7

\* An item of a list is allocated.
LEMMA ItemsLive ==
  ASSUME ListInv, NEW m, m \in DOMAIN lists, NEW v \in Elem,
         Occurs(v, Items(lists[m])) > 0
  PROVE  rc[v] > 0
<1>1. /\ Occurs(v, Items(lists[m])) \in Nat
      /\ Occurs(v, Items(lists[m])) <= Cardinality(Own(lists, v))
  BY ItemsCounted
<1>2. QED  BY <1>1, Numbers

\* clear.
LEMMA ClearKeeps ==
  ASSUME ListInv, NEW l, clear(l)
  PROVE  ListInv'
<1>1. PICK x, y : x = lists[l] /\ y = Cleared(x)  OBVIOUS
<1>2. l \in DOMAIN lists /\ Solid(x)  BY <1>1 DEF clear, Usable, ListInv, Shapes
<1>3. Solid(y) /\ Items(y) = << >>  BY <1>1, <1>2, ClearedIs
<1>4. /\ fault' = fault /\ rc' \in [Elem -> Nat]
      /\ \A w \in Elem : rc'[w] = rc[w] - Occurs(w, Items(lists[l]))
  BY <1>2, DropItems DEF clear
<1>5. held' = held /\ walk' = walk /\ Update(l, y)  BY <1>1 DEF clear, Keep
<1>6. ASSUME NEW w \in Elem
      PROVE  rc'[w] - held'[w] = rc[w] - held[w]
                - Occurs(w, Items(lists[l])) + Occurs(w, Items(y))
  <2>1. Occurs(w, Items(lists[l])) \in Nat  BY <1>2, ItemsCounted
  <2>2. rc[w] \in Nat /\ held[w] \in Nat  BY Numbers
  <2>3. Occurs(w, Items(y)) = 0  BY <1>3, OccursFew
  <2>4. QED  BY <1>4, <1>5, <2>1, <2>2, <2>3
<1>7. held' \in [Elem -> 0 .. MaxHeld]  BY <1>5 DEF ListInv
<1>8. Usable(l)  BY DEF clear
<1>9. QED  BY <1>3, <1>4, <1>5, <1>6, <1>7, <1>8, Changed

\* extend.
LEMMA ExtendKeeps ==
  ASSUME ListInv, NEW l, NEW m, extend(l, m)
  PROVE  ListInv'
<1>1. PICK x, s, y : x = lists[l] /\ s = Items(lists[m]) /\ y = Extended(x, s)  OBVIOUS
<1>2. l \in DOMAIN lists /\ Solid(x)  BY <1>1 DEF extend, Usable, ListInv, Shapes
<1>3. m \in DOMAIN lists /\ s \in Seq(Elem) /\ s \in Seq(Item)
  <2>1. PICK z : z = lists[m]  OBVIOUS
  <2>2. m \in DOMAIN lists /\ Solid(z)  BY <2>1 DEF extend, ListInv, Shapes
  <2>3. QED  BY <1>1, <2>1, <2>2, SolidHas
<1>4. Solid(y) /\ Items(y) = Items(x) \o s  BY <1>1, <1>2, <1>3, ExtendedIs
<1>5. Counted(s, << >>)  BY <1>1 DEF extend
<1>6. \A w \in Elem : Occurs(w, s) > 0 => rc[w] > 0  BY <1>1, <1>3, ItemsLive
<1>7. /\ fault' = fault /\ rc' \in [Elem -> Nat]
      /\ \A w \in Elem : rc'[w] = rc[w] + Occurs(w, s)
  BY <1>3, <1>5, <1>6, DupItems
<1>8. held' = held /\ walk' = walk /\ Update(l, y)  BY <1>1 DEF extend, Keep
<1>9. ASSUME NEW w \in Elem
      PROVE  rc'[w] - held'[w] = rc[w] - held[w]
                - Occurs(w, Items(lists[l])) + Occurs(w, Items(y))
  <2>1. PICK t : t = Items(x)  OBVIOUS
  <2>2. t \in Seq(Item)  BY <1>2, <2>1, SolidHas
  <2>3. Occurs(w, t \o s) = Occurs(w, t) + Occurs(w, s)  BY <1>3, <2>2, OccursConcat
  <2>4. Occurs(w, t) \in Nat /\ Occurs(w, s) \in Nat  BY <1>3, <2>2, OccursNat
  <2>5. rc[w] \in Nat /\ held[w] \in Nat  BY Numbers
  <2>6. Occurs(w, Items(y)) = Occurs(w, t) + Occurs(w, s)  BY <1>4, <2>1, <2>3
  <2>7. QED  BY <1>1, <1>7, <1>8, <2>1, <2>4, <2>5, <2>6
<1>10. held' \in [Elem -> 0 .. MaxHeld]  BY <1>8 DEF ListInv
<1>11. Usable(l)  BY DEF extend
<1>12. QED  BY <1>4, <1>7, <1>8, <1>9, <1>10, <1>11, Changed

\* A list of allocated elements is made.
LEMMA MakeKeeps ==
  ASSUME ListInv, NEW l, NEW items \in Seq(Elem), make(l, items),
         \A v \in Elem : Occurs(v, items) > 0 => rc[v] > 0
  PROVE  ListInv'
<1>1. PICK y : y = Buffer(items, Len(items))  OBVIOUS
<1>2. Solid(y) /\ Items(y) = items  BY <1>1, MadeExact
<1>3. /\ fault' = fault /\ rc' \in [Elem -> Nat]
      /\ \A w \in Elem : rc'[w] = rc[w] + Occurs(w, items)
  BY DupItems DEF make
<1>4. /\ l \in ListId \ DOMAIN lists /\ With(l, y) /\ held' = held /\ walk' = walk
      /\ walk = Idle /\ fault = "none"
  BY <1>1 DEF make, Keep, Walking
<1>5. ASSUME NEW w \in Elem
      PROVE  rc'[w] - held'[w] = rc[w] - held[w] - Lends(walk, w) + Occurs(w, Items(y))
  <2>1. items \in Seq(Item)  BY SeqMonotonic DEF Item
  <2>2. Occurs(w, items) \in Nat  BY <2>1, OccursNat
  <2>3. rc[w] \in Nat /\ held[w] \in Nat  BY Numbers
  <2>4. Lends(walk, w) = 0  BY <1>4 DEF Lends
  <2>5. QED  BY <1>2, <1>3, <1>4, <2>2, <2>3, <2>4
<1>6. held' \in [Elem -> 0 .. MaxHeld]  BY <1>4 DEF ListInv
<1>7. QED  BY <1>2, <1>3, <1>4, <1>5, <1>6, Added

\* slice and list_clone.
LEMMA SliceKeeps ==
  ASSUME ListInv, NEW l, NEW m, NEW s \in Nat, NEW e \in Nat, slice(l, m, s, e),
         s <= e, e <= lists[m].len
  PROVE  ListInv'
<1>1. PICK x, t, u : x = lists[m] /\ t = Items(x) /\ u = SubSeq(t, s + 1, e)  OBVIOUS
<1>2. m \in DOMAIN lists /\ Solid(x)  BY <1>1 DEF slice, ListInv, Shapes
<1>3. t \in Seq(Elem) /\ Len(t) = x.len  BY <1>1, <1>2, SolidHas
<1>4. \A i \in s + 1 .. e : i \in 1 .. Len(t) /\ t[i] \in Elem
  <2>1. \A i \in s + 1 .. e : i \in 1 .. Len(t)  BY <1>1, <1>2, <1>3, SolidHas
  <2>2. QED  BY <1>3, <2>1, ElementOfSeq
<1>5. u \in Seq(Elem) /\ \A i \in 1 .. Len(u) : s + i \in 1 .. Len(t) /\ u[i] = t[s + i]
  <2>1. s + 1 \in Int /\ e \in Int  OBVIOUS
  <2>2. /\ u \in Seq(Elem)
        /\ Len(u) = IF s + 1 <= e THEN e - (s + 1) + 1 ELSE 0
        /\ \A i \in 1 .. e - (s + 1) + 1 : u[i] = t[s + 1 + i - 1]
    BY <1>1, <1>4, <2>1, SubSeqProperties
  <2>3. \A i \in 1 .. Len(u) : /\ i \in 1 .. e - (s + 1) + 1 /\ s + 1 + i - 1 = s + i
                               /\ s + i \in s + 1 .. e
    BY <2>2
  <2>4. QED  BY <1>4, <2>2, <2>3
<1>6. ASSUME NEW v \in Elem, Occurs(v, u) > 0 PROVE rc[v] > 0
  <2>1. u \in Seq(Item) /\ t \in Seq(Item)  BY <1>3, <1>5, SeqMonotonic DEF Item
  <2>2. Occurs(v, u) # 0  BY <1>6
  <2>3. ~ \A i \in 1 .. Len(u) : u[i] # v  BY <2>1, <2>2, OccursNat
  <2>4. ~ \A i \in 1 .. Len(t) : t[i] # v  BY <1>5, <2>3
  <2>5. Occurs(v, t) \in Nat /\ Occurs(v, t) # 0  BY <2>1, <2>4, OccursNat
  <2>6. QED  BY <1>1, <1>2, <2>5, ItemsLive
<1>7. make(l, u)  BY <1>1 DEF slice
<1>8. QED  BY <1>5, <1>6, <1>7, MakeKeeps

\* concat.
LEMMA ConcatKeeps ==
  ASSUME ListInv, NEW l, NEW m, NEW n, concat(l, m, n)
  PROVE  ListInv'
<1>1. PICK x, y, s, t : /\ x = lists[m] /\ y = lists[n]
                        /\ s = Items(x) /\ t = Items(y)
  OBVIOUS
<1>2. m \in DOMAIN lists /\ n \in DOMAIN lists /\ Solid(x) /\ Solid(y)
  BY <1>1 DEF concat, ListInv, Shapes
<1>3. s \in Seq(Elem) /\ t \in Seq(Elem) /\ s \in Seq(Item) /\ t \in Seq(Item)
  BY <1>1, <1>2, SolidHas
<1>4. PICK u : u = s \o t  OBVIOUS
<1>5. u \in Seq(Elem)  BY <1>3, <1>4, ConcatProperties
<1>6. ASSUME NEW v \in Elem, Occurs(v, u) > 0 PROVE rc[v] > 0
  <2>1. Occurs(v, s \o t) = Occurs(v, s) + Occurs(v, t)  BY <1>3, OccursConcat
  <2>2. Occurs(v, s) \in Nat /\ Occurs(v, t) \in Nat  BY <1>3, OccursNat
  <2>3. Occurs(v, s) > 0 \/ Occurs(v, t) > 0  BY <1>4, <1>6, <2>1, <2>2
  <2>4. QED  BY <1>1, <1>2, <2>3, ItemsLive
<1>7. make(l, u)  BY <1>1, <1>4 DEF concat
<1>8. QED  BY <1>5, <1>6, <1>7, MakeKeeps

\* drop_list.
LEMMA DropKeeps ==
  ASSUME ListInv, NEW l, drop_list(l)
  PROVE  ListInv'
<1>1. PICK ls, ks : ls = lists /\ ks = Less(ls, l)  OBVIOUS
<1>2. /\ lists' = ks /\ l \in DOMAIN ls /\ Shapes(ls) /\ Solid(ls[l])
      /\ walk = Idle /\ walk' = Idle /\ held' = held /\ fault = "none"
  BY <1>1 DEF drop_list, Usable, Walking, ListInv, Less, Keep, Shapes
<1>3. /\ DOMAIN ks = DOMAIN ls \ {l} /\ ks = [m \in DOMAIN ks |-> ks[m]]
      /\ \A m \in DOMAIN ks : ks[m] = ls[m]
  BY <1>1 DEF Less
<1>4. Shapes(ks)  BY <1>2, <1>3 DEF Shapes
<1>5. /\ fault' = fault /\ rc' \in [Elem -> Nat]
      /\ \A w \in Elem : rc'[w] = rc[w] - Occurs(w, Items(ls[l]))
  BY <1>1, <1>2, DropItems DEF drop_list
<1>6. ASSUME NEW v \in Elem
      PROVE  /\ IsFiniteSet(Own(ks, v))
             /\ rc'[v] = held[v] + Cardinality(Own(ks, v)) + 0
  <2>1. /\ IsFiniteSet(Own(ls, v)) /\ rc[v] \in Nat /\ held[v] \in Nat
        /\ Cardinality(Own(ls, v)) \in Nat
        /\ rc[v] = held[v] + Cardinality(Own(ls, v)) + Lends(walk, v)
    BY <1>1, Numbers
  <2>2. /\ IsFiniteSet(Own(ks, v))
        /\ Cardinality(Own(ks, v)) = Cardinality(Own(ls, v)) - Occurs(v, Items(ls[l]))
    BY <1>1, <1>2, <2>1, OwnDropped
  <2>3. Occurs(v, Items(ls[l])) \in Nat  BY <1>1, <1>2, ItemsCounted
  <2>4. Lends(walk, v) = 0  BY <1>2 DEF Lends
  <2>5. QED  BY <1>5, <2>1, <2>2, <2>3, <2>4
<1>7. Tally(ks, rc', held, Idle)  BY <1>6 DEF Tally, Lends
<1>8. WalkOK(Idle, ks) /\ Following(Idle, ks) /\ FaultOK("none", Idle)
  BY DEF WalkOK, Following, FaultOK
<1>9. held \in [Elem -> 0 .. MaxHeld]  BY DEF ListInv
<1>10. QED  BY <1>2, <1>4, <1>5, <1>7, <1>8, <1>9 DEF ListInv

-----------------------------------------------------------------------------
(* Every step of a walk keeps the invariant.                               *)

\* What was picked stays picked, and the next item can be.
LEMMA PickedSkip ==
  ASSUME NEW y, NEW x, NEW i \in Nat, Picked(y, x, i)
  PROVE  Picked(y, x, i + 1)
<1>1. PICK f \in [1 .. y.len -> 1 .. i] :
        /\ \A j, k \in 1 .. y.len : j < k => f[j] < f[k]
        /\ \A k \in 1 .. y.len : Items(y)[k] = Items(x)[f[k]]
  BY DEF Picked
<1>2. f \in [1 .. y.len -> 1 .. i + 1]  OBVIOUS
<1>3. QED  BY <1>1, <1>2 DEF Picked

\* And the next item of x is in its place at the end.
LEMMA PickedMore ==
  ASSUME NEW y, Solid(y), NEW x, Solid(x), NEW i \in Nat, i < x.len, Picked(y, x, i),
         NEW z, Solid(z), Items(z) = Append(Items(y), Items(x)[i + 1])
  PROVE  Picked(z, x, i + 1)
<1>1. PICK f \in [1 .. y.len -> 1 .. i] :
        /\ \A j, k \in 1 .. y.len : j < k => f[j] < f[k]
        /\ \A k \in 1 .. y.len : Items(y)[k] = Items(x)[f[k]]
  BY DEF Picked
<1>2. PICK n, s, e : n = y.len /\ s = Items(y) /\ e = Items(x)[i + 1]  OBVIOUS
<1>3. n \in Nat /\ s \in Seq(Elem) /\ Len(s) = n  BY <1>2, SolidHas
<1>4. e \in Elem
  <2>1. i + 1 \in 1 .. x.len  BY SolidHas
  <2>2. QED  BY <1>2, <2>1, SolidHas DEF Solid
<1>5. /\ z.len = n + 1 /\ Items(z)[n + 1] = e
      /\ \A k \in 1 .. n : Items(z)[k] = s[k]
  <2>1. /\ Len(Append(s, e)) = n + 1 /\ Append(s, e)[n + 1] = e
        /\ \A k \in 1 .. n : Append(s, e)[k] = s[k]
    BY <1>3, <1>4, AppendProperties
  <2>2. Items(z) = Append(s, e) /\ Len(Items(z)) = z.len  BY <1>2, SolidHas
  <2>3. QED  BY <2>1, <2>2
<1> DEFINE g == [k \in 1 .. n + 1 |-> IF k <= n THEN f[k] ELSE i + 1]
<1>6. /\ \A k \in 1 .. n : g[k] = f[k] /\ f[k] \in 1 .. i
      /\ g[n + 1] = i + 1 /\ g \in [1 .. n + 1 -> 1 .. i + 1]
  <2>1. /\ \A k \in 1 .. n : k \in 1 .. n + 1 /\ k <= n
        /\ n + 1 \in 1 .. n + 1 /\ ~(n + 1 <= n) /\ i + 1 \in 1 .. i + 1
        /\ \A k \in 1 .. i : k \in 1 .. i + 1
    BY <1>3
  <2>2. \A k \in 1 .. n : f[k] \in 1 .. i  BY <1>1, <1>2
  <2>3. \A k \in 1 .. n + 1 : k <= n => k \in 1 .. n  BY <1>3
  <2>4. QED  BY <2>1, <2>2, <2>3
<1>7. \A k \in 1 .. n + 1 : k \in 1 .. n \/ k = n + 1  BY <1>3
<1> HIDE DEF g
<1>8. \A j, k \in 1 .. n + 1 : j < k => g[j] < g[k]
  <2> SUFFICES ASSUME NEW j \in 1 .. n + 1, NEW k \in 1 .. n + 1, j < k PROVE g[j] < g[k]
    OBVIOUS
  <2>1. j \in 1 .. n  BY <1>3
  <2>2. g[j] = f[j] /\ g[j] \in 1 .. i  BY <1>6, <2>1
  <2>3. CASE k \in 1 .. n  BY <1>1, <1>2, <1>6, <2>1, <2>2, <2>3
  <2>4. CASE k = n + 1  BY <1>6, <2>2, <2>4
  <2>5. QED  BY <1>7, <2>3, <2>4
<1>9. \A k \in 1 .. n + 1 : Items(z)[k] = Items(x)[g[k]]
  <2> SUFFICES ASSUME NEW k \in 1 .. n + 1 PROVE Items(z)[k] = Items(x)[g[k]]  OBVIOUS
  <2>1. CASE k \in 1 .. n  BY <1>1, <1>2, <1>5, <1>6, <2>1
  <2>2. CASE k = n + 1  BY <1>2, <1>5, <1>6, <2>2
  <2>3. QED  BY <1>7, <2>1, <2>2
<1>10. QED  BY <1>5, <1>6, <1>8, <1>9 DEF Picked

\* A walk has a kind, so it is not Idle.
LEMMA WalksNotIdle ==
  ASSUME NEW w, w.kind \in Walks
  PROVE  w # Idle
BY ListAssumption DEF Idle

\* Nothing begins with references of its own.
LEMMA BeginKeeps ==
  ASSUME ListInv, NEW kind \in Walks, NEW l \in ListId, Begin(kind, l)
  PROVE  ListInv'
<1>1. PICK n, out : /\ n = lists[l].len
                    /\ out = IF kind = "map" THEN Buffer(Slots(n), 0) ELSE Empty
  OBVIOUS
<1>2. PICK w : w = [kind |-> kind, l |-> l, i |-> 0, call |-> FALSE, elem |-> Null,
                    out |-> out]
  OBVIOUS
<1>3. /\ walk' = w /\ l \in DOMAIN lists /\ walk = Idle /\ fault = "none"
      /\ lists' = lists /\ rc' = rc /\ held' = held /\ fault' = fault
  BY <1>1, <1>2 DEF Begin, Walking
<1>4. Solid(lists[l])  BY <1>3 DEF ListInv, Shapes
<1>5. n \in Nat
  <2>1. PICK x : x = lists[l]  OBVIOUS
  <2>2. QED  BY <1>1, <1>4, <2>1, SolidHas
<1>6. << >> \in Seq(Item) /\ Slots(n) \in Seq(Item) /\ Len(Slots(n)) = n
  BY <1>5, SlotsAre, EmptySeq
<1>7. PICK t : t = IF kind = "map" THEN Slots(n) ELSE << >>  OBVIOUS
<1>8. t \in Seq(Item) /\ out = Buffer(t, 0)  BY <1>1, <1>6, <1>7 DEF Empty
<1>9. Solid(out) /\ Items(out) = << >>  BY <1>8, Bare
<1>10. /\ out.buf = t /\ out.len = 0 /\ out = [buf |-> t, len |-> 0]
  BY <1>8 DEF Buffer
<1>11. /\ w.kind = kind /\ w.l = l /\ w.i = 0 /\ w.call = FALSE /\ w.elem = Null
       /\ w.out = out
  BY <1>2
<1>12. w \in Walker
  <2>1. out \in [buf : Seq(Item), len : Nat]  BY <1>8, <1>10
  <2>2. QED  BY <1>2, <2>1 DEF Walker, Item
<1>13. WalkOK(w, lists)
  <2>1. w.kind = "each" => w.out = Empty  BY <1>1, <1>11
  <2>2. QED  BY <1>3, <1>9, <1>10, <1>11, <1>12, <2>1 DEF WalkOK
<1>14. Following(w, lists)
  <2>1. Picked(out, lists[l], 0)
    <3> DEFINE f == [k \in 1 .. 0 |-> 1]
    <3>1. 1 .. 0 = {} /\ f \in [1 .. 0 -> 1 .. 0]  OBVIOUS
    <3> HIDE DEF f
    <3>2. \E g \in [1 .. 0 -> 1 .. 0] :
            /\ \A j, k \in 1 .. 0 : j < k => g[j] < g[k]
            /\ \A k \in 1 .. 0 : Items(out)[k] = Items(lists[l])[g[k]]
      BY <3>1
    <3>3. PICK m : m = out.len /\ m = 0  BY <1>10
    <3>4. \E g \in [1 .. m -> 1 .. 0] :
            /\ \A j, k \in 1 .. m : j < k => g[j] < g[k]
            /\ \A k \in 1 .. m : Items(out)[k] = Items(lists[l])[g[k]]
      BY <3>2, <3>3
    <3>5. QED  BY <3>3, <3>4 DEF Picked
  <2>2. kind = "map" => Len(out.buf) = lists[l].len  BY <1>1, <1>6, <1>7, <1>10
  <2>3. QED  BY <1>1, <1>5, <1>11, <2>1, <2>2 DEF Following
<1>15. FaultOK(fault, w)  BY <1>3 DEF FaultOK
<1>16. ASSUME NEW v \in Elem PROVE Lends(w, v) = 0 /\ Lends(walk, v) = 0
  <2>1. Occurs(v, <<Null>>) = 0
    <3>1. v # Null  BY ListAssumption
    <3>2. QED  BY <3>1, OccursFew DEF One
  <2>2. Occurs(v, << >>) = 0  BY OccursFew
  <2>3. Lends(w, v) = 0  BY <1>9, <1>11, <2>1, <2>2 DEF Lends
  <2>4. QED  BY <1>3, <2>3 DEF Lends
<1>17. ASSUME NEW v \in Elem
       PROVE  /\ Lends(walk', v) \in Nat
              /\ rc'[v] - held'[v] - Lends(walk', v) = rc[v] - held[v] - Lends(walk, v)
  BY <1>3, <1>16
<1>18. rc' \in [Elem -> Nat] /\ held' \in [Elem -> 0 .. MaxHeld]  BY <1>3 DEF ListInv
<1>19. QED  BY <1>3, <1>13, <1>14, <1>15, <1>17, <1>18, Kept

\* The fields of a walk that runs.
LEMMA WalkHas ==
  ASSUME ListInv, Walking
  PROVE  /\ walk # Idle /\ walk \in Walker /\ walk.l \in DOMAIN lists /\ walk.i \in Nat
         /\ Solid(walk.out) /\ Solid(lists[walk.l]) /\ lists[walk.l].len \in Nat
         /\ walk = [kind |-> walk.kind, l |-> walk.l, i |-> walk.i, call |-> walk.call,
                    elem |-> walk.elem, out |-> walk.out]
         /\ walk.kind \in {"each", "filter", "map"}
<1>1. walk # Idle /\ walk \in Walker /\ walk.l \in DOMAIN lists /\ Solid(walk.out)
  BY DEF ListInv, WalkOK, Walking
<1>2. Solid(lists[walk.l])  BY <1>1 DEF ListInv, Shapes
<1>3. lists[walk.l].len \in Nat
  <2>1. PICK x : x = lists[walk.l]  OBVIOUS
  <2>2. QED  BY <1>2, <2>1, SolidHas
<1>4. walk.i \in Nat /\ walk.kind \in {"each", "filter", "map"}
  BY <1>1, ListAssumption DEF Walker
<1>5. walk = [kind |-> walk.kind, l |-> walk.l, i |-> walk.i, call |-> walk.call,
              elem |-> walk.elem, out |-> walk.out]
  BY <1>1 DEF Walker
<1>6. QED  BY <1>1, <1>2, <1>3, <1>4, <1>5

\* Between two callbacks a walk has no element.
LEMMA LendsBetween ==
  ASSUME NEW w, w # Idle, w.elem = Null, NEW s, Items(w.out) = s, NEW v \in Elem
  PROVE  Lends(w, v) = 0 + Occurs(v, s)
<1>1. Occurs(v, <<Null>>) = 0
  <2>1. v # Null  BY ListAssumption
  <2>2. QED  BY <2>1, OccursFew DEF One
<1>2. QED  BY <1>1 DEF Lends

\* While its callback runs it has one.
LEMMA LendsDuring ==
  ASSUME NEW w, w # Idle, NEW e, w.elem = e, NEW s, Items(w.out) = s, NEW v \in Elem
  PROVE  Lends(w, v) = One(e, v) + Occurs(v, s)
BY OccursFew DEF Lends

\* Read.
LEMMA ReadKeeps ==
  ASSUME ListInv, Read
  PROVE  ListInv'
<1>1. PICK x, e, w : /\ x = lists[walk.l] /\ e = x.buf[walk.i + 1]
                     /\ w = [walk EXCEPT !.elem = e, !.call = TRUE]
  OBVIOUS
<1>2. /\ walk' = w /\ Counted(<<e>>, << >>) /\ lists' = lists /\ held' = held
      /\ walk.call = FALSE /\ Walking /\ fault = "none" /\ walk.i < x.len
  BY <1>1, WalkHas DEF Read, InRange, Walker
<1>3. /\ walk.l \in DOMAIN lists /\ Solid(x) /\ x.len \in Nat /\ walk.i \in Nat
      /\ walk \in Walker /\ Solid(walk.out) /\ walk # Idle
  BY <1>1, <1>2, WalkHas
<1>4. e \in Elem /\ rc[e] > 0
  <2>1. walk.i + 1 \in 1 .. x.len  BY <1>2, <1>3
  <2>2. QED  BY <1>1, <1>3, <2>1, InAList
<1>5. /\ fault' = fault /\ rc' \in [Elem -> Nat]
      /\ \A v \in Elem : rc'[v] = rc[v] + One(e, v)
  BY <1>2, <1>4, DupOne
<1>6. /\ w.kind = walk.kind /\ w.l = walk.l /\ w.i = walk.i /\ w.call = TRUE /\ w.elem = e
      /\ w.out = walk.out /\ w \in Walker /\ w # Idle
  <2>1. /\ w.kind = walk.kind /\ w.l = walk.l /\ w.i = walk.i /\ w.call = TRUE /\ w.elem = e
        /\ w.out = walk.out /\ w \in Walker
    BY <1>1, <1>3, <1>4 DEF Walker, Item
  <2>2. QED  BY <2>1, WalksNotIdle DEF Walker
<1>7. WalkOK(w, lists)
  <2>1. WalkOK(walk, lists)  BY DEF ListInv
  <2>2. QED  BY <1>3, <1>4, <1>6, <2>1 DEF WalkOK
<1>8. Following(w, lists)
  <2>1. Following(walk, lists)  BY DEF ListInv
  <2>2. QED  BY <1>1, <1>2, <1>3, <1>6, <2>1 DEF Following
<1>9. FaultOK(fault, w)  BY <1>2 DEF FaultOK
<1>10. ASSUME NEW v \in Elem
       PROVE  /\ Lends(walk', v) \in Nat
              /\ rc'[v] - held'[v] - Lends(walk', v) = rc[v] - held[v] - Lends(walk, v)
  <2>1. PICK s : s = Items(walk.out)  OBVIOUS
  <2>2. Lends(w, v) = One(e, v) + Occurs(v, s)
    <3>1. Items(w.out) = s  BY <1>6, <2>1
    <3>2. QED  BY <1>6, <3>1, LendsDuring
  <2>3. Lends(walk, v) = 0 + Occurs(v, s)
    <3>1. PICK u : u = walk  OBVIOUS
    <3>2. u # Idle /\ u.elem = Null /\ Items(u.out) = s
      BY <1>2, <1>3, <2>1, <3>1 DEF ListInv, WalkOK
    <3>3. QED  BY <3>1, <3>2, LendsBetween
  <2>4. Occurs(v, s) \in Nat
    <3>1. PICK y : y = walk.out  OBVIOUS
    <3>2. s \in Seq(Item)  BY <1>3, <2>1, <3>1, SolidHas
    <3>3. QED  BY <3>2, OccursNat
  <2>5. rc[v] \in Nat /\ held[v] \in Nat /\ One(e, v) \in Nat  BY Numbers DEF One
  <2>6. QED  BY <1>2, <1>5, <2>2, <2>3, <2>4, <2>5
<1>11. held' \in [Elem -> 0 .. MaxHeld]  BY <1>2 DEF ListInv
<1>12. QED  BY <1>2, <1>5, <1>7, <1>8, <1>9, <1>10, <1>11, Kept

\* Arithmetic: h is taken from both sides.
LEMMA SameLess ==
  ASSUME NEW a \in Nat, NEW b \in Nat, NEW h \in Nat, NEW o \in Nat, NEW p \in Nat,
         NEW q \in Nat, a - p = b - o - q
  PROVE  a - h - p = b - h - (o + q)
OBVIOUS

\* A callback has returned, and the walk goes on with this list.
LEMMA Advanced ==
  ASSUME ListInv, Calling, fault = "none", NEW out, Solid(out), Advance(out),
         lists' = lists, held' = held, fault' = fault, rc' \in [Elem -> Nat],
         walk.kind = "each" => out = Empty,
         walk.kind = "map" => out.len = walk.i + 1 /\ Len(out.buf) = Len(walk.out.buf),
         walk.kind \notin Changing /\ walk.kind # "each"
            => Picked(out, lists[walk.l], walk.i + 1),
         \A v \in Elem : rc'[v] - Occurs(v, Items(out))
                            = rc[v] - One(walk.elem, v) - Occurs(v, Items(walk.out))
  PROVE  ListInv'
<1>1. PICK w : w = [walk EXCEPT !.i = walk.i + 1, !.call = FALSE, !.elem = Null, !.out = out]
  OBVIOUS
<1>2. walk' = w  BY <1>1 DEF Advance
<1>3. /\ Walking /\ walk.call = TRUE /\ walk \in Walker /\ walk # Idle /\ Solid(walk.out)
      /\ walk.i \in Nat /\ lists[walk.l].len \in Nat /\ walk.l \in DOMAIN lists
  <2>1. Walking /\ walk.call  BY DEF Calling
  <2>2. QED  BY <2>1, WalkHas DEF Walker
<1>4. out \in [buf : Seq(Item), len : Nat]
  <2>1. /\ out = [buf |-> out.buf, len |-> out.len] /\ out.buf \in Seq(Item)
        /\ out.len \in Nat
    BY SolidHas DEF Solid, Buffer
  <2>2. QED  BY <2>1
<1>5. /\ w.kind = walk.kind /\ w.l = walk.l /\ w.i = walk.i + 1 /\ w.call = FALSE
      /\ w.elem = Null /\ w.out = out /\ w \in Walker /\ w # Idle
  <2>1. /\ w.kind = walk.kind /\ w.l = walk.l /\ w.i = walk.i + 1 /\ w.call = FALSE
        /\ w.elem = Null /\ w.out = out
    BY <1>1, <1>3 DEF Walker
  <2>2. w \in Walker
    <3>1. walk.i + 1 \in Nat /\ Null \in Item  BY <1>3 DEF Item
    <3>2. QED  BY <1>1, <1>3, <1>4, <3>1 DEF Walker
  <2>3. QED  BY <2>1, <2>2, WalksNotIdle DEF Walker
<1>6. WalkOK(w, lists)  BY <1>3, <1>5 DEF WalkOK
<1>7. Following(w, lists)
  <2>1. Following(walk, lists)  BY DEF ListInv
  <2>2. QED  BY <1>3, <1>5, <2>1 DEF Following
<1>8. FaultOK(fault, w)  BY DEF FaultOK
<1>9. ASSUME NEW v \in Elem
      PROVE  /\ Lends(walk', v) \in Nat
             /\ rc'[v] - held'[v] - Lends(walk', v) = rc[v] - held[v] - Lends(walk, v)
  <2>1. PICK s, t : s = Items(out) /\ t = Items(walk.out)  OBVIOUS
  <2>2. Lends(w, v) = 0 + Occurs(v, s)  BY <1>5, <2>1, LendsBetween
  <2>3. Lends(walk, v) = One(walk.elem, v) + Occurs(v, t)
    <3>1. PICK u, e : u = walk /\ e = walk.elem  OBVIOUS
    <3>2. u # Idle /\ u.elem = e /\ Items(u.out) = t  BY <1>3, <2>1, <3>1
    <3>3. QED  BY <3>1, <3>2, LendsDuring
  <2>4. Occurs(v, s) \in Nat /\ Occurs(v, t) \in Nat
    <3>1. PICK y : y = walk.out  OBVIOUS
    <3>2. s \in Seq(Item) /\ t \in Seq(Item)  BY <1>3, <2>1, <3>1, SolidHas
    <3>3. QED  BY <3>2, OccursNat
  <2>5. rc[v] \in Nat /\ held[v] \in Nat /\ One(walk.elem, v) \in Nat /\ rc'[v] \in Nat
    BY Numbers DEF One
  <2>6. rc'[v] - Occurs(v, s) = rc[v] - One(walk.elem, v) - Occurs(v, t)  BY <2>1
  <2>7. Lends(walk', v) = Lends(w, v) /\ held'[v] = held[v]  BY <1>2
  <2>8. PICK o, os, ot : o = One(walk.elem, v) /\ os = Occurs(v, s) /\ ot = Occurs(v, t)
    OBVIOUS
  <2>9. o \in Nat /\ os \in Nat /\ ot \in Nat /\ rc'[v] - os = rc[v] - o - ot
    BY <2>4, <2>5, <2>6, <2>8
  <2>10. Lends(walk', v) = os /\ Lends(walk, v) = o + ot
    BY <2>2, <2>3, <2>7, <2>8, <2>9
  <2>11. PICK a, b, h : a = rc'[v] /\ b = rc[v] /\ h = held[v]  OBVIOUS
  <2>12. a \in Nat /\ b \in Nat /\ h \in Nat /\ a - os = b - o - ot
    BY <2>5, <2>9, <2>11
  <2>13. a - h - os = b - h - (o + ot)  BY <2>9, <2>12, SameLess
  <2>14. rc'[v] - held'[v] - os = rc[v] - held[v] - (o + ot)  BY <2>7, <2>11, <2>13
  <2>15. QED  BY <2>9, <2>10, <2>14
<1>10. held' \in [Elem -> 0 .. MaxHeld]  BY DEF ListInv
<1>11. QED  BY <1>2, <1>6, <1>7, <1>8, <1>9, <1>10, Kept

\* The callback's element is dropped and nothing is gathered.
LEMMA SkipKeeps ==
  ASSUME ListInv, Calling, fault = "none", walk.kind # "map", Advance(walk.out),
         Counted(<< >>, <<walk.elem>>), lists' = lists, held' = held
  PROVE  ListInv'
<1>1. PICK e, out, x, i : /\ e = walk.elem /\ out = walk.out /\ x = lists[walk.l]
                          /\ i = walk.i
  OBVIOUS
<1>2. e \in Elem /\ rc[e] > 0 /\ Counted(<< >>, <<e>>)  BY <1>1, LentLive
<1>3. /\ fault' = fault /\ rc' \in [Elem -> Nat]
      /\ \A v \in Elem : rc'[v] = rc[v] - One(e, v)
  BY <1>2, DropOne
<1>4. Walking /\ walk # Idle /\ i \in Nat /\ Solid(out)
  BY <1>1, WalkHas DEF Calling
<1>5. walk.kind = "each" => out = Empty  BY <1>1, <1>4 DEF ListInv, WalkOK
<1>6. walk.kind \notin Changing /\ walk.kind # "each" => Picked(out, x, i)
  BY <1>1, <1>4 DEF ListInv, Following
<1>7. walk.kind \notin Changing /\ walk.kind # "each" => Picked(out, x, i + 1)
  BY <1>4, <1>6, PickedSkip
<1>8. ASSUME NEW v \in Elem
      PROVE  rc'[v] - Occurs(v, Items(out))
                = rc[v] - One(walk.elem, v) - Occurs(v, Items(walk.out))
  <2>1. PICK s : s = Items(out)  OBVIOUS
  <2>2. s \in Seq(Item)  BY <1>4, <2>1, SolidHas
  <2>3. Occurs(v, s) \in Nat  BY <2>2, OccursNat
  <2>4. rc[v] \in Nat /\ One(e, v) \in Nat  BY Numbers DEF One
  <2>5. QED  BY <1>1, <1>3, <2>1, <2>3, <2>4
<1>9. Advance(out)  BY <1>1
<1>10. QED  BY <1>1, <1>3, <1>4, <1>5, <1>7, <1>8, <1>9, Advanced

\* The walk over, what it gathered dropped: it gathered nothing.
LEMMA LeaveKeeps ==
  ASSUME ListInv, Calling, fault = "none", walk.kind = "each", walk' = Idle,
         Counted(<< >>, <<walk.elem>>), lists' = lists, held' = held
  PROVE  ListInv'
<1>1. PICK e : e = walk.elem  OBVIOUS
<1>2. e \in Elem /\ rc[e] > 0 /\ Counted(<< >>, <<e>>)  BY <1>1, LentLive
<1>3. /\ fault' = fault /\ rc' \in [Elem -> Nat]
      /\ \A v \in Elem : rc'[v] = rc[v] - One(e, v)
  BY <1>2, DropOne
<1>4. walk # Idle /\ walk.out = Empty  BY DEF ListInv, WalkOK, Calling, Walking
<1>5. Items(walk.out) = << >>
  <2>1. << >> \in Seq(Item)  BY EmptySeq
  <2>2. QED  BY <1>4, <2>1, Bare DEF Empty
<1>6. ASSUME NEW v \in Elem
      PROVE  /\ Lends(walk', v) \in Nat
             /\ rc'[v] - held'[v] - Lends(walk', v) = rc[v] - held[v] - Lends(walk, v)
  <2>1. Lends(walk', v) = 0  BY DEF Lends
  <2>2. Lends(walk, v) = One(e, v) + Occurs(v, << >>)
    <3>1. PICK u, s : u = walk /\ s = << >>  OBVIOUS
    <3>2. u # Idle /\ u.elem = e /\ Items(u.out) = s  BY <1>1, <1>4, <1>5, <3>1
    <3>3. QED  BY <3>1, <3>2, LendsDuring
  <2>3. Occurs(v, << >>) = 0  BY OccursFew
  <2>4. rc[v] \in Nat /\ held[v] \in Nat /\ One(e, v) \in Nat  BY Numbers DEF One
  <2>5. QED  BY <1>3, <2>1, <2>2, <2>3, <2>4
<1>7. WalkOK(walk', lists) /\ Following(walk', lists) /\ FaultOK(fault', walk')
  BY <1>3 DEF WalkOK, Following, FaultOK
<1>8. held' \in [Elem -> 0 .. MaxHeld]  BY DEF ListInv
<1>9. QED  BY <1>3, <1>6, <1>7, <1>8, Kept

\* filter keeps the element, which it reads from its slot again.
LEMMA PickKeeps ==
  ASSUME ListInv, Calling, fault = "none", walk.kind = "filter", InRange,
         NEW v, v = lists[walk.l].buf[walk.i + 1],
         Advance(Pushed(walk.out, v)), Counted(<<v>>, <<walk.elem>>),
         lists' = lists, held' = held
  PROVE  ListInv'
<1>1. PICK e, out, x, i, y : /\ e = walk.elem /\ out = walk.out /\ x = lists[walk.l]
                             /\ i = walk.i /\ y = Pushed(out, v)
  OBVIOUS
<1>2. e \in Elem /\ rc[e] > 0 /\ Counted(<<v>>, <<e>>)  BY <1>1, LentLive
<1>3. /\ Walking /\ walk # Idle /\ i \in Nat /\ Solid(out) /\ Solid(x) /\ x.len \in Nat
      /\ walk.l \in DOMAIN lists /\ i < x.len
  BY <1>1, WalkHas DEF Calling, InRange
<1>4. i + 1 \in 1 .. x.len  BY <1>3
<1>5. v \in Elem /\ rc[v] > 0
  <2>1. PICK l, j : l = walk.l /\ j = i + 1  OBVIOUS
  <2>2. l \in DOMAIN lists /\ j \in 1 .. lists[l].len  BY <1>1, <1>3, <1>4, <2>1
  <2>3. lists[l].buf[j] \in Elem /\ rc[lists[l].buf[j]] > 0  BY <2>2, InAList
  <2>4. QED  BY <1>1, <2>1, <2>3
<1>6. /\ fault' = fault /\ rc' \in [Elem -> Nat]
      /\ \A w \in Elem : rc'[w] = rc[w] + One(v, w) - One(e, w)
  BY <1>2, <1>5, Exchange
<1>7. Solid(y) /\ Items(y) = Append(Items(out), v)  BY <1>1, <1>3, <1>5, PushedIs
<1>8. walk.kind \notin Changing => Picked(out, x, i)
  BY <1>1, <1>3 DEF ListInv, Following
<1>9. Items(x)[i + 1] = v  BY <1>1, <1>3, <1>4, SolidHas
<1>10. walk.kind \notin Changing => Picked(y, x, i + 1)
  BY <1>3, <1>7, <1>8, <1>9, PickedMore
<1>11. ASSUME NEW w \in Elem
       PROVE  rc'[w] - Occurs(w, Items(y))
                 = rc[w] - One(walk.elem, w) - Occurs(w, Items(walk.out))
  <2>1. PICK s : s = Items(out)  OBVIOUS
  <2>2. s \in Seq(Item) /\ v \in Item  BY <1>3, <1>5, <2>1, SolidHas DEF Item
  <2>3. Occurs(w, Append(s, v)) = Occurs(w, s) + One(v, w) /\ Occurs(w, s) \in Nat
    BY <2>2, OccursAppend, OccursNat
  <2>4. rc[w] \in Nat /\ One(e, w) \in Nat /\ One(v, w) \in Nat  BY Numbers DEF One
  <2>5. rc'[w] = rc[w] + One(v, w) - One(e, w)  BY <1>6
  <2>6. Occurs(w, Items(y)) = Occurs(w, s) + One(v, w)  BY <1>7, <2>1, <2>3
  <2>7. rc'[w] - (Occurs(w, s) + One(v, w)) = rc[w] - One(e, w) - Occurs(w, s)
    <3>1. PICK a, b, c, d : a = rc[w] /\ b = One(v, w) /\ c = One(e, w) /\ d = Occurs(w, s)
      OBVIOUS
    <3>2. a \in Nat /\ b \in Nat /\ c \in Nat /\ d \in Nat  BY <2>3, <2>4, <3>1
    <3>3. (a + b - c) - (d + b) = a - c - d  BY <3>2
    <3>4. QED  BY <2>5, <3>1, <3>3
  <2>8. QED  BY <1>1, <2>1, <2>6, <2>7
<1>12. Advance(y)  BY <1>1
<1>13. QED  BY <1>1, <1>6, <1>7, <1>10, <1>11, <1>12, Advanced

\* map moves its reference to the result into the list it makes.
LEMMA MapKeeps ==
  ASSUME ListInv, Calling, fault = "none", walk.kind = "map",
         walk.i < Len(walk.out.buf),
         Advance(Buffer([walk.out.buf EXCEPT ![walk.i + 1] = walk.elem], walk.i + 1)),
         UNCHANGED <<rc, fault>>, lists' = lists, held' = held
  PROVE  ListInv'
<1>1. PICK e, out, x, i : /\ e = walk.elem /\ out = walk.out /\ x = lists[walk.l]
                          /\ i = walk.i
  OBVIOUS
<1>2. e \in Elem  BY <1>1, LentLive
<1>3. /\ Walking /\ walk # Idle /\ i \in Nat /\ Solid(out) /\ Solid(x) /\ x.len \in Nat
      /\ walk.l \in DOMAIN lists /\ walk.call
  BY <1>1, WalkHas DEF Calling
<1>4. out.len = i /\ i < Len(out.buf) /\ out.buf \in Seq(Item)
  BY <1>1, <1>3 DEF ListInv, WalkOK, Solid
<1>5. PICK y : y = Buffer([out.buf EXCEPT ![out.len + 1] = e], out.len + 1)  OBVIOUS
<1>6. Solid(y) /\ Items(y) = Append(Items(out), e)
  <2>1. PICK g : g = out.buf  OBVIOUS
  <2>2. g \in Seq(Item) /\ out.len < Len(g) /\ \A k \in 1 .. out.len : g[k] = out.buf[k]
    BY <1>4, <2>1
  <2>3. QED  BY <1>2, <1>3, <1>5, <2>1, <2>2, Stored
<1>7. Advance(y)  BY <1>1, <1>4, <1>5
<1>8. y.len = walk.i + 1 /\ Len(y.buf) = Len(walk.out.buf)
  <2>1. PICK g, j : g = out.buf /\ j = i + 1  OBVIOUS
  <2>2. g \in Seq(Item) /\ j \in 1 .. Len(g) /\ e \in Item
    BY <1>2, <1>3, <1>4, <2>1, LenProperties DEF Item
  <2>3. Len([g EXCEPT ![j] = e]) = Len(g)  BY <2>2, ExceptSeq
  <2>4. y.buf = [g EXCEPT ![j] = e] /\ y.len = i + 1  BY <1>4, <1>5, <2>1 DEF Buffer
  <2>5. QED  BY <1>1, <2>1, <2>3, <2>4
<1>9. walk.kind \notin Changing => Picked(y, x, i + 1)
  <2> SUFFICES ASSUME walk.kind \notin Changing PROVE Picked(y, x, i + 1)  OBVIOUS
  <2>1. Picked(out, x, i) /\ i < x.len /\ e = x.buf[i + 1]
    BY <1>1, <1>3 DEF ListInv, Following
  <2>2. i + 1 \in 1 .. x.len  BY <1>3, <2>1
  <2>3. Items(x)[i + 1] = e  BY <1>3, <2>1, <2>2, SolidHas
  <2>4. QED  BY <1>3, <1>6, <2>1, <2>3, PickedMore
<1>10. rc' \in [Elem -> Nat]  BY DEF ListInv
<1>11. ASSUME NEW w \in Elem
       PROVE  rc'[w] - Occurs(w, Items(y))
                 = rc[w] - One(walk.elem, w) - Occurs(w, Items(walk.out))
  <2>1. PICK s : s = Items(out)  OBVIOUS
  <2>2. s \in Seq(Item) /\ e \in Item  BY <1>2, <1>3, <2>1, SolidHas DEF Item
  <2>3. Occurs(w, Append(s, e)) = Occurs(w, s) + One(e, w) /\ Occurs(w, s) \in Nat
    BY <2>2, OccursAppend, OccursNat
  <2>4. rc[w] \in Nat /\ One(e, w) \in Nat  BY Numbers DEF One
  <2>5. QED  BY <1>1, <1>6, <2>1, <2>3, <2>4
<1>12. QED  BY <1>1, <1>6, <1>7, <1>8, <1>9, <1>10, <1>11, Advanced

\* A slot outside the list: the callback has changed the list.
LEMMA FaultKeeps ==
  ASSUME ListInv, Calling, NEW v, OutOfBounds(v), lists' = lists, held' = held,
         \/ walk.kind = "filter" /\ ~InRange
         \/ walk.kind = "map" /\ ~(walk.i < Len(walk.out.buf))
  PROVE  ListInv'
<1>1. /\ Walking /\ walk # Idle /\ walk.call
  BY DEF Calling, Walking
<1>2. walk.kind \in Changing
  BY <1>1 DEF ListInv, Following, InRange
<1>3. FaultOK(fault', walk)  BY <1>1, <1>2 DEF FaultOK, OutOfBounds
<1>4. rc' = rc /\ walk' = walk  BY DEF OutOfBounds
<1>5. ASSUME NEW e \in Elem
      PROVE  /\ Lends(walk', e) \in Nat
             /\ rc'[e] - held'[e] - Lends(walk', e) = rc[e] - held[e] - Lends(walk, e)
  BY <1>4, Numbers
<1>6. QED  BY <1>3, <1>4, <1>5, Kept DEF ListInv

\* Return.
LEMMA ReturnKeeps ==
  ASSUME ListInv, Return
  PROVE  ListInv'
<1>1. Calling /\ fault = "none" /\ lists' = lists /\ held' = held  BY DEF Return
<1>2. CASE ReturnEach
  <2>1. walk.kind = "each" /\ Counted(<< >>, <<walk.elem>>)  BY <1>2 DEF ReturnEach
  <2>2. CASE Advance(walk.out)  BY <1>1, <2>1, <2>2, SkipKeeps
  <2>3. CASE walk' = Idle  BY <1>1, <2>1, <2>3, LeaveKeeps
  <2>4. QED  BY <1>2, <2>2, <2>3 DEF ReturnEach
<1>3. CASE ReturnFilter
  <2>1. PICK v : v = lists[walk.l].buf[walk.i + 1]  OBVIOUS
  <2>2. walk.kind = "filter"  BY <1>3 DEF ReturnFilter
  <2>3. \/ Advance(walk.out) /\ Counted(<< >>, <<walk.elem>>)
        \/ InRange /\ Advance(Pushed(walk.out, v)) /\ Counted(<<v>>, <<walk.elem>>)
        \/ ~InRange /\ OutOfBounds(v)
    BY <1>3, <2>1 DEF ReturnFilter
  <2>4. CASE Advance(walk.out) /\ Counted(<< >>, <<walk.elem>>)
    BY <1>1, <2>2, <2>4, SkipKeeps
  <2>5. CASE InRange /\ Advance(Pushed(walk.out, v)) /\ Counted(<<v>>, <<walk.elem>>)
    BY <1>1, <2>1, <2>2, <2>5, PickKeeps
  <2>6. CASE ~InRange /\ OutOfBounds(v)  BY <1>1, <2>2, <2>6, FaultKeeps
  <2>7. QED  BY <2>3, <2>4, <2>5, <2>6
<1>4. CASE ReturnMap
  <2>1. CASE walk.i < Len(walk.out.buf)  BY <1>1, <1>4, <2>1, MapKeeps DEF ReturnMap
  <2>2. CASE ~(walk.i < Len(walk.out.buf))
    <3>1. OutOfBounds(Null) /\ walk.kind = "map"  BY <1>4, <2>2 DEF ReturnMap
    <3>2. QED  BY <1>1, <2>2, <3>1, FaultKeeps
  <2>3. QED  BY <2>1, <2>2
<1>5. QED  BY <1>2, <1>3, <1>4 DEF Return

\* What filter and map return is what they have gathered: the list that map has
\* walked over is as long as when it began.
LEMMA ResultIs ==
  ASSUME ListInv, Changing \subseteq {"each"}, End, walk.kind \in {"filter", "map"}
  PROVE  Result = walk.out
<1>1. PICK out, n, i : out = walk.out /\ n = lists[walk.l].len /\ i = walk.i  OBVIOUS
<1>2. walk # Idle /\ Solid(out) /\ n \in Nat /\ i \in Nat  BY <1>1, WalkHas DEF End
<1>3. CASE walk.kind = "map"
  <2>1. out.len = i /\ i <= n /\ Len(out.buf) = n
    BY <1>1, <1>2, <1>3 DEF ListInv, WalkOK, Following
  <2>2. ~(i < n)  BY <1>1 DEF End, InRange
  <2>3. out.len = n  BY <1>2, <2>1, <2>2
  <2>4. SubSeq(out.buf, 1, n) = out.buf
    <3>1. out.buf \in Seq(Item)  BY <1>2 DEF Solid
    <3>2. QED  BY <2>1, <3>1, SubSeqFull
  <2>5. out = Buffer(out.buf, out.len)  BY <1>2 DEF Solid
  <2>6. QED  BY <1>1, <1>3, <2>3, <2>4, <2>5 DEF Result
<1>4. QED  BY <1>3 DEF Result

\* End.
LEMMA EndKeeps ==
  ASSUME ListInv, Changing \subseteq {"each"}, End
  PROVE  ListInv'
<1>1. /\ Walking /\ walk.call = FALSE /\ fault = "none" /\ walk' = Idle
      /\ rc' = rc /\ held' = held /\ fault' = fault
  BY WalkHas DEF End, Walker
<1>2. PICK out, s : out = walk.out /\ s = Items(out)  OBVIOUS
<1>3. walk # Idle /\ Solid(out) /\ walk.elem = Null /\ (walk.kind = "each" => out = Empty)
  BY <1>1, <1>2 DEF ListInv, WalkOK, Walking
<1>4. s \in Seq(Item)  BY <1>2, <1>3, SolidHas
<1>5. \A v \in Elem : Lends(walk, v) = Occurs(v, s) /\ Occurs(v, s) \in Nat
  <2> SUFFICES ASSUME NEW v \in Elem
               PROVE  Lends(walk, v) = Occurs(v, s) /\ Occurs(v, s) \in Nat
    OBVIOUS
  <2>1. Occurs(v, s) \in Nat  BY <1>4, OccursNat
  <2>2. Lends(walk, v) = 0 + Occurs(v, s)
    <3>1. PICK u : u = walk  OBVIOUS
    <3>2. u # Idle /\ u.elem = Null /\ Items(u.out) = s  BY <1>2, <1>3, <3>1
    <3>3. QED  BY <3>1, <3>2, LendsBetween
  <2>3. QED  BY <2>1, <2>2
<1>6. \A v \in Elem : rc[v] \in Nat /\ held[v] \in Nat  BY Numbers
<1>7. rc' \in [Elem -> Nat] /\ held' \in [Elem -> 0 .. MaxHeld]  BY <1>1 DEF ListInv
<1>8. CASE walk.kind \in {"filter", "map"}
  <2>1. PICK l \in ListId \ DOMAIN lists : With(l, out)  BY <1>2, <1>8, ResultIs DEF End
  <2>2. \A v \in Elem : rc'[v] - held'[v] = rc[v] - held[v]
                           - Lends(walk, v) + Occurs(v, Items(out))
    BY <1>1, <1>2, <1>5, <1>6
  <2>3. QED  BY <1>1, <1>3, <1>7, <2>1, <2>2, Added
<1>9. CASE walk.kind \notin {"filter", "map"}
  <2>1. lists' = lists  BY <1>9 DEF End
  <2>2. walk.kind = "each"  BY <1>1, <1>9, WalkHas
  <2>3. s = << >>
    <3>1. << >> \in Seq(Item)  BY EmptySeq
    <3>2. QED  BY <1>2, <1>3, <2>2, <3>1, Bare DEF Empty
  <2>4. \A v \in Elem : Occurs(v, s) = 0  BY <2>3, OccursFew
  <2>5. \A v : Lends(walk', v) = 0  BY <1>1 DEF Lends
  <2>6. \A v \in Elem : /\ Lends(walk', v) \in Nat
                        /\ rc'[v] - held'[v] - Lends(walk', v) = rc[v] - held[v] - Lends(walk, v)
    BY <1>1, <1>5, <1>6, <2>4, <2>5
  <2>7. WalkOK(walk', lists) /\ Following(walk', lists) /\ FaultOK(fault', walk')
    BY <1>1 DEF WalkOK, Following, FaultOK
  <2>8. QED  BY <1>7, <2>1, <2>6, <2>7, Kept
<1>10. QED  BY <1>8, <1>9

-----------------------------------------------------------------------------
(* The theorems.                                                           *)

\* No list, nothing held.
LEMMA InitInv == Init => ListInv
<1> SUFFICES ASSUME Init PROVE ListInv  OBVIOUS
<1>1. DOMAIN lists = {} /\ lists = [l \in DOMAIN lists |-> lists[l]] /\ walk = Idle
      /\ fault = "none" /\ rc = [v \in Elem |-> 0] /\ held = rc
  BY DEF Init
<1>2. Shapes(lists)  BY <1>1 DEF Shapes
<1>3. \A v : Own(lists, v) = {}  BY <1>1 DEF Own
<1>4. Tally(lists, rc, held, walk)  BY <1>1, <1>3, FS_EmptySet DEF Tally, Lends
<1>5. WalkOK(walk, lists) /\ Following(walk, lists) /\ FaultOK(fault, walk)
  BY <1>1 DEF WalkOK, Following, FaultOK
<1>6. rc \in [Elem -> Nat] /\ held \in [Elem -> 0 .. MaxHeld]  BY <1>1, ListAssumption
<1>7. QED  BY <1>2, <1>4, <1>5, <1>6 DEF ListInv

\* A step that changes nothing.
LEMMA StutterInv ==
  ASSUME ListInv, UNCHANGED vars
  PROVE  ListInv'
BY DEF ListInv, vars

\* Every step.
LEMMA NextInv ==
  ASSUME ListInv, Changing \subseteq {"each"}, Next
  PROVE  ListInv'
<1>1. ASSUME NEW v \in Elem, Alloc(v) PROVE ListInv'  BY <1>1, AllocKeeps
<1>2. ASSUME NEW v \in Elem, Release(v) PROVE ListInv'  BY <1>2, ReleaseKeeps
<1>3. ASSUME NEW l \in ListId, make(l, << >>) PROVE ListInv'
  <2>1. PICK s : s = << >>  OBVIOUS
  <2>2. s \in Seq(Elem) /\ make(l, s)  BY <1>3, <2>1, EmptySeq
  <2>3. \A v : Occurs(v, s) = 0  BY <2>1, OccursFew
  <2>4. \A v \in Elem : Occurs(v, s) > 0 => rc[v] > 0  BY <2>3
  <2>5. QED  BY <2>2, <2>4, MakeKeeps
<1>4. ASSUME NEW l \in ListId, NEW m \in DOMAIN lists, NEW s \in 0 .. lists[m].len,
             NEW e \in 0 .. lists[m].len, s <= e, slice(l, m, s, e)
      PROVE  ListInv'
  BY <1>4, SliceKeeps
<1>5. ASSUME NEW l \in ListId, NEW m \in DOMAIN lists, NEW n \in DOMAIN lists, concat(l, m, n)
      PROVE  ListInv'
  BY <1>5, ConcatKeeps
<1>6. ASSUME NEW l \in ListId, NEW m \in DOMAIN lists, extend(l, m) PROVE ListInv'
  BY <1>6, ExtendKeeps
<1>7. ASSUME NEW l \in ListId, NEW v \in Elem, push(l, v) PROVE ListInv'  BY <1>7, PushKeeps
<1>8. ASSUME NEW l \in ListId,
             pop(l) \/ shift(l) \/ order(l) \/ clear(l) \/ drop_list(l)
      PROVE  ListInv'
  BY <1>8, PopKeeps, ShiftKeeps, OrderKeeps, ClearKeeps, DropKeeps
<1>9. ASSUME NEW l \in ListId, NEW i \in 0 .. MaxLen, get(l, i) PROVE ListInv'
  BY <1>9, GetKeeps
<1>10. ASSUME NEW l \in ListId, NEW i \in 0 .. MaxLen, NEW v \in Elem, set(l, i, v)
       PROVE  ListInv'
  BY <1>10, SetKeeps
<1>11. ASSUME NEW l \in ListId, NEW kind \in Walks, Begin(kind, l) PROVE ListInv'
  BY <1>11, BeginKeeps
<1>12. CASE Read  BY <1>12, ReadKeeps
<1>13. CASE Return  BY <1>13, ReturnKeeps
<1>14. CASE End  BY <1>14, EndKeeps
<1>15. QED
  BY <1>1, <1>2, <1>3, <1>4, <1>5, <1>6, <1>7, <1>8, <1>9, <1>10, <1>11, <1>12, <1>13, <1>14
  DEF Next

\* The invariant of every list operation and walk, where a for loop's body, or
\* the callback of for_each, any, all or fold, may change the list it walks over.
THEOREM Invariance ==
  ASSUME Changing \subseteq {"each"}
  PROVE  Spec => []ListInv
<1>1. ListInv /\ [Next]_vars => ListInv'  BY NextInv, StutterInv
<1>2. QED  BY InitInv, <1>1, PTL DEF Spec

\* Every element's count is the number of slots below a length, of variables and
\* of walks that own it: the lists neither leak nor release twice, while the body
\* of a for loop or a callback of for_each, any, all or fold changes them too.
\* Not so of a callback of map: see List.map's length.
THEOREM EveryCountExact ==
  ASSUME Changing \subseteq {"each"}
  PROVE  Spec => []CountsExact
<1>1. ListInv => CountsExact
  <2> SUFFICES ASSUME ListInv, NEW v \in Elem
               PROVE  rc[v] = held[v] + Cardinality(Owners(v))
                         + (IF Walking THEN Occurs(v, <<walk.elem>>)
                                            + Cardinality(Holding(walk.out, v)) ELSE 0)
    BY DEF CountsExact
  <2>1. Owners(v) = Own(lists, v)  BY DEF Owners, Own
  <2>2. Lends(walk, v) = IF Walking THEN Occurs(v, <<walk.elem>>)
                                         + Cardinality(Holding(walk.out, v)) ELSE 0
    <3>1. CASE Walking
      <4>1. PICK x : x = walk.out  OBVIOUS
      <4>2. Solid(x)  BY <3>1, <4>1, WalkHas
      <4>3. Cardinality(Holding(x, v)) = Occurs(v, Items(x))  BY <4>2, SolidHas
      <4>4. QED  BY <3>1, <4>1, <4>3 DEF Lends, Walking
    <3>2. CASE ~Walking  BY <3>2 DEF Lends, Walking
    <3>3. QED  BY <3>1, <3>2
  <2>3. rc[v] = held[v] + Cardinality(Own(lists, v)) + Lends(walk, v)
    BY Numbers
  <2>4. QED  BY <2>1, <2>2, <2>3
<1>2. QED  BY Invariance, <1>1, PTL

\* Where only a for loop's body, or the callback of for_each, any, all or fold,
\* changes the list it walks over, no operation touches a freed element or a slot
\* outside a list.  filter and map are exposed: see List.filter and List.map.
THEOREM NeverFaults ==
  ASSUME Changing \subseteq {"each"}
  PROVE  Spec => []NoFault
<1>1. ListInv => NoFault
  <2> SUFFICES ASSUME ListInv PROVE NoFault  OBVIOUS
  <2>1. fault = "none"  BY DEF ListInv, FaultOK
  <2>2. DOMAIN lists \subseteq ListId
        /\ \A l \in DOMAIN lists : /\ lists[l].buf \in Seq(Elem \union {Null})
                                   /\ lists[l].len \in 0 .. Len(lists[l].buf)
    BY DEF ListInv, Shapes, Solid, Item
  <2>3. QED  BY <2>1, <2>2 DEF NoFault, TypeOK, ListInv
<1>2. QED  BY Invariance, <1>1, PTL

-----------------------------------------------------------------------------
(* The buffers implement sequences.                                        *)

Seqs(ls) == [l \in DOMAIN ls |-> Items(ls[l])]

\* The number of elements of a set, as the abstract specification has it.
LEMMA SameCardinality ==
  ASSUME NEW S
  PROVE  Promise!Cardinality(S) = Cardinality(S)
BY DEF Promise!Cardinality, Cardinality

\* A list is updated: its sequence is.
LEMMA SeqsUpdated ==
  ASSUME ListInv, NEW l, l \in DOMAIN lists, NEW y, Update(l, y)
  PROVE  Promise!Update(l, Items(y))
<1>1. lists' = [lists EXCEPT ![l] = y]  BY DEF Update
<1>2. DOMAIN lists' = DOMAIN lists /\ lists'[l] = y
      /\ \A m \in DOMAIN lists : m # l => lists'[m] = lists[m]
  BY <1>1
<1>3. Seqs(lists') = [Seqs(lists) EXCEPT ![l] = Items(y)]
  <2>1. [m \in DOMAIN lists' |-> Items(lists'[m])]
          = [m \in DOMAIN lists |-> IF m = l THEN Items(y) ELSE Items(lists[m])]
    BY <1>2
  <2>2. [[m \in DOMAIN lists |-> Items(lists[m])] EXCEPT ![l] = Items(y)]
          = [m \in DOMAIN lists |-> IF m = l THEN Items(y) ELSE Items(lists[m])]
    OBVIOUS
  <2>3. QED  BY <2>1, <2>2 DEF Seqs
<1>4. QED  BY <1>3 DEF Promise!Update, Seqs

\* A list is added whose items are none, a part of another's, or two others' in a row.
LEMMA SeqsAdded ==
  ASSUME ListInv, NEW l \in ListId \ DOMAIN lists, NEW y, With(l, y),
         \/ Items(y) = << >>
         \/ \E m \in DOMAIN lists : Promise!Part(Items(y), Items(lists[m]))
         \/ \E m, n \in DOMAIN lists : Items(y) = Items(lists[m]) \o Items(lists[n])
  PROVE  Promise!make
<1>1. /\ DOMAIN lists' = DOMAIN lists \cup {l} /\ lists'[l] = y
      /\ \A m \in DOMAIN lists : m # l /\ lists'[m] = lists[m]
  BY DEF With
<1>2. PICK q, r : q = Seqs(lists) /\ r = Seqs(lists')  OBVIOUS
<1>3. /\ DOMAIN q = DOMAIN lists /\ DOMAIN r = DOMAIN q \cup {l} /\ r[l] = Items(y)
      /\ \A m \in DOMAIN lists : q[m] = Items(lists[m]) /\ r[m] = q[m] /\ m # l
      /\ r = [m \in DOMAIN r |-> r[m]]
  BY <1>1, <1>2 DEF Seqs
<1>4. r = [m \in DOMAIN r |-> IF m = l THEN r[l] ELSE q[m]]
  <2>1. \A m \in DOMAIN r : r[m] = IF m = l THEN r[l] ELSE q[m]  BY <1>3
  <2>2. QED  BY <1>3, <2>1
<1>5. \/ r[l] = << >>
      \/ \E m \in DOMAIN q : Promise!Part(r[l], q[m])
      \/ \E m, n \in DOMAIN q : r[l] = q[m] \o q[n]
  <2>1. CASE Items(y) = << >>  BY <1>3, <2>1
  <2>2. CASE \E m \in DOMAIN lists : Promise!Part(Items(y), Items(lists[m]))
    <3>1. PICK m \in DOMAIN lists : Promise!Part(Items(y), Items(lists[m]))  BY <2>2
    <3>2. m \in DOMAIN q /\ Promise!Part(r[l], q[m])  BY <1>3, <3>1
    <3>3. QED  BY <3>2
  <2>3. CASE \E m, n \in DOMAIN lists : Items(y) = Items(lists[m]) \o Items(lists[n])
    <3>1. PICK m, n \in DOMAIN lists : Items(y) = Items(lists[m]) \o Items(lists[n])  BY <2>3
    <3>2. m \in DOMAIN q /\ n \in DOMAIN q /\ r[l] = q[m] \o q[n]  BY <1>3, <3>1
    <3>3. QED  BY <3>2
  <2>4. QED  BY <2>1, <2>2, <2>3
<1>6. l \in ListId \ DOMAIN q  BY <1>3
<1>7. q = [m \in DOMAIN lists |-> Items(lists[m])]
      /\ r = [m \in DOMAIN lists' |-> Items(lists'[m])]
  BY <1>2 DEF Seqs
<1>8. /\ DOMAIN r = DOMAIN q \cup {l}
      /\ r = [m \in DOMAIN r |-> IF m = l THEN r[l] ELSE q[m]]
      /\ \/ r[l] = << >>
         \/ \E m \in DOMAIN q : Promise!Part(r[l], q[m])
         \/ \E m, n \in DOMAIN q : r[l] = q[m] \o q[n]
  BY <1>3, <1>4, <1>5
<1> DEFINE New(a, b, k) ==
             /\ DOMAIN b = DOMAIN a \cup {k}
             /\ b = [m \in DOMAIN b |-> IF m = k THEN b[k] ELSE a[m]]
             /\ \/ b[k] = << >>
                \/ \E m \in DOMAIN a : Promise!Part(b[k], a[m])
                \/ \E m, n \in DOMAIN a : b[k] = a[m] \o a[n]
<1>9. New(q, r, l)  BY <1>8
<1> HIDE DEF New
<1>10. \E k \in ListId \ DOMAIN q : New(q, r, k)  BY <1>6, <1>9
<1>11. \E k \in ListId \ DOMAIN [m \in DOMAIN lists |-> Items(lists[m])] :
         New([m \in DOMAIN lists |-> Items(lists[m])],
             [m \in DOMAIN lists' |-> Items(lists'[m])], k)
  BY <1>7, <1>10
<1>12. QED  BY <1>11 DEF Promise!make, New

\* The lists there are stay: nothing happens to the sequences.
LEMMA SeqsKept ==
  ASSUME lists' = lists
  PROVE  UNCHANGED Promise!vars
BY DEF Promise!vars

\* push.
LEMMA PushRefines ==
  ASSUME ListInv, NEW l, NEW v \in Elem, push(l, v)
  PROVE  l \in DOMAIN lists /\ Promise!push(l)
<1>1. PICK x, y : x = lists[l] /\ y = Pushed(x, v)  OBVIOUS
<1>2. l \in DOMAIN lists /\ Solid(x) /\ Update(l, y)
  BY <1>1 DEF push, Usable, ListInv, Shapes
<1>3. Items(y) = Append(Items(x), v)  BY <1>1, <1>2, PushedIs
<1>4. Promise!Update(l, Items(y))  BY <1>2, SeqsUpdated
<1>5. QED  BY <1>1, <1>2, <1>3, <1>4 DEF Promise!push

\* pop.
LEMMA PopRefines ==
  ASSUME ListInv, NEW l, pop(l)
  PROVE  l \in DOMAIN lists /\ Promise!pop(l)
<1>1. PICK x, y : x = lists[l] /\ y = Popped(x)  OBVIOUS
<1>2. l \in DOMAIN lists /\ Solid(x) /\ x.len > 0 /\ Update(l, y)
  BY <1>1 DEF pop, Usable, ListInv, Shapes
<1>3. Items(y) = SubSeq(Items(x), 1, x.len - 1)  BY <1>1, <1>2, PoppedIs
<1>4. PICK s : s = Items(x)  OBVIOUS
<1>5. s \in Seq(Elem) /\ Len(s) = x.len  BY <1>2, <1>4, SolidHas
<1>6. s # << >>  BY <1>2, <1>5, EmptySeq
<1>7. Promise!Update(l, Items(y))  BY <1>2, SeqsUpdated
<1>8. QED  BY <1>1, <1>2, <1>3, <1>4, <1>5, <1>6, <1>7 DEF Promise!pop

\* shift.
LEMMA ShiftRefines ==
  ASSUME ListInv, NEW l, shift(l)
  PROVE  l \in DOMAIN lists /\ Promise!shift(l)
<1>1. PICK x, y : x = lists[l] /\ y = Shifted(x)  OBVIOUS
<1>2. l \in DOMAIN lists /\ Solid(x) /\ x.len > 0 /\ Update(l, y)
  BY <1>1 DEF shift, Usable, ListInv, Shapes
<1>3. Items(y) = Tail(Items(x))  BY <1>1, <1>2, ShiftedIs
<1>4. PICK s : s = Items(x)  OBVIOUS
<1>5. s \in Seq(Elem) /\ Len(s) = x.len  BY <1>2, <1>4, SolidHas
<1>6. s # << >>  BY <1>2, <1>5, EmptySeq
<1>7. Promise!Update(l, Items(y))  BY <1>2, SeqsUpdated
<1>8. QED  BY <1>1, <1>2, <1>3, <1>4, <1>6, <1>7 DEF Promise!shift

\* clear.
LEMMA ClearRefines ==
  ASSUME ListInv, NEW l, clear(l)
  PROVE  l \in DOMAIN lists /\ Promise!clear(l)
<1>1. PICK x, y : x = lists[l] /\ y = Cleared(x)  OBVIOUS
<1>2. l \in DOMAIN lists /\ Solid(x) /\ Update(l, y)
  BY <1>1 DEF clear, Usable, ListInv, Shapes
<1>3. Items(y) = << >>  BY <1>1, <1>2, ClearedIs
<1>4. Promise!Update(l, Items(y))  BY <1>2, SeqsUpdated
<1>5. QED  BY <1>2, <1>3, <1>4 DEF Promise!clear

\* set.
LEMMA SetRefines ==
  ASSUME ListInv, NEW l, NEW i \in Nat, NEW v \in Elem, set(l, i, v)
  PROVE  l \in DOMAIN lists /\ Promise!set(l)
<1>1. PICK x, y : x = lists[l] /\ y = Buffer([x.buf EXCEPT ![i + 1] = v], x.len)  OBVIOUS
<1>2. l \in DOMAIN lists /\ Solid(x) /\ i < x.len /\ Update(l, y)
  BY <1>1 DEF set, Usable, ListInv, Shapes
<1>3. i + 1 \in 1 .. x.len  BY <1>2, SolidHas
<1>4. Items(y) = [Items(x) EXCEPT ![i + 1] = v]  BY <1>1, <1>2, <1>3, SetIs
<1>5. i + 1 \in DOMAIN Items(x)  BY <1>2, <1>3, SolidHas
<1>6. Promise!Update(l, Items(y))  BY <1>2, SeqsUpdated
<1>7. PICK j : j = i + 1  OBVIOUS
<1>8. j \in DOMAIN Items(x) /\ Promise!Update(l, [Items(x) EXCEPT ![j] = v])
  BY <1>4, <1>5, <1>6, <1>7
<1>9. QED  BY <1>1, <1>2, <1>8 DEF Promise!set

\* reverse and sort_by.
LEMMA OrderRefines ==
  ASSUME ListInv, NEW l, order(l)
  PROVE  l \in DOMAIN lists /\ Promise!order(l)
<1>1. PICK x, t : x = lists[l] /\ t = Items(x)  OBVIOUS
<1>2. l \in DOMAIN lists /\ Solid(x)  BY <1>1 DEF order, Usable, ListInv, Shapes
<1>3. PICK s \in Orders(t) : Update(l, Buffer(s \o Past(x), x.len))
  BY <1>1 DEF order
<1>4. PICK y : y = Buffer(s \o Past(x), x.len)  OBVIOUS
<1>5. Items(y) = s  BY <1>1, <1>2, <1>4, OrderedIs
<1>6. Promise!Update(l, s)  BY <1>2, <1>3, <1>4, <1>5, SeqsUpdated
<1>7. Range(t) = {t[i] : i \in DOMAIN t}  BY DEF Range
<1>8. s \in [DOMAIN t -> {t[i] : i \in DOMAIN t}]  BY <1>7 DEF Orders
<1>9. ASSUME NEW k \in DOMAIN s
      PROVE  Promise!Cardinality({i \in DOMAIN s : s[i] = t[k]})
                = Promise!Cardinality({i \in DOMAIN s : t[i] = t[k]})
  <2>1. DOMAIN s = DOMAIN t /\ t[k] \in Range(t)  BY <1>7, <1>8
  <2>2. Occurs(t[k], s) = Occurs(t[k], t)  BY <2>1 DEF Orders
  <2>3. Cardinality({i \in DOMAIN s : s[i] = t[k]}) = Cardinality({i \in DOMAIN s : t[i] = t[k]})
    BY <2>1, <2>2 DEF Occurs
  <2>4. QED  BY <2>3, SameCardinality
<1>10. Seqs(lists)[l] = t  BY <1>1, <1>2 DEF Seqs
<1>11. QED  BY <1>1, <1>2, <1>6, <1>8, <1>9 DEF Promise!order

\* extend.
LEMMA ExtendRefines ==
  ASSUME ListInv, NEW l, NEW m, extend(l, m)
  PROVE  l \in DOMAIN lists /\ Promise!extend(l)
<1>1. PICK x, z, s, y : /\ x = lists[l] /\ z = lists[m] /\ s = Items(z)
                        /\ y = Extended(x, s)
  OBVIOUS
<1>2. l \in DOMAIN lists /\ m \in DOMAIN lists /\ Solid(x) /\ Solid(z) /\ Update(l, y)
  BY <1>1 DEF extend, Usable, ListInv, Shapes
<1>3. s \in Seq(Elem)  BY <1>1, <1>2, SolidHas
<1>4. Items(y) = Items(x) \o s  BY <1>1, <1>2, <1>3, ExtendedIs
<1>5. Promise!Update(l, Items(y))  BY <1>2, SeqsUpdated
<1>6. QED  BY <1>1, <1>2, <1>4, <1>5 DEF Promise!extend

\* drop_list.
LEMMA DropRefines ==
  ASSUME ListInv, NEW l, drop_list(l)
  PROVE  l \in DOMAIN lists /\ Promise!drop(l)
<1>1. l \in DOMAIN lists /\ lists' = [m \in DOMAIN lists \ {l} |-> lists[m]]
  BY DEF drop_list, Usable
<1>2. QED  BY <1>1 DEF Promise!drop

\* The empty list.
LEMMA EmptyRefines ==
  ASSUME ListInv, NEW l, make(l, << >>)
  PROVE  Promise!make
<1>1. PICK s : s = << >>  OBVIOUS
<1>2. s \in Seq(Elem) /\ make(l, s)  BY <1>1, EmptySeq
<1>3. PICK y : y = Buffer(s, Len(s))  OBVIOUS
<1>4. Items(y) = << >>  BY <1>1, <1>2, <1>3, MadeExact
<1>5. l \in ListId \ DOMAIN lists /\ With(l, y)  BY <1>2, <1>3 DEF make
<1>6. QED  BY <1>4, <1>5, SeqsAdded

\* concat.
LEMMA ConcatRefines ==
  ASSUME ListInv, NEW l, NEW m, NEW n, concat(l, m, n)
  PROVE  Promise!make
<1>1. PICK x, z, u : x = lists[m] /\ z = lists[n] /\ u = Items(x) \o Items(z)  OBVIOUS
<1>2. m \in DOMAIN lists /\ n \in DOMAIN lists /\ Solid(x) /\ Solid(z) /\ make(l, u)
  BY <1>1 DEF concat, ListInv, Shapes
<1>3. u \in Seq(Elem)  BY <1>1, <1>2, SolidHas, ConcatProperties
<1>4. PICK y : y = Buffer(u, Len(u))  OBVIOUS
<1>5. Items(y) = u  BY <1>3, <1>4, MadeExact
<1>6. l \in ListId \ DOMAIN lists /\ With(l, y)  BY <1>2, <1>4 DEF make
<1>7. \E j, k \in DOMAIN lists : Items(y) = Items(lists[j]) \o Items(lists[k])
  BY <1>1, <1>2, <1>5
<1>8. QED  BY <1>6, <1>7, SeqsAdded

\* A slice is a part.
LEMMA SliceRefines ==
  ASSUME ListInv, NEW l, NEW m, NEW s \in Nat, NEW e \in Nat, slice(l, m, s, e),
         s <= e, e <= lists[m].len
  PROVE  Promise!make
<1>1. PICK x, t, u : x = lists[m] /\ t = Items(x) /\ u = SubSeq(t, s + 1, e)  OBVIOUS
<1>2. m \in DOMAIN lists /\ Solid(x) /\ make(l, u)  BY <1>1 DEF slice, ListInv, Shapes
<1>3. t \in Seq(Elem) /\ Len(t) = x.len /\ x.len \in Nat /\ DOMAIN t = 1 .. x.len
  BY <1>1, <1>2, SolidHas
<1>4. \A i \in s + 1 .. e : t[i] \in Elem
  <2>1. \A i \in s + 1 .. e : i \in 1 .. Len(t)  BY <1>1, <1>3
  <2>2. QED  BY <1>3, <2>1, ElementOfSeq
<1>5. /\ u \in Seq(Elem) /\ Len(u) = e - s /\ DOMAIN u = 1 .. e - s
      /\ \A i \in 1 .. e - s : u[i] = t[s + i]
  <2>1. s + 1 \in Int /\ e \in Int  OBVIOUS
  <2>2. /\ u \in Seq(Elem)
        /\ Len(u) = IF s + 1 <= e THEN e - (s + 1) + 1 ELSE 0
        /\ \A i \in 1 .. e - (s + 1) + 1 : u[i] = t[s + 1 + i - 1]
    BY <1>1, <1>4, <2>1, SubSeqProperties
  <2>3. Len(u) = e - s /\ e - (s + 1) + 1 = e - s  BY <2>2
  <2>4. \A i \in 1 .. e - s : s + 1 + i - 1 = s + i  OBVIOUS
  <2>5. QED  BY <2>2, <2>3, <2>4, LenProperties
<1>6. Promise!Part(u, t)
  <2> DEFINE f == [i \in 1 .. e - s |-> s + i]
  <2>1. /\ f \in [DOMAIN u -> DOMAIN t]
        /\ \A i, j \in DOMAIN u : i < j => f[i] < f[j]
        /\ \A i \in DOMAIN u : u[i] = t[f[i]]
    BY <1>1, <1>3, <1>5
  <2> HIDE DEF f
  <2>2. QED  BY <2>1 DEF Promise!Part
<1>7. PICK y : y = Buffer(u, Len(u))  OBVIOUS
<1>8. Items(y) = u  BY <1>5, <1>7, MadeExact
<1>9. l \in ListId \ DOMAIN lists /\ With(l, y)  BY <1>2, <1>7 DEF make
<1>10. \E k \in DOMAIN lists : Promise!Part(Items(y), Items(lists[k]))
  BY <1>1, <1>2, <1>6, <1>8
<1>11. QED  BY <1>9, <1>10, SeqsAdded

\* What filter and map return is a part of a list that nobody changed.
LEMMA EndRefines ==
  ASSUME ListInv, Changing \subseteq {"each"}, End
  PROVE  Promise!make \/ UNCHANGED Promise!vars
<1>1. CASE walk.kind \notin {"filter", "map"}
  <2>1. lists' = lists  BY <1>1 DEF End
  <2>2. QED  BY <2>1, SeqsKept
<1>2. CASE walk.kind \in {"filter", "map"}
  <2>1. PICK m, x, y, i : m = walk.l /\ x = lists[m] /\ y = walk.out /\ i = walk.i
    OBVIOUS
  <2>2. /\ m \in DOMAIN lists /\ Solid(x) /\ Solid(y) /\ x.len \in Nat /\ i \in Nat
        /\ walk # Idle
    BY <2>1, WalkHas DEF End
  <2>3. i <= x.len /\ Picked(y, x, i)
    BY <1>2, <2>1, <2>2 DEF ListInv, Following
  <2>4. PICK l \in ListId \ DOMAIN lists : With(l, y)  BY <1>2, <2>1, ResultIs DEF End
  <2>5. Promise!Part(Items(y), Items(x))
    <3>1. DOMAIN Items(y) = 1 .. y.len /\ DOMAIN Items(x) = 1 .. x.len  BY <2>2, SolidHas
    <3>2. PICK f \in [1 .. y.len -> 1 .. i] :
            /\ \A j, k \in 1 .. y.len : j < k => f[j] < f[k]
            /\ \A k \in 1 .. y.len : Items(y)[k] = Items(x)[f[k]]
      BY <2>3 DEF Picked
    <3>3. f \in [DOMAIN Items(y) -> DOMAIN Items(x)]  BY <2>2, <2>3, <3>1
    <3>4. QED  BY <3>1, <3>2, <3>3 DEF Promise!Part
  <2>6. \E k \in DOMAIN lists : Promise!Part(Items(y), Items(lists[k]))
    BY <2>1, <2>2, <2>5
  <2>7. QED  BY <2>4, <2>6, SeqsAdded
<1>3. QED  BY <1>1, <1>2

\* Every step is a step of the sequences or leaves them alone.
LEMMA NextRefines ==
  ASSUME ListInv, Changing \subseteq {"each"}, Next
  PROVE  Promise!Next \/ UNCHANGED Promise!vars
<1> DEFINE Goal == Promise!Next \/ UNCHANGED Promise!vars
<1>1. ASSUME NEW l \in DOMAIN lists,
             \/ Promise!push(l) \/ Promise!pop(l) \/ Promise!shift(l) \/ Promise!clear(l)
             \/ Promise!set(l) \/ Promise!order(l) \/ Promise!extend(l) \/ Promise!drop(l)
      PROVE  Goal
  BY <1>1 DEF Promise!Next
<1>2. ASSUME Promise!make PROVE Goal  BY <1>2 DEF Promise!Next
<1>3. ASSUME lists' = lists PROVE Goal  BY <1>3, SeqsKept
<1> HIDE DEF Goal
<1>4. ASSUME NEW v \in Elem, Alloc(v) \/ Release(v) PROVE Goal
  BY <1>3, <1>4 DEF Alloc, Release
<1>5. ASSUME NEW l \in ListId, make(l, << >>) PROVE Goal  BY <1>2, <1>5, EmptyRefines
<1>6. ASSUME NEW l \in ListId, NEW m \in DOMAIN lists, NEW s \in 0 .. lists[m].len,
             NEW e \in 0 .. lists[m].len, s <= e, slice(l, m, s, e)
      PROVE  Goal
  <2>1. Promise!make  BY <1>6, SliceRefines
  <2>2. QED  BY <1>2, <2>1
<1>7. ASSUME NEW l \in ListId, NEW m \in DOMAIN lists, NEW n \in DOMAIN lists, concat(l, m, n)
      PROVE  Goal
  BY <1>2, <1>7, ConcatRefines
<1>8. ASSUME NEW l \in ListId, NEW m \in DOMAIN lists, extend(l, m) PROVE Goal
  BY <1>1, <1>8, ExtendRefines
<1>9. ASSUME NEW l \in ListId, NEW v \in Elem, push(l, v) PROVE Goal
  BY <1>1, <1>9, PushRefines
<1>10. ASSUME NEW l \in ListId, pop(l) \/ shift(l) \/ order(l) \/ clear(l) \/ drop_list(l)
       PROVE  Goal
  BY <1>1, <1>10, PopRefines, ShiftRefines, OrderRefines, ClearRefines, DropRefines
<1>11. ASSUME NEW l \in ListId, NEW i \in 0 .. MaxLen, get(l, i) PROVE Goal
  BY <1>3, <1>11 DEF get
<1>12. ASSUME NEW l \in ListId, NEW i \in 0 .. MaxLen, NEW v \in Elem, set(l, i, v)
       PROVE  Goal
  BY <1>1, <1>12, SetRefines
<1>13. ASSUME NEW l \in ListId, NEW kind \in Walks, Begin(kind, l) PROVE Goal
  BY <1>3, <1>13 DEF Begin
<1>14. ASSUME Read PROVE Goal  BY <1>3, <1>14 DEF Read
<1>15. ASSUME Return PROVE Goal  BY <1>3, <1>15 DEF Return
<1>16. ASSUME End PROVE Goal
  <2>1. Promise!make \/ UNCHANGED Promise!vars  BY <1>16, EndRefines
  <2>2. UNCHANGED Promise!vars => Goal  BY DEF Goal
  <2>3. QED  BY <1>2, <2>1, <2>2
<1>17. Goal
  BY <1>4, <1>5, <1>6, <1>7, <1>8, <1>9, <1>10, <1>11, <1>12, <1>13, <1>14, <1>15, <1>16
  DEF Next
<1>18. QED  BY <1>17 DEF Goal

\* The buffers, their growth and the walks over them implement sequences, where
\* only the callbacks of a walk that reads each element once change a list.
THEOREM ListsAreSequences ==
  ASSUME Changing \subseteq {"each"}
  PROVE  Spec => IsSequence
<1>1. Init => Promise!Init  BY DEF Init, Promise!Init
<1>2. ListInv /\ [Next]_vars => [Promise!Next]_Promise!vars
  <2>1. CASE Next  BY <2>1, NextRefines
  <2>2. CASE UNCHANGED vars  BY <2>2, SeqsKept DEF vars
  <2>3. QED  BY <2>1, <2>2
<1>3. QED  BY Invariance, <1>1, <1>2, PTL DEF Spec, IsSequence, Promise!Spec
=============================================================================
