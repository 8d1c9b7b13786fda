-------------------------- MODULE MapTable_proofs --------------------------
(***************************************************************************)
(* Proofs about MapTable, for every set of keys and values, every hash     *)
(* function and every initial capacity of four slots or more.              *)
(*                                                                         *)
(* A table is Sound when no empty slot lies on the way to a stored key, no *)
(* key is stored twice and free slots hold nothing.  ProbeHits and         *)
(* ProbeMisses say what map_probe_index finds in such a table; the lemmas  *)
(* after them, what each write makes of it.  During growth neither table   *)
(* is the map: Moving says which entries are where, and that the new       *)
(* buffers hold as many as growth has passed, so that they never fill up.  *)
(*                                                                         *)
(* Lemmas about a step take the state as constants t, l, o (tab, len, op). *)
(***************************************************************************)
EXTENDS MapTable, TLAPS, FiniteSetTheorems, WellFoundedInduction

\* A set of numbers that is not empty has a least one.
LEMMA Smallest ==
  ASSUME NEW S, S \subseteq Nat, S # {}
  PROVE  \E i \in S : \A j \in S : i <= j
<1> DEFINE Less == {p \in Nat \X Nat : p[1] < p[2]}
<1>1. IsWellFoundedOn(Less, Nat)
  <2>1. OpToRel(<, Nat) = Less  BY DEF OpToRel
  <2>2. QED  BY <2>1, NatLessThanWellFounded
<1>2. PICK i \in S : \A j \in S : ~(<<j, i>> \in Less)
  <2> HIDE DEF Less
  <2>1. QED  BY <1>1, WFMin
<1>3. ASSUME NEW j \in S, j < i PROVE FALSE
  <2>1. <<j, i>> \in Less  BY <1>3
  <2>2. QED  BY <1>2, <2>1
<1>4. \A j \in S : i \in Nat /\ j \in Nat /\ ~(j < i)  BY <1>3
<1>5. \A j \in S : i <= j  BY <1>4
<1>6. QED  BY <1>5

-----------------------------------------------------------------------------
(* The circle of slots.                                                    *)

\* The least member that First chooses.
LEMMA FirstIs ==
  ASSUME NEW S, S \subseteq Nat, S # {}
  PROVE  First(S) \in S /\ \A m \in S : First(S) <= m
BY Smallest DEF First

\* Less than two rounds.
LEMMA Modulo ==
  ASSUME NEW c \in Nat \ {0}, NEW x \in 0 .. 2 * c - 1
  PROVE  x % c = IF x < c THEN x ELSE x - c
<1>1. CASE x \in 0 .. c - 1  BY <1>1
<1>2. CASE x \in c .. 2 * c - 1  BY <1>2
<1>3. QED  BY <1>1, <1>2

\* A probe goes round the circle once.
LEMMA AtIs ==
  ASSUME NEW k \in Key, NEW c \in Nat \ {0}, NEW n \in 0 .. c
  PROVE  /\ Home(k, c) \in Idx(c) /\ At(k, n, c) \in Idx(c)
         /\ At(k, n, c) = IF Home(k, c) + n < c THEN Home(k, c) + n ELSE Home(k, c) + n - c
<1>1. PICK h : h = Home(k, c)  OBVIOUS
<1>2. h \in 0 .. c - 1
  <2>1. Hash[k] \in Int  BY TableAssumption
  <2>2. QED  BY <1>1, <2>1 DEF Home
<1>3. PICK x : x = h + n  OBVIOUS
<1>4. x \in 0 .. 2 * c - 1  BY <1>2, <1>3
<1>5. x % c = IF x < c THEN x ELSE x - c  BY <1>4, Modulo
<1>6. (IF x < c THEN x ELSE x - c) \in 0 .. c - 1  BY <1>4
<1>7. At(k, n, c) = x % c  BY <1>1, <1>3 DEF At
<1>8. QED  BY <1>1, <1>2, <1>3, <1>5, <1>6, <1>7 DEF Idx

\* It comes to no slot twice
LEMMA AtOnce ==
  ASSUME NEW k \in Key, NEW c \in Nat \ {0}, NEW n \in Idx(c), NEW m \in Idx(c),
         At(k, n, c) = At(k, m, c)
  PROVE  n = m
<1>1. PICK h : h = Home(k, c)  OBVIOUS
<1>2. n \in 0 .. c - 1 /\ m \in 0 .. c - 1 /\ n \in 0 .. c /\ m \in 0 .. c  BY DEF Idx
<1>3. h \in 0 .. c - 1  BY <1>1, <1>2, AtIs DEF Idx
<1>4. /\ At(k, n, c) = IF h + n < c THEN h + n ELSE h + n - c
      /\ At(k, m, c) = IF h + m < c THEN h + m ELSE h + m - c
  BY <1>1, <1>2, AtIs
<1>5. PICK x, y : x = At(k, n, c) /\ y = At(k, m, c) /\ x = y  OBVIOUS
<1>6. x = (IF h + n < c THEN h + n ELSE h + n - c) /\ x = (IF h + m < c THEN h + m ELSE h + m - c)
  BY <1>4, <1>5
<1>7. QED  BY <1>2, <1>3, <1>6

\* and to every slot.
LEMMA AtAll ==
  ASSUME NEW k \in Key, NEW c \in Nat \ {0}, NEW i \in Idx(c)
  PROVE  \E n \in Idx(c) : At(k, n, c) = i
<1>1. PICK h : h = Home(k, c)  OBVIOUS
<1>2. i \in 0 .. c - 1 /\ 0 \in 0 .. c  BY DEF Idx
<1>3. h \in 0 .. c - 1  BY <1>1, <1>2, AtIs DEF Idx
<1>4. CASE h <= i
  <2>1. i - h \in 0 .. c - 1 /\ i - h \in 0 .. c /\ h + (i - h) = i /\ i < c  BY <1>2, <1>3, <1>4
  <2>2. At(k, i - h, c) = i  BY <1>1, <2>1, AtIs
  <2>3. QED  BY <2>1, <2>2 DEF Idx
<1>5. CASE i < h
  <2>1. PICK n : n = i - h + c  OBVIOUS
  <2>2. n \in 0 .. c - 1 /\ n \in 0 .. c /\ h + n = i + c /\ ~(h + n < c) /\ h + n - c = i
    BY <1>2, <1>3, <1>5, <2>1
  <2>3. At(k, n, c) = i  BY <1>1, <2>2, AtIs
  <2>4. QED  BY <2>2, <2>3 DEF Idx
<1>6. QED  BY <1>2, <1>3, <1>4, <1>5

-----------------------------------------------------------------------------
(* A table, and what a probe finds in it.                                  *)

\* No empty slot lies on the way to a stored key.
Chained(t) ==
  \A k \in Key, n \in Idx(t.cap) :
    t.meta[At(k, n, t.cap)] = 1 /\ t.keys[At(k, n, t.cap)] = k =>
      \A m \in Idx(t.cap) : m < n => t.meta[At(k, m, t.cap)] # 0

\* Each key is stored once, and free slots hold nothing.
Entered(t) ==
  /\ \A i \in Idx(t.cap) :
       IF t.meta[i] = 1 THEN t.keys[i] \in Key /\ t.vals[i] \in Value ELSE Empty(t, i)
  /\ \A i, j \in Idx(t.cap) :
       t.meta[i] = 1 /\ t.meta[j] = 1 /\ t.keys[i] = t.keys[j] => i = j

Sound(t) == IsTable(t) /\ Entered(t) /\ Chained(t)

\* The slots a key is in; at most one.
Where(t, k) == {i \in Occupied(t) : t.keys[i] = k}

\* Where a probe ends.
Ends(t, k) == {n \in Idx(t.cap) : \/ t.meta[At(k, n, t.cap)] = 0
                                  \/ t.keys[At(k, n, t.cap)] = k}
Tombs(t, k, last) == {n \in Idx(last) : t.meta[At(k, n, t.cap)] = 2}

\* The probe, by those names.
LEMMA ProbeIs ==
  ASSUME NEW t, NEW k
  PROVE  /\ Ends(t, k) = {} =>
              Probe(t, k) = At(k, IF Tombs(t, k, t.cap) = {} THEN t.cap
                                  ELSE First(Tombs(t, k, t.cap)), t.cap)
         /\ Ends(t, k) # {} =>
              LET last == First(Ends(t, k))
              IN  Probe(t, k) =
                    At(k, IF t.meta[At(k, last, t.cap)] = 1 \/ Tombs(t, k, last) = {} THEN last
                          ELSE First(Tombs(t, k, last)), t.cap)
BY Zenon DEF Probe, Ends, Tombs

\* A probe for a stored key ends at its slot.
LEMMA ProbeHits ==
  ASSUME NEW t, Sound(t), NEW k \in Key, NEW i \in Where(t, k)
  PROVE  Probe(t, k) = i /\ Where(t, k) = {i} /\ t.meta[i] = 1
<1>1. PICK c : c = t.cap  OBVIOUS
<1>2. /\ c \in Nat \ {0} /\ i \in Idx(c) /\ t.meta[i] = 1 /\ t.keys[i] = k /\ k # Null
      /\ t.meta \in [Idx(c) -> 0 .. 2]
  BY <1>1, TableAssumption DEF Sound, IsTable, Where, Occupied
<1>3. Where(t, k) = {i}  BY <1>1, <1>2 DEF Sound, Entered, Where, Occupied
<1>4. PICK n \in Idx(c) : At(k, n, c) = i  BY <1>2, AtAll
<1>5. n \in Ends(t, k) /\ Ends(t, k) \subseteq Nat
  BY <1>1, <1>2, <1>4 DEF Ends, Idx
<1>6. PICK e : e = First(Ends(t, k))  OBVIOUS
<1>7. e \in Ends(t, k) /\ e <= n
  BY <1>5, <1>6, FirstIs
<1>8. e \in Idx(c) /\ (t.meta[At(k, e, c)] = 0 \/ t.keys[At(k, e, c)] = k)
  BY <1>1, <1>7 DEF Ends
<1>9. At(k, e, c) \in Idx(c)
  <2>1. e \in 0 .. c  BY <1>2, <1>8 DEF Idx
  <2>2. QED  BY <1>2, <2>1, AtIs
<1>10. t.keys[At(k, e, c)] = k
  <2>1. CASE e = n  BY <1>2, <1>4, <2>1
  <2>2. CASE e < n
    <3>1. t.meta[At(k, e, c)] # 0
      BY <1>1, <1>2, <1>4, <1>8, <2>2 DEF Sound, Chained
    <3>2. QED  BY <1>8, <3>1
  <2>3. QED  BY <1>4, <1>7, <1>8, <2>1, <2>2 DEF Idx
<1>11. t.meta[At(k, e, c)] = 1
  BY <1>1, <1>2, <1>9, <1>10 DEF Sound, Entered, Empty
<1>12. At(k, e, c) = i  BY <1>1, <1>2, <1>9, <1>10, <1>11 DEF Sound, Entered
<1>13. Probe(t, k) = At(k, e, c)  BY <1>1, <1>6, <1>7, <1>11, ProbeIs
<1>14. QED  BY <1>2, <1>3, <1>12, <1>13

\* A probe for any other key ends at a free slot, with no empty slot on the way.
LEMMA ProbeMisses ==
  ASSUME NEW t, Sound(t), NEW k \in Key, Where(t, k) = {},
         \E i \in Idx(t.cap) : t.meta[i] # 1
  PROVE  \E n \in Idx(t.cap) :
           /\ Probe(t, k) = At(k, n, t.cap) /\ Probe(t, k) \in Idx(t.cap)
           /\ t.meta[Probe(t, k)] # 1
           /\ \A m \in Idx(t.cap) : m < n => t.meta[At(k, m, t.cap)] # 0
<1>1. PICK c : c = t.cap  OBVIOUS
<1>2. c \in Nat \ {0} /\ k # Null /\ t.meta \in [Idx(c) -> 0 .. 2] /\ Idx(c) \subseteq Nat
      /\ Idx(c) \subseteq 0 .. c
  BY <1>1, TableAssumption DEF Sound, IsTable, Idx
<1>3. \A i \in Idx(c) : t.keys[i] # k
  BY <1>1, <1>2 DEF Sound, Entered, Empty, Where, Occupied
<1>4. \A n \in Idx(c) : At(k, n, c) \in Idx(c)  BY <1>2, AtIs
<1>5. Ends(t, k) = {n \in Idx(c) : t.meta[At(k, n, c)] = 0}
  BY <1>1, <1>3, <1>4 DEF Ends
<1>6. CASE Ends(t, k) = {}
  <2>1. \A n \in Idx(c) : t.meta[At(k, n, c)] # 0  BY <1>5, <1>6
  <2>2. Tombs(t, k, c) # {} /\ Tombs(t, k, c) \subseteq Idx(c)
    <3>1. PICK i \in Idx(c) : t.meta[i] # 1  BY <1>1
    <3>2. PICK n \in Idx(c) : At(k, n, c) = i  BY <1>2, AtAll
    <3>3. t.meta[i] = 2  BY <1>2, <2>1, <3>1, <3>2
    <3>4. QED  BY <1>1, <3>2, <3>3 DEF Tombs
  <2>3. First(Tombs(t, k, c)) \in Tombs(t, k, c)  BY <1>2, <2>2, FirstIs
  <2>4. PICK n \in Idx(c) : n = First(Tombs(t, k, c)) /\ t.meta[At(k, n, c)] = 2
    BY <1>1, <2>3 DEF Tombs
  <2>5. Probe(t, k) = At(k, n, c)  BY <1>1, <1>6, <2>2, <2>4, ProbeIs
  <2>6. QED  BY <1>1, <1>4, <2>1, <2>4, <2>5
<1>7. CASE Ends(t, k) # {}
  <2>1. PICK e : e = First(Ends(t, k))  OBVIOUS
  <2>2. e \in Ends(t, k) /\ \A m \in Ends(t, k) : e <= m
    BY <1>2, <1>5, <1>7, <2>1, FirstIs
  <2>3. e \in Idx(c) /\ t.meta[At(k, e, c)] = 0 /\ e \in Nat  BY <1>2, <1>5, <2>2
  <2>4. \A m \in Idx(c) : m < e => t.meta[At(k, m, c)] # 0
    <3> SUFFICES ASSUME NEW m \in Idx(c), m < e, t.meta[At(k, m, c)] = 0 PROVE FALSE
      OBVIOUS
    <3>1. m \in Ends(t, k) /\ m \in Nat  BY <1>2, <1>5
    <3>2. QED  BY <2>2, <2>3, <3>1
  <2>5. CASE Tombs(t, k, e) = {}
    <3>1. Probe(t, k) = At(k, e, c)  BY <1>1, <1>7, <2>1, <2>5, ProbeIs
    <3>2. QED  BY <1>1, <1>4, <2>3, <2>4, <3>1
  <2>6. CASE Tombs(t, k, e) # {}
    <3>1. Tombs(t, k, e) \subseteq Nat  BY DEF Tombs, Idx
    <3>2. First(Tombs(t, k, e)) \in Tombs(t, k, e)  BY <2>6, <3>1, FirstIs
    <3>3. PICK n \in Idx(e) : n = First(Tombs(t, k, e)) /\ t.meta[At(k, n, c)] = 2
      BY <1>1, <3>2 DEF Tombs
    <3>4. Probe(t, k) = At(k, n, c)  BY <1>1, <1>7, <2>1, <2>3, <2>6, <3>3, ProbeIs
    <3>5. n \in Idx(c) /\ n < e  BY <1>2, <2>3 DEF Idx
    <3>6. \A m \in Idx(c) : m < n => m < e  BY <1>2, <2>3, <3>5
    <3>7. QED  BY <1>1, <1>4, <2>4, <3>3, <3>4, <3>5, <3>6
  <2>7. QED  BY <2>5, <2>6
<1>8. QED  BY <1>6, <1>7

-----------------------------------------------------------------------------
(* What the operations make of a table.                                    *)

\* The fields of a table whose slot is set.
LEMMA SetIs ==
  ASSUME NEW t, IsTable(t), NEW i \in Idx(t.cap), NEW m, NEW k, NEW v
  PROVE  LET u == Set(t, i, m, k, v)
         IN  /\ u.cap = t.cap
             /\ \A j \in Idx(t.cap) :
                  /\ u.meta[j] = IF j = i THEN m ELSE t.meta[j]
                  /\ u.keys[j] = IF j = i THEN k ELSE t.keys[j]
                  /\ u.vals[j] = IF j = i THEN v ELSE t.vals[j]
BY DEF Set, IsTable

\* It is a table.
LEMMA SetTable ==
  ASSUME NEW t, IsTable(t), NEW i \in Idx(t.cap), NEW m \in 0 .. 2,
         NEW k \in Key \cup {Null}, NEW v \in Value \cup {Null}
  PROVE  IsTable(Set(t, i, m, k, v))
<1>1. PICK c, me, ks, vs : c = t.cap /\ me = t.meta /\ ks = t.keys /\ vs = t.vals  OBVIOUS
<1>2. /\ me \in [Idx(c) -> 0 .. 2] /\ ks \in [Idx(c) -> Key \cup {Null}]
      /\ vs \in [Idx(c) -> Value \cup {Null}]
  BY <1>1 DEF IsTable
<1>3. /\ [me EXCEPT ![i] = m] \in [Idx(c) -> 0 .. 2]
      /\ [ks EXCEPT ![i] = k] \in [Idx(c) -> Key \cup {Null}]
      /\ [vs EXCEPT ![i] = v] \in [Idx(c) -> Value \cup {Null}]
  BY <1>2
<1>4. c \in Nat \ {0}  BY <1>1 DEF IsTable
<1>5. QED  BY <1>1, <1>3, <1>4 DEF Set, IsTable

\* The entry of k and v in slot i is what u has more than t.
Entry(t, u, i, k, v) ==
  /\ Sound(u) /\ Occupied(u) = Occupied(t) \cup {i} /\ i \notin Occupied(t)
  /\ Where(u, k) = {i} /\ u.vals[i] = v
  /\ \A l \in Key \ {k} : Where(u, l) = Where(t, l)
  /\ \A j \in Occupied(t) : u.vals[j] = t.vals[j]

\* A new key in a free slot that a probe for it comes to.
LEMMA PutNew ==
  ASSUME NEW t, Sound(t), NEW k \in Key, NEW v \in Value, Where(t, k) = {},
         NEW n \in Idx(t.cap), NEW i, i = At(k, n, t.cap), i \in Idx(t.cap), t.meta[i] # 1,
         \A m \in Idx(t.cap) : m < n => t.meta[At(k, m, t.cap)] # 0
  PROVE  Entry(t, Set(t, i, 1, k, v), i, k, v)
<1>1. PICK u, c : u = Set(t, i, 1, k, v) /\ c = t.cap  OBVIOUS
<1>2. c \in Nat \ {0} /\ IsTable(t)  BY <1>1 DEF Sound, IsTable
<1>3. /\ u.cap = c
      /\ \A j \in Idx(c) :
           /\ u.meta[j] = IF j = i THEN 1 ELSE t.meta[j]
           /\ u.keys[j] = IF j = i THEN k ELSE t.keys[j]
           /\ u.vals[j] = IF j = i THEN v ELSE t.vals[j]
  BY <1>1, <1>2, SetIs
<1>4. IsTable(u)
  <2>1. 1 \in 0 .. 2  OBVIOUS
  <2>2. QED  BY <1>1, <1>2, <2>1, SetTable
<1>5. \A j \in Idx(c) : t.meta[j] = 1 => t.keys[j] # k
  BY <1>1 DEF Where, Occupied
<1>6. Entered(u)
  <2>1. ASSUME NEW j \in Idx(c)
        PROVE  IF u.meta[j] = 1 THEN u.keys[j] \in Key /\ u.vals[j] \in Value ELSE Empty(u, j)
    BY <1>1, <1>3 DEF Sound, Entered, Empty
  <2>2. ASSUME NEW j \in Idx(c), NEW l \in Idx(c), u.meta[j] = 1, u.meta[l] = 1,
               u.keys[j] = u.keys[l]
        PROVE  j = l
    BY <1>1, <1>3, <1>5, <2>2 DEF Sound, Entered
  <2>3. QED  BY <1>3, <2>1, <2>2 DEF Entered
<1>7. Chained(u)
  <2> SUFFICES ASSUME NEW l \in Key, NEW p \in Idx(c), u.meta[At(l, p, c)] = 1,
                      u.keys[At(l, p, c)] = l, NEW m \in Idx(c), m < p
               PROVE  u.meta[At(l, m, c)] # 0
    BY <1>3 DEF Chained
  <2>1. At(l, p, c) \in Idx(c) /\ At(l, m, c) \in Idx(c)
    <3>1. p \in 0 .. c /\ m \in 0 .. c  BY <1>2 DEF Idx
    <3>2. QED  BY <1>2, <3>1, AtIs
  <2>2. CASE At(l, p, c) = i
    <3>1. l = k  BY <1>3, <2>1, <2>2
    <3>2. p = n  BY <1>1, <1>2, <2>2, <3>1, AtOnce
    <3>3. t.meta[At(l, m, c)] # 0  BY <1>1, <3>1, <3>2
    <3>4. QED  BY <1>3, <2>1, <3>3
  <2>3. CASE At(l, p, c) # i
    <3>1. t.meta[At(l, p, c)] = 1 /\ t.keys[At(l, p, c)] = l  BY <1>3, <2>1, <2>3
    <3>2. t.meta[At(l, m, c)] # 0  BY <1>1, <3>1 DEF Sound, Chained
    <3>3. QED  BY <1>3, <2>1, <3>2
  <2>4. QED  BY <2>2, <2>3
<1>8. Occupied(u) = Occupied(t) \cup {i} /\ i \notin Occupied(t)
  BY <1>1, <1>3 DEF Occupied
<1>9. Where(u, k) = {i}  BY <1>1, <1>3, <1>5, <1>8 DEF Where, Occupied
<1>10. \A l \in Key \ {k} : Where(u, l) = Where(t, l)
  BY <1>1, <1>3, <1>8 DEF Where, Occupied
<1>11. u.vals[i] = v /\ \A j \in Occupied(t) : u.vals[j] = t.vals[j]
  BY <1>1, <1>3 DEF Occupied
<1>12. QED  BY <1>1, <1>4, <1>6, <1>7, <1>8, <1>9, <1>10, <1>11 DEF Sound, Entry

\* Another value for a key that is there.
LEMMA PutOver ==
  ASSUME NEW t, Sound(t), NEW k \in Key, NEW v \in Value, NEW i \in Where(t, k)
  PROVE  LET u == Set(t, i, 1, t.keys[i], v)
         IN  /\ Sound(u) /\ Occupied(u) = Occupied(t)
             /\ \A l \in Key : Where(u, l) = Where(t, l)
             /\ u.vals[i] = v /\ \A j \in Occupied(t) \ {i} : u.vals[j] = t.vals[j]
<1>1. PICK u, c : u = Set(t, i, 1, t.keys[i], v) /\ c = t.cap  OBVIOUS
<1>2. /\ c \in Nat \ {0} /\ IsTable(t) /\ i \in Idx(c) /\ t.meta[i] = 1
      /\ t.keys[i] \in Key \cup {Null}
  BY <1>1 DEF Sound, IsTable, Where, Occupied
<1>3. /\ u.cap = c
      /\ \A j \in Idx(c) :
           /\ u.meta[j] = t.meta[j] /\ u.keys[j] = t.keys[j]
           /\ u.vals[j] = IF j = i THEN v ELSE t.vals[j]
  BY <1>1, <1>2, SetIs
<1>4. IsTable(u)
  <2>1. 1 \in 0 .. 2  OBVIOUS
  <2>2. QED  BY <1>1, <1>2, <2>1, SetTable
<1>5. Entered(u)
  <2>1. ASSUME NEW j \in Idx(c)
        PROVE  IF u.meta[j] = 1 THEN u.keys[j] \in Key /\ u.vals[j] \in Value ELSE Empty(u, j)
    BY <1>1, <1>2, <1>3 DEF Sound, Entered, Empty
  <2>2. ASSUME NEW j \in Idx(c), NEW l \in Idx(c), u.meta[j] = 1, u.meta[l] = 1,
               u.keys[j] = u.keys[l]
        PROVE  j = l
    BY <1>1, <1>3, <2>2 DEF Sound, Entered
  <2>3. QED  BY <1>3, <2>1, <2>2 DEF Entered
<1>6. Chained(u)
  <2>1. \A l \in Key, p \in Idx(c) : At(l, p, c) \in Idx(c)
    <3>1. \A p \in Idx(c) : p \in 0 .. c  BY <1>2 DEF Idx
    <3>2. QED  BY <1>2, <3>1, AtIs
  <2>2. QED  BY <1>1, <1>3, <2>1 DEF Sound, Chained
<1>7. Occupied(u) = Occupied(t) /\ \A l \in Key : Where(u, l) = Where(t, l)
  BY <1>1, <1>3 DEF Occupied, Where
<1>8. u.vals[i] = v /\ \A j \in Occupied(t) \ {i} : u.vals[j] = t.vals[j]
  BY <1>1, <1>2, <1>3 DEF Occupied
<1>9. QED  BY <1>1, <1>4, <1>5, <1>6, <1>7, <1>8 DEF Sound

\* A key that is removed leaves a tombstone.
LEMMA TakeOut ==
  ASSUME NEW t, Sound(t), NEW k \in Key, NEW i \in Where(t, k)
  PROVE  LET u == Set(t, i, 2, Null, Null)
         IN  /\ Sound(u) /\ Occupied(u) = Occupied(t) \ {i} /\ i \in Occupied(t)
             /\ Where(u, k) = {} /\ \A l \in Key \ {k} : Where(u, l) = Where(t, l)
             /\ \A j \in Occupied(u) : u.vals[j] = t.vals[j]
<1>1. PICK u, c : u = Set(t, i, 2, Null, Null) /\ c = t.cap  OBVIOUS
<1>2. /\ c \in Nat \ {0} /\ IsTable(t) /\ i \in Idx(c) /\ t.meta[i] = 1 /\ t.keys[i] = k
  BY <1>1 DEF Sound, IsTable, Where, Occupied
<1>3. /\ u.cap = c
      /\ \A j \in Idx(c) :
           /\ u.meta[j] = IF j = i THEN 2 ELSE t.meta[j]
           /\ u.keys[j] = IF j = i THEN Null ELSE t.keys[j]
           /\ u.vals[j] = IF j = i THEN Null ELSE t.vals[j]
  BY <1>1, <1>2, SetIs
<1>4. IsTable(u)
  <2>1. 2 \in 0 .. 2 /\ Null \in Key \cup {Null} /\ Null \in Value \cup {Null}  OBVIOUS
  <2>2. QED  BY <1>1, <1>2, <2>1, SetTable
<1>5. Entered(u)
  <2>1. ASSUME NEW j \in Idx(c)
        PROVE  IF u.meta[j] = 1 THEN u.keys[j] \in Key /\ u.vals[j] \in Value ELSE Empty(u, j)
    BY <1>1, <1>3 DEF Sound, Entered, Empty
  <2>2. ASSUME NEW j \in Idx(c), NEW l \in Idx(c), u.meta[j] = 1, u.meta[l] = 1,
               u.keys[j] = u.keys[l]
        PROVE  j = l
    BY <1>1, <1>3, <2>2 DEF Sound, Entered
  <2>3. QED  BY <1>3, <2>1, <2>2 DEF Entered
<1>6. Chained(u)
  <2> SUFFICES ASSUME NEW l \in Key, NEW p \in Idx(c), u.meta[At(l, p, c)] = 1,
                      u.keys[At(l, p, c)] = l, NEW m \in Idx(c), m < p
               PROVE  u.meta[At(l, m, c)] # 0
    BY <1>3 DEF Chained
  <2>1. At(l, p, c) \in Idx(c) /\ At(l, m, c) \in Idx(c)
    <3>1. p \in 0 .. c /\ m \in 0 .. c  BY <1>2 DEF Idx
    <3>2. QED  BY <1>2, <3>1, AtIs
  <2>2. t.meta[At(l, p, c)] = 1 /\ t.keys[At(l, p, c)] = l  BY <1>3, <2>1
  <2>3. t.meta[At(l, m, c)] # 0  BY <1>1, <2>2 DEF Sound, Chained
  <2>4. QED  BY <1>3, <2>1, <2>3
<1>7. Occupied(u) = Occupied(t) \ {i} /\ i \in Occupied(t)
  BY <1>1, <1>2, <1>3 DEF Occupied
<1>8. \A j \in Idx(c) : t.meta[j] = 1 /\ t.keys[j] = k => j = i
  BY <1>1, <1>2 DEF Sound, Entered
<1>9. Where(u, k) = {}  BY <1>1, <1>3, <1>8 DEF Where, Occupied
<1>10. ASSUME NEW l \in Key \ {k} PROVE Where(u, l) = Where(t, l)
  BY <1>1, <1>2, <1>3 DEF Where, Occupied
<1>11. \A j \in Occupied(u) : u.vals[j] = t.vals[j]
  BY <1>1, <1>3 DEF Occupied
<1>12. QED  BY <1>1, <1>4, <1>5, <1>6, <1>7, <1>9, <1>10, <1>11 DEF Sound

\* A table without a key in it.
LEMMA Vacant ==
  ASSUME NEW t, IsTable(t),
         \A i \in Idx(t.cap) : t.meta[i] # 1 /\ t.keys[i] = Null /\ t.vals[i] = Null
  PROVE  Sound(t) /\ Occupied(t) = {} /\ \A k \in Key : Where(t, k) = {}
<1>1. Occupied(t) = {} /\ \A k \in Key : Where(t, k) = {}  BY DEF Occupied, Where
<1>2. Entered(t)  BY DEF Entered, Empty
<1>3. Chained(t)
  <2>1. t.cap \in Nat \ {0}  BY DEF IsTable
  <2>2. \A l \in Key, p \in Idx(t.cap) : At(l, p, t.cap) \in Idx(t.cap)
    <3>1. \A p \in Idx(t.cap) : p \in 0 .. t.cap  BY <2>1 DEF Idx
    <3>2. QED  BY <2>1, <3>1, AtIs
  <2>3. QED  BY <2>2 DEF Chained
<1>4. QED  BY <1>1, <1>2, <1>3 DEF Sound

\* New buffers.
LEMMA FreshIs ==
  ASSUME NEW c \in Nat \ {0}
  PROVE  /\ Sound(Fresh(c)) /\ Fresh(c).cap = c /\ Occupied(Fresh(c)) = {}
         /\ \A k \in Key : Where(Fresh(c), k) = {}
<1>1. PICK t : t = Fresh(c)  OBVIOUS
<1>2. t.cap = c /\ t.meta = [i \in Idx(c) |-> 0] /\ t.keys = [i \in Idx(c) |-> Null]
      /\ t.vals = [i \in Idx(c) |-> Null]
  BY <1>1 DEF Fresh
<1>3. IsTable(t)  BY <1>2 DEF IsTable
<1>4. \A i \in Idx(t.cap) : t.meta[i] # 1 /\ t.keys[i] = Null /\ t.vals[i] = Null  BY <1>2
<1>5. QED  BY <1>1, <1>2, <1>3, <1>4, Vacant

\* Tables with the same buffers are alike.
LEMMA Alike ==
  ASSUME NEW t, Sound(t), NEW u, u.cap = t.cap, u.meta = t.meta, u.keys = t.keys, u.vals = t.vals
  PROVE  /\ Sound(u) /\ Occupied(u) = Occupied(t)
         /\ \A k \in Key : Where(u, k) = Where(t, k)
<1>1. IsTable(u)  BY DEF Sound, IsTable
<1>2. Entered(u)  BY DEF Sound, Entered, Empty
<1>3. Chained(u)  BY DEF Sound, Chained
<1>4. Occupied(u) = Occupied(t) /\ \A k \in Key : Where(u, k) = Where(t, k)
  BY DEF Occupied, Where
<1>5. QED  BY <1>1, <1>2, <1>3, <1>4 DEF Sound

-----------------------------------------------------------------------------
(* Counting, and the move to new buffers.                                  *)

\* The occupied slots are finite in number; fewer than there are slots leave one
\* that is free.
LEMMA OneFree ==
  ASSUME NEW t, IsTable(t)
  PROVE  /\ IsFiniteSet(Occupied(t)) /\ Cardinality(Occupied(t)) \in Nat
         /\ Cardinality(Occupied(t)) < t.cap => \E i \in Idx(t.cap) : t.meta[i] # 1
<1>1. t.cap \in Nat \ {0}  BY DEF IsTable
<1>2. IsFiniteSet(Idx(t.cap)) /\ Cardinality(Idx(t.cap)) = t.cap
  <2>1. 0 \in Int /\ t.cap - 1 \in Int /\ ~(0 > t.cap - 1)  BY <1>1
  <2>2. /\ IsFiniteSet(0 .. t.cap - 1)
        /\ Cardinality(0 .. t.cap - 1) = IF 0 > t.cap - 1 THEN 0 ELSE t.cap - 1 - 0 + 1
    BY <2>1, FS_Interval
  <2>3. QED  BY <1>1, <2>1, <2>2 DEF Idx
<1>3. Occupied(t) \in SUBSET Idx(t.cap)  BY DEF Occupied
<1>4. IsFiniteSet(Occupied(t)) /\ Cardinality(Occupied(t)) \in Nat
  BY <1>2, <1>3, FS_Subset, FS_CardinalityType
<1>5. (\A i \in Idx(t.cap) : t.meta[i] = 1) => Occupied(t) = Idx(t.cap)  BY DEF Occupied
<1>6. QED  BY <1>1, <1>2, <1>4, <1>5

\* The occupied slots growth has passed.
Passed(t, gi) == {i \in Occupied(t) : i < gi}

\* The entries are either still where they were or in the new buffers.
Moving(t, gi, new) ==
  /\ IsTable(t) /\ Sound(new) /\ new.cap = t.cap * 2
  /\ \A i \in Idx(t.cap) :
       IF t.meta[i] = 1 /\ gi <= i
       THEN t.keys[i] \in Key /\ t.vals[i] \in Value /\ Where(new, t.keys[i]) = {}
       ELSE Empty(t, i)
  /\ \A i, j \in Idx(t.cap) :
       t.meta[i] = 1 /\ t.meta[j] = 1 /\ gi <= i /\ gi <= j /\ t.keys[i] = t.keys[j] => i = j
  /\ Cardinality(Occupied(new)) = Cardinality(Passed(t, gi))

\* Before the first slot.
LEMMA MoveBegins ==
  ASSUME NEW t, Sound(t)
  PROVE  Moving(t, 0, Fresh(t.cap * 2))
<1>1. PICK c : c = t.cap  OBVIOUS
<1>2. c \in Nat \ {0} /\ c * 2 \in Nat \ {0} /\ \A i \in Idx(c) : 0 <= i
  <2>1. c \in Nat \ {0}  BY <1>1 DEF Sound, IsTable
  <2>2. QED  BY <2>1 DEF Idx
<1>3. PICK u : u = Fresh(c * 2)  OBVIOUS
<1>4. /\ Sound(u) /\ u.cap = c * 2 /\ Occupied(u) = {} /\ \A k \in Key : Where(u, k) = {}
  BY <1>2, <1>3, FreshIs
<1>5. Passed(t, 0) = {}  BY <1>1, <1>2 DEF Passed, Occupied, Idx
<1>6. \A i \in Idx(c) :
        IF t.meta[i] = 1 /\ 0 <= i
        THEN t.keys[i] \in Key /\ t.vals[i] \in Value /\ Where(u, t.keys[i]) = {}
        ELSE Empty(t, i)
  BY <1>1, <1>2, <1>4 DEF Sound, Entered
<1>7. \A i, j \in Idx(c) : t.meta[i] = 1 /\ t.meta[j] = 1 /\ t.keys[i] = t.keys[j] => i = j
  BY <1>1 DEF Sound, Entered
<1>8. Moving(t, 0, u)  BY <1>1, <1>4, <1>5, <1>6, <1>7 DEF Moving, Sound
<1>9. QED  BY <1>1, <1>3, <1>8

\* Past a free slot.
LEMMA MoveSkips ==
  ASSUME NEW t, NEW gi \in Idx(t.cap), NEW new, Moving(t, gi, new), t.meta[gi] # 1
  PROVE  Moving(t, gi + 1, new) /\ gi + 1 \in 0 .. t.cap
<1>1. t.cap \in Nat \ {0} /\ gi \in Nat  BY DEF Moving, IsTable, Idx
<1>2. \A i \in Idx(t.cap) : i \in Nat /\ (t.meta[i] = 1 => (gi <= i <=> gi + 1 <= i))
  <2> SUFFICES ASSUME NEW i \in Idx(t.cap)
               PROVE  i \in Nat /\ (t.meta[i] = 1 => (gi <= i <=> gi + 1 <= i))
    OBVIOUS
  <2>1. i \in Nat  BY DEF Idx
  <2>2. t.meta[i] = 1 => i # gi  OBVIOUS
  <2>3. QED  BY <1>1, <2>1, <2>2
<1>3. Passed(t, gi + 1) = Passed(t, gi)
  <2>1. \A i \in Occupied(t) : i < gi + 1 <=> i < gi
    <3> SUFFICES ASSUME NEW i \in Occupied(t) PROVE i < gi + 1 <=> i < gi  OBVIOUS
    <3>1. i \in Idx(t.cap) /\ t.meta[i] = 1  BY DEF Occupied
    <3>2. i \in Nat /\ i # gi  BY <1>2, <3>1
    <3>3. QED  BY <1>1, <3>2
  <2>2. QED  BY <2>1 DEF Passed
<1>4. Moving(t, gi + 1, new)  BY <1>2, <1>3 DEF Moving
<1>5. QED  BY <1>1, <1>4 DEF Idx

\* What a move makes of the two tables.
Moved(t, gi, new) ==
  LET k == t.keys[gi]
      i == At(k, First(Room(new, k)), new.cap)
      u == Set(t, gi, 1, Null, Null)
      w == Set(new, i, 1, k, t.vals[gi])
  IN  /\ k \in Key /\ Room(new, k) # {}
      /\ Moving(u, gi + 1, w) /\ gi + 1 \in 0 .. t.cap
      /\ u.cap = t.cap /\ Occupied(u) = Occupied(t)
      /\ Where(t, k) = {gi} /\ Where(u, k) = {} /\ Where(w, k) = {i} /\ w.vals[i] = t.vals[gi]
      /\ \A l \in Key \ {k} : Where(u, l) = Where(t, l) /\ Where(w, l) = Where(new, l)
      /\ \A j \in Occupied(t) \ {gi} : u.vals[j] = t.vals[j]
      /\ \A j \in Occupied(new) : w.vals[j] = new.vals[j]

\* An entry moves: there is room for it, and it is where a probe comes to.
LEMMA MoveMoves ==
  ASSUME NEW t, NEW gi \in Idx(t.cap), NEW new, Moving(t, gi, new), t.meta[gi] = 1,
         Cardinality(Occupied(t)) < t.cap
  PROVE  Moved(t, gi, new)
<1>1. PICK k, c, d : k = t.keys[gi] /\ c = t.cap /\ d = new.cap  OBVIOUS
<1>2. /\ c \in Nat \ {0} /\ gi \in Idx(c) /\ gi \in Nat /\ k \in Key /\ t.vals[gi] \in Value
      /\ IsTable(t) /\ Sound(new) /\ IsTable(new) /\ d = c * 2 /\ d \in Nat \ {0}
      /\ Where(new, k) = {} /\ k # Null
  <2>1. c \in Nat \ {0} /\ IsTable(t) /\ Sound(new) /\ d = c * 2
    BY <1>1 DEF Moving, IsTable
  <2>2. gi \in Nat /\ gi <= gi  BY DEF Idx
  <2>3. k \in Key /\ t.vals[gi] \in Value /\ Where(new, k) = {}  BY <1>1, <2>2 DEF Moving
  <2>4. QED  BY <1>1, <2>1, <2>2, <2>3, TableAssumption DEF Sound
<1>3. PICK n \in Idx(d) : /\ n = First(Room(new, k)) /\ new.meta[At(k, n, d)] # 1
                          /\ \A m \in Idx(d) : m < n => new.meta[At(k, m, d)] = 1
                          /\ Room(new, k) # {}
  <2>1. Cardinality(Occupied(new)) < d
    <3>1. IsFiniteSet(Occupied(t)) /\ Cardinality(Occupied(t)) \in Nat  BY <1>2, OneFree
    <3>2. Passed(t, gi) \in SUBSET Occupied(t)  BY DEF Passed
    <3>3. Cardinality(Passed(t, gi)) <= Cardinality(Occupied(t))
          /\ Cardinality(Passed(t, gi)) \in Nat
      BY <3>1, <3>2, FS_Subset, FS_CardinalityType
    <3>4. Cardinality(Occupied(new)) = Cardinality(Passed(t, gi))  BY DEF Moving
    <3>5. QED  BY <1>1, <1>2, <3>1, <3>3, <3>4
  <2>2. PICK j \in Idx(d) : new.meta[j] # 1  BY <1>1, <1>2, <2>1, OneFree
  <2>3. PICK p \in Idx(d) : At(k, p, d) = j  BY <1>2, AtAll
  <2>4. p \in Room(new, k) /\ Room(new, k) \subseteq Nat /\ Room(new, k) \subseteq Idx(d)
    BY <1>1, <2>2, <2>3 DEF Room, Idx
  <2>5. PICK n : n = First(Room(new, k))  OBVIOUS
  <2>6. n \in Room(new, k) /\ \A m \in Room(new, k) : n <= m  BY <2>4, <2>5, FirstIs
  <2>7. \A m \in Idx(d) : m < n => new.meta[At(k, m, d)] = 1
    <3> SUFFICES ASSUME NEW m \in Idx(d), m < n, new.meta[At(k, m, d)] # 1 PROVE FALSE
      OBVIOUS
    <3>1. m \in Room(new, k)  BY <1>1 DEF Room
    <3>2. m \in Nat /\ n \in Nat  BY <2>4, <2>6, <3>1
    <3>3. QED  BY <2>6, <3>1, <3>2
  <2>8. n \in Idx(d) /\ new.meta[At(k, n, d)] # 1  BY <1>1, <2>6 DEF Room
  <2>9. QED  BY <2>4, <2>5, <2>7, <2>8
<1>4. PICK i, u, w : i = At(k, n, d) /\ u = Set(t, gi, 1, Null, Null) /\ w = Set(new, i, 1, k, t.vals[gi])
  OBVIOUS
<1>5. i \in Idx(d)
  <2>1. n \in 0 .. d  BY <1>2 DEF Idx
  <2>2. QED  BY <1>2, <1>4, <2>1, AtIs
<1>6. \A m \in Idx(d) : m < n => new.meta[At(k, m, d)] # 0  BY <1>3
<1>7. /\ Sound(w) /\ Occupied(w) = Occupied(new) \cup {i} /\ i \notin Occupied(new)
      /\ Where(w, k) = {i} /\ w.vals[i] = t.vals[gi]
      /\ \A l \in Key \ {k} : Where(w, l) = Where(new, l)
      /\ \A j \in Occupied(new) : w.vals[j] = new.vals[j]
  <2>1. PICK v : v = t.vals[gi]  OBVIOUS
  <2>2. /\ n \in Idx(new.cap) /\ i = At(k, n, new.cap) /\ i \in Idx(new.cap) /\ new.meta[i] # 1
        /\ \A m \in Idx(new.cap) : m < n => new.meta[At(k, m, new.cap)] # 0
        /\ v \in Value /\ w = Set(new, i, 1, k, v)
    BY <1>1, <1>2, <1>3, <1>4, <1>5, <1>6, <2>1
  <2>3. k \in Key /\ Sound(new) /\ Where(new, k) = {}  BY <1>2
  <2>4. Entry(new, w, i, k, v)  BY <2>2, <2>3, PutNew
  <2>5. QED  BY <2>1, <2>4 DEF Entry
<1>8. w.cap = d  BY <1>1, <1>4 DEF Set
<1>9. /\ u.cap = c
      /\ \A j \in Idx(c) :
           /\ u.meta[j] = t.meta[j]
           /\ u.keys[j] = IF j = gi THEN Null ELSE t.keys[j]
           /\ u.vals[j] = IF j = gi THEN Null ELSE t.vals[j]
  BY <1>1, <1>2, <1>4, SetIs
<1>10. IsTable(u)
  <2>1. 1 \in 0 .. 2 /\ Null \in Key \cup {Null} /\ Null \in Value \cup {Null}  OBVIOUS
  <2>2. QED  BY <1>1, <1>2, <1>4, <2>1, SetTable
<1>11. Occupied(u) = Occupied(t)  BY <1>1, <1>9 DEF Occupied
<1>12. \A j \in Idx(c) : t.meta[j] = 1 /\ t.keys[j] = k => j = gi
  <2> SUFFICES ASSUME NEW j \in Idx(c), t.meta[j] = 1, t.keys[j] = k PROVE j = gi
    OBVIOUS
  <2>1. gi <= j  BY <1>1, <1>2 DEF Moving, Empty
  <2>2. QED  BY <1>1, <1>2, <2>1 DEF Moving
<1>13. Where(t, k) = {gi}  BY <1>1, <1>2, <1>12 DEF Where, Occupied
<1>14. Where(u, k) = {}  BY <1>1, <1>2, <1>9, <1>12 DEF Where, Occupied
<1>15. \A l \in Key \ {k} : Where(u, l) = Where(t, l)
  <2> TAKE l \in Key \ {k}
  <2>1. \A j \in Idx(c) : u.keys[j] = l <=> t.keys[j] = l
    BY <1>1, <1>2, <1>9, TableAssumption
  <2>2. QED  BY <1>1, <1>9, <2>1 DEF Where, Occupied
<1>16. \A j \in Occupied(t) \ {gi} : u.vals[j] = t.vals[j]
  BY <1>1, <1>9 DEF Occupied
<1>17. \A j \in Idx(c) : j \in Nat /\ (gi + 1 <= j <=> gi <= j /\ j # gi)
  BY <1>2 DEF Idx
<1>18. \A j \in Idx(c) :
         IF u.meta[j] = 1 /\ gi + 1 <= j
         THEN u.keys[j] \in Key /\ u.vals[j] \in Value /\ Where(w, u.keys[j]) = {}
         ELSE Empty(u, j)
  <2> TAKE j \in Idx(c)
  <2>1. CASE j = gi  BY <1>9, <1>17, <2>1 DEF Empty
  <2>2. CASE j # gi /\ t.meta[j] = 1 /\ gi <= j
    <3>1. t.keys[j] \in Key /\ t.vals[j] \in Value /\ Where(new, t.keys[j]) = {}
      BY <1>1, <2>2 DEF Moving
    <3>2. t.keys[j] \in Key \ {k}  BY <1>12, <2>2, <3>1
    <3>3. QED  BY <1>7, <1>9, <1>17, <2>2, <3>1, <3>2
  <2>3. CASE j # gi /\ ~(t.meta[j] = 1 /\ gi <= j)
    <3>1. Empty(t, j)  BY <1>1, <2>3 DEF Moving
    <3>2. QED  BY <1>9, <1>17, <2>3, <3>1 DEF Empty
  <2>4. QED  BY <2>1, <2>2, <2>3
<1>19. \A j, l \in Idx(c) :
         u.meta[j] = 1 /\ u.meta[l] = 1 /\ gi + 1 <= j /\ gi + 1 <= l /\ u.keys[j] = u.keys[l]
           => j = l
  BY <1>1, <1>9, <1>17 DEF Moving
<1>20. Cardinality(Occupied(w)) = Cardinality(Passed(u, gi + 1))
  <2>1. gi \in Occupied(t)  BY <1>1, <1>2 DEF Occupied
  <2>2. \A j \in Occupied(t) : j < gi + 1 <=> j < gi \/ j = gi
    <3>1. Occupied(t) \subseteq Nat  BY DEF Occupied, Idx
    <3>2. QED  BY <1>2, <3>1
  <2>3. Passed(u, gi + 1) = Passed(t, gi) \cup {gi} /\ gi \notin Passed(t, gi)
    <3>1. Passed(u, gi + 1) = {j \in Occupied(t) : j < gi + 1}  BY <1>11 DEF Passed
    <3>2. Passed(u, gi + 1) = Passed(t, gi) \cup {gi}  BY <2>1, <2>2, <3>1 DEF Passed
    <3>3. ~(gi < gi)  BY <1>2
    <3>4. QED  BY <3>2, <3>3 DEF Passed
  <2>4. IsFiniteSet(Passed(t, gi))
    <3>1. Passed(t, gi) \in SUBSET Occupied(t)  BY DEF Passed
    <3>2. QED  BY <1>2, <3>1, OneFree, FS_Subset
  <2>5. IsFiniteSet(Occupied(new))  BY <1>2, OneFree
  <2>6. Cardinality(Passed(u, gi + 1)) = Cardinality(Passed(t, gi)) + 1
    BY <2>3, <2>4, FS_AddElement
  <2>7. Cardinality(Occupied(w)) = Cardinality(Occupied(new)) + 1
    BY <1>7, <2>5, FS_AddElement
  <2>8. Cardinality(Occupied(new)) = Cardinality(Passed(t, gi))  BY DEF Moving
  <2>9. QED  BY <2>6, <2>7, <2>8
<1>21. Moving(u, gi + 1, w)
  BY <1>2, <1>7, <1>8, <1>9, <1>10, <1>18, <1>19, <1>20 DEF Moving
<1>22. gi + 1 \in 0 .. c  BY <1>2 DEF Idx
<1>23. i = At(t.keys[gi], First(Room(new, t.keys[gi])), new.cap) /\ k = t.keys[gi]
  BY <1>1, <1>3, <1>4
<1>24. /\ k \in Key /\ Room(new, k) # {} /\ Moving(u, gi + 1, w) /\ gi + 1 \in 0 .. t.cap
       /\ u.cap = t.cap
  BY <1>1, <1>2, <1>3, <1>9, <1>21, <1>22
<1>25. u = Set(t, gi, 1, Null, Null) /\ w = Set(new, i, 1, k, t.vals[gi])  BY <1>4
<1>26. QED
  BY <1>7, <1>11, <1>13, <1>14, <1>15, <1>16, <1>23, <1>24, <1>25 DEF Moved

\* After the last slot all entries are in the new buffers.
LEMMA MoveEnds ==
  ASSUME NEW t, NEW new, Moving(t, t.cap, new)
  PROVE  /\ Sound(new) /\ new.cap = t.cap * 2
         /\ Cardinality(Occupied(new)) = Cardinality(Occupied(t))
         /\ \A k \in Key : Where(t, k) = {}
<1>1. t.cap \in Nat \ {0} /\ IsTable(t)  BY DEF Moving, IsTable
<1>2. \A i \in Idx(t.cap) : i < t.cap /\ ~(t.cap <= i)  BY <1>1 DEF Idx
<1>3. Passed(t, t.cap) = Occupied(t)  BY <1>2 DEF Passed, Occupied
<1>4. \A i \in Idx(t.cap) : t.keys[i] = Null  BY <1>2 DEF Moving, Empty
<1>5. \A k \in Key : Where(t, k) = {}
  BY <1>4, TableAssumption DEF Where, Occupied
<1>6. QED  BY <1>3, <1>5 DEF Moving

-----------------------------------------------------------------------------
(* The invariant.                                                          *)

\* Between operations no table is full; an insertion that is about to put its
\* key has the room it asked for; one that is growing is in the middle of the
\* move.
IdleInv(t, l, o) == o = Idle /\ Sound(t) /\ l < t.cap
PutInv(t, l, o) ==
  \E k \in Key, v \in Value : o = Putting(k, v) /\ Sound(t) /\ l * 4 < t.cap * 3
GrowInv(t, l, o) ==
  \E k \in Key, v \in Value, gi \in 0 .. t.cap : \E new :
    o = Growing(k, v, gi, new) /\ Moving(t, gi, new) /\ l < t.cap

MapInv(t, l, o) ==
  /\ IsTable(t) /\ t.cap >= InitCap /\ l = Cardinality(Occupied(t))
  /\ IdleInv(t, l, o) \/ PutInv(t, l, o) \/ GrowInv(t, l, o)

TableInv == MapInv(tab, len, op)

\* What a table has for a key.
Look(t, k) == IF Where(t, k) = {} THEN Null ELSE t.vals[First(Where(t, k))]

\* What the map has for each key, looking at the slots of both buffers.
DictOf(t, o) ==
  [k \in Key |-> IF o.pc # "grow" \/ Where(t, k) # {} THEN Look(t, k) ELSE Look(o.new, k)]

\* The steps of an operation before it takes effect, and what only tidies up.
Unseen == TableInv' /\ DictOf(tab', op') = DictOf(tab, op) /\ len' = len

\* A number that is alone is the first.
LEMMA LookIs ==
  ASSUME NEW t, NEW k, NEW i \in Nat, Where(t, k) = {i}
  PROVE  Look(t, k) = t.vals[i]
<1>1. First({i}) = i
  <2>1. {i} \subseteq Nat /\ {i} # {}  OBVIOUS
  <2>2. First({i}) \in {i}  BY <2>1, FirstIs
  <2>3. QED  BY <2>2
<1>2. QED  BY <1>1 DEF Look

\* The same slots with the same values.
LEMMA LookSame ==
  ASSUME NEW t, NEW u, NEW k, Where(u, k) = Where(t, k),
         \A j \in Where(t, k) : u.vals[j] = t.vals[j]
  PROVE  Look(u, k) = Look(t, k)
<1>1. CASE Where(t, k) = {}  BY <1>1 DEF Look
<1>2. CASE Where(t, k) # {}
  <2>1. Where(t, k) \subseteq Nat  BY DEF Where, Occupied, Idx
  <2>2. First(Where(t, k)) \in Where(t, k)  BY <1>2, <2>1, FirstIs
  <2>3. QED  BY <1>2, <2>2 DEF Look
<1>3. QED  BY <1>1, <1>2

\* What the code returns is what there is.
LEMMA GetIs ==
  ASSUME NEW t, Sound(t), Cardinality(Occupied(t)) < t.cap, NEW k \in Key
  PROVE  get(t, k) = Look(t, k)
<1>1. CASE Where(t, k) = {}
  <2>1. \E i \in Idx(t.cap) : t.meta[i] # 1  BY OneFree DEF Sound
  <2>2. t.meta[Probe(t, k)] # 1  BY <1>1, <2>1, ProbeMisses
  <2>3. QED  BY <1>1, <2>2 DEF get, Look
<1>2. ASSUME NEW i \in Where(t, k) PROVE get(t, k) = Look(t, k)
  <2>1. Probe(t, k) = i /\ Where(t, k) = {i} /\ t.meta[i] = 1  BY ProbeHits
  <2>2. i \in Nat  BY DEF Where, Occupied, Idx
  <2>3. Look(t, k) = t.vals[i]  BY <2>1, <2>2, LookIs
  <2>4. QED  BY <2>1, <2>3 DEF get
<1>3. QED  BY <1>1, <1>2

\* The new buffers are never full.
LEMMA MovingFree ==
  ASSUME NEW t, NEW gi, NEW new, Moving(t, gi, new), Cardinality(Occupied(t)) < t.cap
  PROVE  Sound(new) /\ Cardinality(Occupied(new)) < new.cap
<1>1. t.cap \in Nat \ {0} /\ IsTable(t)  BY DEF Moving, IsTable
<1>2. IsFiniteSet(Occupied(t)) /\ Cardinality(Occupied(t)) \in Nat  BY <1>1, OneFree
<1>3. Passed(t, gi) \in SUBSET Occupied(t)  BY DEF Passed
<1>4. Cardinality(Passed(t, gi)) <= Cardinality(Occupied(t))
      /\ Cardinality(Passed(t, gi)) \in Nat
  BY <1>2, <1>3, FS_Subset, FS_CardinalityType
<1>5. QED  BY <1>1, <1>2, <1>4 DEF Moving

\* What dict and get return is what DictOf finds.
LEMMA DictAt ==
  ASSUME NEW t, NEW l, NEW o, MapInv(t, l, o), NEW k \in Key
  PROVE  (IF o.pc # "grow" THEN get(t, k)
          ELSE IF Where(t, k) # {} THEN t.vals[First(Where(t, k))] ELSE get(o.new, k))
         = DictOf(t, o)[k]
<1>1. CASE IdleInv(t, l, o)
  <2>1. o.pc # "grow" /\ Sound(t) /\ Cardinality(Occupied(t)) < t.cap
    BY <1>1 DEF IdleInv, Idle, MapInv
  <2>2. QED  BY <2>1, GetIs DEF DictOf
<1>2. CASE PutInv(t, l, o)
  <2>1. o.pc # "grow" /\ Sound(t) /\ l * 4 < t.cap * 3  BY <1>2 DEF PutInv, Putting
  <2>2. Cardinality(Occupied(t)) < t.cap
    <3>1. IsTable(t) /\ l = Cardinality(Occupied(t)) /\ t.cap \in Nat
      BY DEF MapInv, IsTable
    <3>2. l \in Nat  BY <3>1, OneFree
    <3>3. QED  BY <2>1, <3>1, <3>2
  <2>3. QED  BY <2>1, <2>2, GetIs DEF DictOf
<1>3. CASE GrowInv(t, l, o)
  <2>1. PICK gi, new : o.pc = "grow" /\ o.new = new /\ Moving(t, gi, new) /\ l < t.cap
    BY <1>3 DEF GrowInv, Growing
  <2>2. Sound(new) /\ Cardinality(Occupied(new)) < new.cap
    BY <2>1, MovingFree DEF MapInv
  <2>3. get(new, k) = Look(new, k)  BY <2>2, GetIs
  <2>4. QED  BY <2>1, <2>3 DEF DictOf, Look
<1>4. QED  BY <1>1, <1>2, <1>3 DEF MapInv

\* The mapping of the model, before and after a step.
LEMMA DictIs ==
  /\ TableInv => dict = DictOf(tab, op)
  /\ TableInv' => dict' = DictOf(tab', op')
<1>1. ASSUME TableInv PROVE dict = DictOf(tab, op)
  <2>1. PICK t, o, l : t = tab /\ o = op /\ l = len  OBVIOUS
  <2>2. MapInv(t, l, o)  BY <1>1, <2>1 DEF TableInv
  <2>3. \A k \in Key :
          (IF o.pc # "grow" THEN get(t, k)
           ELSE IF Where(t, k) # {} THEN t.vals[First(Where(t, k))] ELSE get(o.new, k))
          = DictOf(t, o)[k]
    BY <2>2, DictAt
  <2>4. dict = [k \in Key |-> IF o.pc # "grow" THEN get(t, k)
                 ELSE IF Where(t, k) # {} THEN t.vals[First(Where(t, k))] ELSE get(o.new, k)]
    BY <2>1 DEF dict, Held, Where
  <2>5. DictOf(t, o) = [k \in Key |-> DictOf(t, o)[k]]  BY DEF DictOf
  <2>6. QED  BY <2>1, <2>3, <2>4, <2>5, Zenon
<1>2. ASSUME TableInv' PROVE dict' = DictOf(tab', op')
  <2>1. PICK t, o, l : t = tab' /\ o = op' /\ l = len'  OBVIOUS
  <2>2. MapInv(t, l, o)  BY <1>2, <2>1 DEF TableInv
  <2>3. \A k \in Key :
          (IF o.pc # "grow" THEN get(t, k)
           ELSE IF Where(t, k) # {} THEN t.vals[First(Where(t, k))] ELSE get(o.new, k))
          = DictOf(t, o)[k]
    BY <2>2, DictAt
  <2>4. dict' = [k \in Key |-> IF o.pc # "grow" THEN get(t, k)
                  ELSE IF Where(t, k) # {} THEN t.vals[First(Where(t, k))] ELSE get(o.new, k)]
    BY <2>1 DEF dict, Held, Where
  <2>5. DictOf(t, o) = [k \in Key |-> DictOf(t, o)[k]]  BY DEF DictOf
  <2>6. QED  BY <2>1, <2>3, <2>4, <2>5, Zenon
<1>3. QED  BY <1>1, <1>2

-----------------------------------------------------------------------------
(* The steps of an insertion.                                              *)

\* Slots outside a probe's: a key's slots are occupied and hold that key.
LEMMA WhereIs ==
  ASSUME NEW t, NEW k, NEW i \in Where(t, k)
  PROVE  i \in Occupied(t) /\ i \in Idx(t.cap) /\ i \in Nat /\ t.meta[i] = 1 /\ t.keys[i] = k
BY DEF Where, Occupied, Idx

\* An insertion begins: it puts its key or starts to grow.
LEMMA Begins ==
  ASSUME NEW t, NEW l, NEW o, MapInv(t, l, o), o = Idle, NEW k \in Key, NEW v \in Value
  PROVE  LET p == IF l * 4 >= t.cap * 3
                  THEN Growing(k, v, 0, Fresh(IF t.cap < InitCap THEN InitCap ELSE t.cap * 2))
                  ELSE Putting(k, v)
         IN  MapInv(t, l, p) /\ DictOf(t, p) = DictOf(t, o)
<1> DEFINE c == t.cap * 2
           p == IF l * 4 >= t.cap * 3
                THEN Growing(k, v, 0, Fresh(IF t.cap < InitCap THEN InitCap ELSE t.cap * 2))
                ELSE Putting(k, v)
<1>1. /\ Sound(t) /\ l < t.cap /\ IsTable(t) /\ t.cap >= InitCap
      /\ l = Cardinality(Occupied(t)) /\ l \in Nat /\ t.cap \in Nat \ {0} /\ o.pc # "grow"
  BY OneFree DEF MapInv, IdleInv, PutInv, GrowInv, Idle, Putting, Growing, IsTable
<1>2. CASE l * 4 >= t.cap * 3
  <2>1. p = Growing(k, v, 0, Fresh(c))
    BY <1>1, <1>2, TableAssumption
  <2>2. 0 \in 0 .. t.cap  BY <1>1
  <2>3. Moving(t, 0, Fresh(c))  BY <1>1, MoveBegins
  <2>4. GrowInv(t, l, p)
    <3>1. PICK new : new = Fresh(c)  OBVIOUS
    <3>2. p = Growing(k, v, 0, new) /\ Moving(t, 0, new)  BY <2>1, <2>3, <3>1
    <3>3. QED  BY <1>1, <2>2, <3>2 DEF GrowInv
  <2>5. ASSUME NEW m \in Key
        PROVE  (IF p.pc # "grow" \/ Where(t, m) # {} THEN Look(t, m) ELSE Look(p.new, m))
               = Look(t, m)
    <3>1. c \in Nat \ {0}  BY <1>1
    <3>2. Where(Fresh(c), m) = {}  BY <3>1, FreshIs
    <3>3. p.new = Fresh(c) /\ p.pc = "grow"  BY <2>1 DEF Growing
    <3>4. QED  BY <3>2, <3>3 DEF Look
  <2>6. DictOf(t, p) = DictOf(t, o)
    <3> HIDE DEF p
    <3>1. QED  BY <1>1, <2>5 DEF DictOf
  <2>7. QED  BY <1>1, <2>4, <2>6 DEF MapInv
<1>3. CASE ~(l * 4 >= t.cap * 3)
  <2>1. p = Putting(k, v)  BY <1>3
  <2>2. l * 4 < t.cap * 3  BY <1>1, <1>3
  <2>3. PutInv(t, l, p)  BY <1>1, <2>1, <2>2 DEF PutInv
  <2>4. p.pc # "grow"  BY <2>1 DEF Putting
  <2>5. DictOf(t, p) = DictOf(t, o)
    <3> HIDE DEF p
    <3>1. QED  BY <1>1, <2>4 DEF DictOf
  <2>6. QED  BY <1>1, <2>3, <2>5 DEF MapInv
<1>4. QED  BY <1>2, <1>3

\* What the state of a growing insertion is.
LEMMA GrowIs ==
  ASSUME NEW t, NEW l, NEW o, MapInv(t, l, o), o.pc = "grow"
  PROVE  /\ o.key \in Key /\ o.val \in Value /\ o.gi \in 0 .. t.cap
         /\ o = Growing(o.key, o.val, o.gi, o.new) /\ Moving(t, o.gi, o.new) /\ l < t.cap
         /\ IsTable(t) /\ t.cap >= InitCap /\ l = Cardinality(Occupied(t))
<1>1. GrowInv(t, l, o)  BY DEF MapInv, IdleInv, PutInv, Idle, Putting
<1>2. PICK k \in Key, v \in Value, gi \in 0 .. t.cap :
        \E new : o = Growing(k, v, gi, new) /\ Moving(t, gi, new) /\ l < t.cap
  BY <1>1 DEF GrowInv
<1> PICK new : o = Growing(k, v, gi, new) /\ Moving(t, gi, new) /\ l < t.cap
  BY <1>2
<1>3. o.key = k /\ o.val = v /\ o.gi = gi /\ o.new = new  BY <1>2 DEF Growing
<1>4. QED  BY <1>2, <1>3 DEF MapInv

\* An entry is moved.
LEMMA Moves ==
  ASSUME NEW t, NEW l, NEW o, MapInv(t, l, o), o.pc = "grow", o.gi < t.cap, t.meta[o.gi] = 1
  PROVE  LET k == t.keys[o.gi]
             n == o.new
             u == Set(t, o.gi, 1, Null, Null)
             p == Growing(o.key, o.val, o.gi + 1,
                          Set(n, At(k, First(Room(n, k)), n.cap), 1, k, t.vals[o.gi]))
         IN  Room(n, k) # {} /\ MapInv(u, l, p) /\ DictOf(u, p) = DictOf(t, o)
<1>1. PICK gi, new : gi = o.gi /\ new = o.new  OBVIOUS
<1>2. PICK k : k = t.keys[gi]  OBVIOUS
<1>3. PICK i : i = At(k, First(Room(new, k)), new.cap)  OBVIOUS
<1>4. PICK u, w : u = Set(t, gi, 1, Null, Null) /\ w = Set(new, i, 1, k, t.vals[gi])  OBVIOUS
<1>5. PICK p : p = Growing(o.key, o.val, gi + 1, w)  OBVIOUS
<1>6. /\ o.key \in Key /\ o.val \in Value /\ Moving(t, gi, new) /\ l < t.cap
      /\ IsTable(t) /\ t.cap >= InitCap /\ l = Cardinality(Occupied(t)) /\ gi \in Idx(t.cap)
      /\ t.meta[gi] = 1
  BY <1>1, GrowIs DEF IsTable, Idx
<1>7. /\ k \in Key /\ Room(new, k) # {}
      /\ Moving(u, gi + 1, w) /\ gi + 1 \in 0 .. t.cap
      /\ u.cap = t.cap /\ Occupied(u) = Occupied(t)
      /\ Where(t, k) = {gi} /\ Where(u, k) = {} /\ Where(w, k) = {i} /\ w.vals[i] = t.vals[gi]
      /\ \A m \in Key \ {k} : Where(u, m) = Where(t, m) /\ Where(w, m) = Where(new, m)
      /\ \A j \in Occupied(t) \ {gi} : u.vals[j] = t.vals[j]
      /\ \A j \in Occupied(new) : w.vals[j] = new.vals[j]
  <2>1. Cardinality(Occupied(t)) < t.cap  BY <1>6
  <2>2. Moved(t, gi, new)  BY <1>6, <2>1, MoveMoves
  <2>3. QED  BY <1>2, <1>3, <1>4, <2>2 DEF Moved
<1>8. MapInv(u, l, p)
  <2>1. GrowInv(u, l, p)  BY <1>5, <1>6, <1>7 DEF GrowInv
  <2>2. IsTable(u)  BY <1>7 DEF Moving
  <2>3. QED  BY <1>6, <1>7, <2>1, <2>2 DEF MapInv
<1>9. p.pc = "grow" /\ p.new = w  BY <1>5 DEF Growing
<1>10. ASSUME NEW m \in Key
       PROVE  (IF Where(u, m) # {} THEN Look(u, m) ELSE Look(w, m))
              = (IF Where(t, m) # {} THEN Look(t, m) ELSE Look(new, m))
  <2>1. CASE m = k
    <3>1. gi \in Nat /\ i \in Nat
      <4>1. gi \in Where(t, k) /\ i \in Where(w, k)  BY <1>7
      <4>2. QED  BY <4>1, WhereIs
    <3>2. Look(t, k) = t.vals[gi] /\ Look(w, k) = w.vals[i]  BY <1>7, <3>1, LookIs
    <3>3. QED  BY <1>7, <2>1, <3>2
  <2>2. CASE m # k
    <3>1. Where(u, m) = Where(t, m) /\ Where(w, m) = Where(new, m)  BY <1>7, <2>2
    <3>2. ASSUME NEW j \in Where(t, m) PROVE u.vals[j] = t.vals[j]
      <4>1. j \in Occupied(t) /\ t.keys[j] = m  BY WhereIs
      <4>2. QED  BY <1>2, <1>7, <2>2, <4>1
    <3>3. ASSUME NEW j \in Where(new, m) PROVE w.vals[j] = new.vals[j]
      <4>1. j \in Occupied(new)  BY WhereIs
      <4>2. QED  BY <1>7, <4>1
    <3>4. Look(u, m) = Look(t, m)  BY <3>1, <3>2, LookSame
    <3>5. Look(w, m) = Look(new, m)  BY <3>1, <3>3, LookSame
    <3>6. QED  BY <3>1, <3>4, <3>5
  <2>3. QED  BY <2>1, <2>2
<1>11. DictOf(u, p) = DictOf(t, o)  BY <1>1, <1>9, <1>10 DEF DictOf
<1>12. QED  BY <1>1, <1>2, <1>3, <1>4, <1>5, <1>7, <1>8, <1>11

\* A slot is passed.
LEMMA Skips ==
  ASSUME NEW t, NEW l, NEW o, MapInv(t, l, o), o.pc = "grow", o.gi < t.cap, t.meta[o.gi] # 1
  PROVE  LET p == Growing(o.key, o.val, o.gi + 1, o.new)
         IN  MapInv(t, l, p) /\ DictOf(t, p) = DictOf(t, o)
<1>1. PICK gi, new : gi = o.gi /\ new = o.new  OBVIOUS
<1>2. PICK p : p = Growing(o.key, o.val, gi + 1, new)  OBVIOUS
<1>3. /\ o.key \in Key /\ o.val \in Value /\ Moving(t, gi, new) /\ l < t.cap
      /\ IsTable(t) /\ t.cap >= InitCap /\ l = Cardinality(Occupied(t)) /\ gi \in Idx(t.cap)
      /\ t.meta[gi] # 1
  BY <1>1, GrowIs DEF IsTable, Idx
<1>4. Moving(t, gi + 1, new) /\ gi + 1 \in 0 .. t.cap  BY <1>3, MoveSkips
<1>5. GrowInv(t, l, p)  BY <1>2, <1>3, <1>4 DEF GrowInv
<1>6. p.pc = "grow" /\ p.new = new  BY <1>2 DEF Growing
<1>7. DictOf(t, p) = DictOf(t, o)  BY <1>1, <1>6 DEF DictOf
<1>8. QED  BY <1>1, <1>2, <1>3, <1>5, <1>7 DEF MapInv

\* The new buffers take over.
LEMMA Takes ==
  ASSUME NEW t, NEW l, NEW o, MapInv(t, l, o), o.pc = "grow", o.gi = t.cap
  PROVE  LET p == Putting(o.key, o.val)
         IN  MapInv(o.new, l, p) /\ DictOf(o.new, p) = DictOf(t, o)
<1>1. PICK new : new = o.new  OBVIOUS
<1>2. PICK p : p = Putting(o.key, o.val)  OBVIOUS
<1>3. /\ o.key \in Key /\ o.val \in Value /\ Moving(t, t.cap, new) /\ l < t.cap
      /\ IsTable(t) /\ t.cap >= InitCap /\ l = Cardinality(Occupied(t))
  BY <1>1, GrowIs
<1>4. /\ Sound(new) /\ new.cap = t.cap * 2
      /\ Cardinality(Occupied(new)) = Cardinality(Occupied(t))
      /\ \A k \in Key : Where(t, k) = {}
  BY <1>3, MoveEnds
<1>5. l \in Nat /\ t.cap \in Nat \ {0}  BY <1>3, OneFree DEF IsTable
<1>6. l * 4 < new.cap * 3  BY <1>3, <1>4, <1>5
<1>7. PutInv(new, l, p)  BY <1>2, <1>3, <1>4, <1>6 DEF PutInv
<1>8. MapInv(new, l, p)
  <2>1. new.cap >= InitCap  BY <1>3, <1>4, <1>5, TableAssumption
  <2>2. QED  BY <1>3, <1>4, <1>7, <2>1 DEF MapInv, Sound
<1>9. p.pc # "grow"  BY <1>2 DEF Putting
<1>10. DictOf(new, p) = DictOf(t, o)  BY <1>1, <1>4, <1>9 DEF DictOf
<1>11. QED  BY <1>1, <1>2, <1>8, <1>10
-----------------------------------------------------------------------------
(* The operations that take effect.                                        *)

\* Whether a probe hits tells whether the key is there.
LEMMA HitIs ==
  ASSUME NEW t, Sound(t), Cardinality(Occupied(t)) < t.cap, NEW k \in Key
  PROVE  /\ Hit(t, k) => Probe(t, k) \in Where(t, k)
         /\ ~Hit(t, k) => Where(t, k) = {}
<1>1. CASE Where(t, k) = {}
  <2>1. \E i \in Idx(t.cap) : t.meta[i] # 1  BY OneFree DEF Sound
  <2>2. t.meta[Probe(t, k)] # 1  BY <1>1, <2>1, ProbeMisses
  <2>3. QED  BY <1>1, <2>2 DEF Hit
<1>2. ASSUME NEW i \in Where(t, k) PROVE Hit(t, k) /\ Probe(t, k) \in Where(t, k)
  BY ProbeHits DEF Hit
<1>3. QED  BY <1>1, <1>2

\* What the state of an insertion is that puts its key: there is room for it.
LEMMA PutIs ==
  ASSUME NEW t, NEW l, NEW o, MapInv(t, l, o), o.pc = "put"
  PROVE  /\ o.key \in Key /\ o.val \in Value /\ Sound(t) /\ l \in Nat /\ l + 1 < t.cap
         /\ t.cap >= InitCap /\ l = Cardinality(Occupied(t)) /\ IsFiniteSet(Occupied(t))
<1>1. PutInv(t, l, o)  BY DEF MapInv, IdleInv, GrowInv, Idle, Growing
<1>2. PICK k \in Key, v \in Value : o = Putting(k, v) /\ Sound(t) /\ l * 4 < t.cap * 3
  BY <1>1 DEF PutInv
<1>3. o.key = k /\ o.val = v  BY <1>2 DEF Putting
<1>4. /\ l = Cardinality(Occupied(t)) /\ l \in Nat /\ IsFiniteSet(Occupied(t))
      /\ t.cap \in Nat /\ t.cap >= 4 /\ t.cap >= InitCap
  BY OneFree, TableAssumption DEF MapInv, IsTable
<1>5. l + 1 < t.cap  BY <1>2, <1>4
<1>6. QED  BY <1>2, <1>3, <1>4, <1>5

\* The key gets its value, and its slot if it is new.
LEMMA Puts ==
  ASSUME NEW t, NEW l, NEW o, MapInv(t, l, o), o.pc = "put"
  PROVE  LET i == Probe(t, o.key)
             u == Set(t, i, 1, IF Hit(t, o.key) THEN t.keys[i] ELSE o.key, o.val)
             m == IF Hit(t, o.key) THEN l ELSE l + 1
         IN  MapInv(u, m, Idle) /\ DictOf(u, Idle) = [DictOf(t, o) EXCEPT ![o.key] = o.val]
<1>1. PICK k, v : k = o.key /\ v = o.val  OBVIOUS
<1>2. PICK i : i = Probe(t, k)  OBVIOUS
<1>3. PICK u : u = Set(t, i, 1, IF Hit(t, k) THEN t.keys[i] ELSE k, v)  OBVIOUS
<1>4. PICK m : m = IF Hit(t, k) THEN l ELSE l + 1  OBVIOUS
<1>5. /\ k \in Key /\ v \in Value /\ Sound(t) /\ l \in Nat /\ l + 1 < t.cap
      /\ t.cap >= InitCap /\ l = Cardinality(Occupied(t)) /\ IsFiniteSet(Occupied(t))
      /\ t.cap \in Nat
  BY <1>1, PutIs DEF Sound, IsTable
<1>6. Cardinality(Occupied(t)) < t.cap  BY <1>5
<1>7. u.cap = t.cap
  BY <1>3 DEF Set
<1>8. /\ Sound(u) /\ m = Cardinality(Occupied(u)) /\ m < t.cap
      /\ i \in Nat /\ Where(u, k) = {i} /\ u.vals[i] = v
      /\ \A n \in Key \ {k} : Where(u, n) = Where(t, n)
      /\ \A n \in Key \ {k} : \A j \in Where(t, n) : u.vals[j] = t.vals[j]
  <2>1. CASE Hit(t, k)
    <3>1. i \in Where(t, k)  BY <1>2, <1>5, <1>6, <2>1, HitIs
    <3>2. u = Set(t, i, 1, t.keys[i], v) /\ m = l  BY <1>3, <1>4, <2>1
    <3>3. /\ Sound(u) /\ Occupied(u) = Occupied(t)
          /\ \A n \in Key : Where(u, n) = Where(t, n)
          /\ u.vals[i] = v /\ \A j \in Occupied(t) \ {i} : u.vals[j] = t.vals[j]
      BY <1>5, <3>1, <3>2, PutOver
    <3>4. Where(t, k) = {i} /\ i \in Nat /\ t.keys[i] = k
      BY <1>5, <3>1, ProbeHits, WhereIs
    <3>5. ASSUME NEW n \in Key \ {k}, NEW j \in Where(t, n) PROVE u.vals[j] = t.vals[j]
      <4>1. j \in Occupied(t) /\ t.keys[j] = n  BY WhereIs
      <4>2. QED  BY <3>3, <3>4, <4>1
    <3>6. QED  BY <1>5, <1>6, <3>2, <3>3, <3>4, <3>5
  <2>2. CASE ~Hit(t, k)
    <3>1. Where(t, k) = {}  BY <1>5, <1>6, <2>2, HitIs
    <3>2. u = Set(t, i, 1, k, v) /\ m = l + 1  BY <1>3, <1>4, <2>2
    <3>3. \E j \in Idx(t.cap) : t.meta[j] # 1  BY <1>5, <1>6, OneFree DEF Sound
    <3>4. PICK n \in Idx(t.cap) :
            /\ i = At(k, n, t.cap) /\ i \in Idx(t.cap) /\ t.meta[i] # 1
            /\ \A p \in Idx(t.cap) : p < n => t.meta[At(k, p, t.cap)] # 0
      BY <1>2, <1>5, <3>1, <3>3, ProbeMisses
    <3>5. Entry(t, u, i, k, v)  BY <1>5, <3>1, <3>2, <3>4, PutNew
    <3>6. /\ Sound(u) /\ Occupied(u) = Occupied(t) \cup {i} /\ i \notin Occupied(t)
          /\ Where(u, k) = {i} /\ u.vals[i] = v
          /\ \A q \in Key \ {k} : Where(u, q) = Where(t, q)
          /\ \A j \in Occupied(t) : u.vals[j] = t.vals[j]
      BY <3>5 DEF Entry
    <3>7. Cardinality(Occupied(u)) = l + 1  BY <1>5, <3>6, FS_AddElement
    <3>8. ASSUME NEW q \in Key \ {k}, NEW j \in Where(t, q) PROVE u.vals[j] = t.vals[j]
      <4>1. j \in Occupied(t)  BY WhereIs
      <4>2. QED  BY <3>6, <4>1
    <3>9. i \in Nat  BY <3>4 DEF Idx
    <3>10. QED  BY <1>5, <3>2, <3>6, <3>7, <3>8, <3>9
  <2>3. QED  BY <2>1, <2>2
<1>9. MapInv(u, m, Idle)
  <2>1. IdleInv(u, m, Idle)  BY <1>7, <1>8 DEF IdleInv
  <2>2. QED  BY <1>5, <1>7, <1>8, <2>1 DEF MapInv, Sound
<1>10. ASSUME NEW n \in Key PROVE Look(u, n) = IF n = k THEN v ELSE Look(t, n)
  <2>1. CASE n = k  BY <1>8, <2>1, LookIs
  <2>2. CASE n # k
    <3>1. Where(u, n) = Where(t, n) /\ \A j \in Where(t, n) : u.vals[j] = t.vals[j]
      BY <1>8, <2>2
    <3>2. QED  BY <2>2, <3>1, LookSame
  <2>3. QED  BY <2>1, <2>2
<1>11. DictOf(u, Idle) = [DictOf(t, o) EXCEPT ![k] = v]
  <2>1. Idle.pc # "grow"  BY DEF Idle
  <2>2. DictOf(u, Idle) = [n \in Key |-> Look(u, n)]  BY <2>1 DEF DictOf
  <2>3. DictOf(t, o) = [n \in Key |-> Look(t, n)]  BY DEF DictOf
  <2>4. QED  BY <1>5, <1>10, <2>2, <2>3
<1>12. QED  BY <1>1, <1>2, <1>3, <1>4, <1>9, <1>11

\* What the state between operations is.
LEMMA IdleIs ==
  ASSUME NEW t, NEW l, NEW o, MapInv(t, l, o), o = Idle
  PROVE  /\ Sound(t) /\ l \in Nat /\ l < t.cap /\ t.cap \in Nat /\ t.cap >= InitCap
         /\ l = Cardinality(Occupied(t)) /\ IsFiniteSet(Occupied(t))
         /\ DictOf(t, o) = [n \in Key |-> Look(t, n)]
<1>1. IdleInv(t, l, o)  BY DEF MapInv, PutInv, GrowInv, Idle, Putting, Growing
<1>2. QED  BY <1>1, OneFree DEF IdleInv, MapInv, IsTable, DictOf, Idle

\* A key is taken out.
LEMMA Removes ==
  ASSUME NEW t, NEW l, NEW o, MapInv(t, l, o), o = Idle, NEW k \in Key, Hit(t, k)
  PROVE  LET u == Set(t, Probe(t, k), 2, Null, Null)
         IN  MapInv(u, l - 1, o) /\ DictOf(u, o) = [DictOf(t, o) EXCEPT ![k] = Null]
<1>1. PICK i : i = Probe(t, k)  OBVIOUS
<1>2. PICK u : u = Set(t, i, 2, Null, Null)  OBVIOUS
<1>3. /\ Sound(t) /\ l \in Nat /\ l < t.cap /\ t.cap \in Nat /\ t.cap >= InitCap
      /\ l = Cardinality(Occupied(t)) /\ IsFiniteSet(Occupied(t))
      /\ DictOf(t, o) = [n \in Key |-> Look(t, n)]
  BY IdleIs
<1>4. i \in Where(t, k)  BY <1>1, <1>3, HitIs
<1>5. /\ Sound(u) /\ Occupied(u) = Occupied(t) \ {i} /\ i \in Occupied(t)
      /\ Where(u, k) = {} /\ \A n \in Key \ {k} : Where(u, n) = Where(t, n)
      /\ \A j \in Occupied(u) : u.vals[j] = t.vals[j]
  BY <1>2, <1>3, <1>4, TakeOut
<1>6. Cardinality(Occupied(u)) = l - 1  BY <1>3, <1>5, FS_RemoveElement
<1>7. u.cap = t.cap  BY <1>2 DEF Set
<1>8. MapInv(u, l - 1, o)
  <2>1. l - 1 < u.cap  BY <1>3, <1>7
  <2>2. IdleInv(u, l - 1, o)  BY <1>5, <2>1 DEF IdleInv
  <2>3. QED  BY <1>3, <1>5, <1>6, <1>7, <2>2 DEF MapInv, Sound
<1>9. ASSUME NEW n \in Key PROVE Look(u, n) = IF n = k THEN Null ELSE Look(t, n)
  <2>1. CASE n = k  BY <1>5, <2>1 DEF Look
  <2>2. CASE n # k
    <3>1. Where(u, n) = Where(t, n)  BY <1>5, <2>2
    <3>2. ASSUME NEW j \in Where(t, n) PROVE u.vals[j] = t.vals[j]
      <4>1. j \in Where(u, n)  BY <3>1
      <4>2. j \in Occupied(u)  BY <4>1, WhereIs
      <4>3. QED  BY <1>5, <4>2
    <3>3. QED  BY <2>2, <3>1, <3>2, LookSame
  <2>3. QED  BY <2>1, <2>2
<1>10. DictOf(u, o) = [n \in Key |-> Look(u, n)]  BY DEF DictOf, Idle
<1>11. DictOf(u, o) = [DictOf(t, o) EXCEPT ![k] = Null]  BY <1>3, <1>9, <1>10
<1>12. QED  BY <1>1, <1>2, <1>8, <1>11

\* All keys are taken out.
LEMMA Clears ==
  ASSUME NEW t, NEW l, NEW o, MapInv(t, l, o), o = Idle
  PROVE  LET u == [cap  |-> t.cap,
                   meta |-> [i \in Idx(t.cap) |-> IF t.meta[i] = 1 THEN 0 ELSE t.meta[i]],
                   keys |-> OfOthers(t, t.keys),
                   vals |-> OfOthers(t, t.vals)]
         IN  MapInv(u, 0, o) /\ DictOf(u, o) = [k \in Key |-> Null]
<1>1. PICK c : c = t.cap  OBVIOUS
<1>2. PICK me, ks, vs : /\ me = [i \in Idx(c) |-> IF t.meta[i] = 1 THEN 0 ELSE t.meta[i]]
                        /\ ks = OfOthers(t, t.keys) /\ vs = OfOthers(t, t.vals)
  OBVIOUS
<1>3. PICK u : u = [cap |-> c, meta |-> me, keys |-> ks, vals |-> vs]  OBVIOUS
<1>4. /\ Sound(t) /\ l \in Nat /\ l < t.cap /\ t.cap \in Nat /\ t.cap >= InitCap
  BY IdleIs
<1>5. u.cap = c /\ u.meta = me /\ u.keys = ks /\ u.vals = vs  BY <1>3
<1>6. ASSUME NEW i \in Idx(c)
      PROVE  me[i] \in {0, 2} /\ ks[i] = Null /\ vs[i] = Null
  <2>1. t.meta[i] \in 0 .. 2 /\ (t.meta[i] # 1 => t.keys[i] = Null /\ t.vals[i] = Null)
    BY <1>1, <1>4 DEF Sound, Entered, Empty, IsTable
  <2>2. QED  BY <1>1, <1>2, <2>1 DEF OfOthers
<1>7. me \in [Idx(c) -> 0 .. 2]
  <2>1. \A i \in Idx(c) : (IF t.meta[i] = 1 THEN 0 ELSE t.meta[i]) \in 0 .. 2
    BY <1>1, <1>4 DEF Sound, IsTable
  <2>2. QED  BY <1>2, <2>1
<1>8. ks \in [Idx(c) -> Key \cup {Null}] /\ vs \in [Idx(c) -> Value \cup {Null}]
  <2>1. ks = [i \in Idx(c) |-> ks[i]] /\ vs = [i \in Idx(c) |-> vs[i]]
    BY <1>1, <1>2 DEF OfOthers
  <2>2. \A i \in Idx(c) : ks[i] \in Key \cup {Null} /\ vs[i] \in Value \cup {Null}  BY <1>6
  <2>3. QED  BY <2>1, <2>2
<1>9. IsTable(u)  BY <1>1, <1>4, <1>5, <1>7, <1>8 DEF IsTable, Sound
<1>10. Sound(u) /\ Occupied(u) = {} /\ \A k \in Key : Where(u, k) = {}
  <2>1. \A i \in Idx(u.cap) : u.meta[i] # 1 /\ u.keys[i] = Null /\ u.vals[i] = Null
    BY <1>5, <1>6
  <2>2. QED  BY <1>9, <2>1, Vacant
<1>11. MapInv(u, 0, o)
  <2>1. 0 < c  BY <1>1, <1>4
  <2>2. IdleInv(u, 0, o)  BY <1>5, <1>10, <2>1 DEF IdleInv
  <2>3. 0 = Cardinality(Occupied(u))  BY <1>10, FS_EmptySet
  <2>4. QED  BY <1>1, <1>4, <1>5, <1>9, <2>2, <2>3 DEF MapInv
<1>12. DictOf(u, o) = [k \in Key |-> Null]
  <2>1. DictOf(u, o) = [n \in Key |-> Look(u, n)]  BY DEF DictOf, Idle
  <2>2. \A n \in Key : Look(u, n) = Null  BY <1>10 DEF Look
  <2>3. QED  BY <2>1, <2>2
<1>13. QED  BY <1>1, <1>2, <1>3, <1>11, <1>12

\* A clone has the same entries.
LEMMA Clones ==
  ASSUME NEW t, NEW l, NEW o, MapInv(t, l, o), o = Idle
  PROVE  LET u == IF l = 0 THEN Fresh(InitCap)
                  ELSE [cap  |-> t.cap,
                        meta |-> t.meta,
                        keys |-> OfOccupied(t, t.keys),
                        vals |-> OfOccupied(t, t.vals)]
         IN  MapInv(u, l, o) /\ DictOf(u, o) = DictOf(t, o)
<1> DEFINE Copy == [cap  |-> t.cap,
                    meta |-> t.meta,
                    keys |-> OfOccupied(t, t.keys),
                    vals |-> OfOccupied(t, t.vals)]
<1>1. PICK u : u = IF l = 0 THEN Fresh(InitCap) ELSE Copy  OBVIOUS
<1>2. /\ Sound(t) /\ l \in Nat /\ l < t.cap /\ t.cap \in Nat /\ t.cap >= InitCap
      /\ l = Cardinality(Occupied(t)) /\ IsFiniteSet(Occupied(t))
      /\ DictOf(t, o) = [n \in Key |-> Look(t, n)]
  BY IdleIs
<1>3. DictOf(u, o) = [n \in Key |-> Look(u, n)]  BY DEF DictOf, Idle
<1>4. CASE l = 0
  <2>1. InitCap \in Nat \ {0}  BY TableAssumption
  <2>2. u = Fresh(InitCap)  BY <1>1, <1>4
  <2>3. Sound(u) /\ u.cap = InitCap /\ Occupied(u) = {} /\ \A k \in Key : Where(u, k) = {}
    BY <2>1, <2>2, FreshIs
  <2>4. IdleInv(u, l, o)  BY <1>4, <2>1, <2>3 DEF IdleInv
  <2>5. MapInv(u, l, o)
    <3>1. l = Cardinality(Occupied(u))  BY <1>4, <2>3, FS_EmptySet
    <3>2. QED  BY <2>1, <2>3, <2>4, <3>1 DEF MapInv, Sound
  <2>6. ASSUME NEW k \in Key PROVE Look(u, k) = Look(t, k)
    <3>1. Occupied(t) = {}  BY <1>2, <1>4, FS_EmptySet
    <3>2. Where(t, k) = {}  BY <3>1 DEF Where
    <3>3. QED  BY <2>3, <3>2 DEF Look
  <2>7. DictOf(u, o) = DictOf(t, o)  BY <1>2, <1>3, <2>6
  <2>8. QED  BY <1>1, <2>5, <2>7
<1>5. CASE l # 0
  <2>1. u = Copy  BY <1>1, <1>5
  <2>2. u.cap = t.cap /\ u.meta = t.meta  BY <2>1
  <2>3. u.keys = t.keys /\ u.vals = t.vals
    <3>1. /\ t.keys \in [Idx(t.cap) -> Key \cup {Null}]
          /\ t.vals \in [Idx(t.cap) -> Value \cup {Null}]
      BY <1>2 DEF Sound, IsTable
    <3>2. \A i \in Idx(t.cap) : t.meta[i] # 1 => t.keys[i] = Null /\ t.vals[i] = Null
      BY <1>2 DEF Sound, Entered, Empty
    <3>3. u.keys = OfOccupied(t, t.keys) /\ u.vals = OfOccupied(t, t.vals)  BY <2>1
    <3>4. OfOccupied(t, t.keys) = t.keys
      <4>1. PICK ks : ks = t.keys  OBVIOUS
      <4>2. ks = [i \in Idx(t.cap) |-> ks[i]]  BY <3>1, <4>1
      <4>3. \A i \in Idx(t.cap) : (IF t.meta[i] = 1 THEN ks[i] ELSE Null) = ks[i]
        BY <3>2, <4>1
      <4>4. QED  BY <4>1, <4>2, <4>3 DEF OfOccupied
    <3>5. OfOccupied(t, t.vals) = t.vals
      <4>1. PICK vs : vs = t.vals  OBVIOUS
      <4>2. vs = [i \in Idx(t.cap) |-> vs[i]]  BY <3>1, <4>1
      <4>3. \A i \in Idx(t.cap) : (IF t.meta[i] = 1 THEN vs[i] ELSE Null) = vs[i]
        BY <3>2, <4>1
      <4>4. QED  BY <4>1, <4>2, <4>3 DEF OfOccupied
    <3>6. QED  BY <3>3, <3>4, <3>5
  <2>4. Sound(u) /\ Occupied(u) = Occupied(t) /\ \A k \in Key : Where(u, k) = Where(t, k)
    BY <1>2, <2>2, <2>3, Alike
  <2>5. IdleInv(u, l, o)  BY <1>2, <2>2, <2>4 DEF IdleInv
  <2>6. MapInv(u, l, o)  BY <1>2, <2>2, <2>4, <2>5 DEF MapInv, Sound
  <2>7. ASSUME NEW k \in Key PROVE Look(u, k) = Look(t, k)
    BY <2>3, <2>4 DEF Look
  <2>8. DictOf(u, o) = DictOf(t, o)  BY <1>2, <1>3, <2>7
  <2>9. QED  BY <1>1, <2>6, <2>8
<1>6. QED  BY <1>4, <1>5

-----------------------------------------------------------------------------
(* The length counts the keys: each occupied slot holds one of them.       *)

\* The keys a table holds are as many as its occupied slots.
LEMMA KeysCount ==
  ASSUME NEW t, Sound(t)
  PROVE  Cardinality({k \in Key : Look(t, k) # Null}) = Cardinality(Occupied(t))
<1> DEFINE S == Occupied(t)
           T == {k \in Key : Look(t, k) # Null}
           f == [i \in S |-> t.keys[i]]
<1>1. IsFiniteSet(S)  BY OneFree DEF Sound
<1>2. ASSUME NEW i \in S
      PROVE  t.keys[i] \in T
  <2>1. PICK k : k = t.keys[i]  OBVIOUS
  <2>2. k \in Key /\ t.vals[i] \in Value /\ i \in Nat
    BY <2>1 DEF Sound, Entered, Occupied, Idx
  <2>3. i \in Where(t, k)  BY <2>1 DEF Where
  <2>4. Where(t, k) = {i}  BY <2>2, <2>3, ProbeHits
  <2>5. Look(t, k) = t.vals[i]  BY <2>2, <2>4, LookIs
  <2>6. Look(t, k) # Null  BY <2>2, <2>5, TableAssumption
  <2>7. QED  BY <2>1, <2>2, <2>6
<1>3. ASSUME NEW k \in T
      PROVE  \E i \in S : t.keys[i] = k
  <2>1. Where(t, k) # {}  BY DEF Look
  <2>2. QED  BY <2>1 DEF Where
<1>4. \A i, j \in S : t.keys[i] = t.keys[j] => i = j
  BY DEF Sound, Entered, Occupied
<1> HIDE DEF S, T
<1>5. f \in Surjection(S, T)  BY <1>2, <1>3 DEF Surjection
<1>6. f \in Injection(S, T)  BY <1>2, <1>4 DEF Injection, IsInjective
<1>7. Cardinality(T) = Cardinality(S)  BY <1>1, <1>5, <1>6, FS_Surjection
<1>8. QED  BY <1>7 DEF S, T

\* len, wherever the map is whole.
LEMMA SizeIs ==
  ASSUME NEW t, NEW l, NEW o, MapInv(t, l, o), o = Idle
  PROVE  l = Cardinality({k \in Key : DictOf(t, o)[k] # Null})
<1>1. /\ Sound(t) /\ l = Cardinality(Occupied(t))
      /\ DictOf(t, o) = [n \in Key |-> Look(t, n)]
  BY IdleIs
<1>2. {k \in Key : DictOf(t, o)[k] # Null} = {k \in Key : Look(t, k) # Null}  BY <1>1
<1>3. QED  BY <1>1, <1>2, KeysCount

-----------------------------------------------------------------------------
(* The steps of the model.                                                 *)

\* What a finished operation makes the dictionary.
Seen(d) ==
  TableInv' /\ op' = Idle /\ DictOf(tab', op') = d /\ len' = Cardinality(Abstract!Bound(d))

\* An insertion begins.
LEMMA InsertStep ==
  ASSUME TableInv, NEW k \in Key, NEW v \in Value, insert(k, v)
  PROVE  Unseen
<1>1. PICK t, l, o : t = tab /\ l = len /\ o = op  OBVIOUS
<1>2. MapInv(t, l, o) /\ o = Idle  BY <1>1 DEF TableInv, insert
<1>3. PICK p : p = IF l * 4 >= t.cap * 3
                   THEN Growing(k, v, 0, Fresh(IF t.cap < InitCap THEN InitCap ELSE t.cap * 2))
                   ELSE Putting(k, v)
  OBVIOUS
<1>4. op' = p /\ tab' = t /\ len' = l
  BY <1>1, <1>3 DEF insert, NeedsGrowth, NewCap
<1>5. MapInv(t, l, p) /\ DictOf(t, p) = DictOf(t, o)  BY <1>2, <1>3, Begins
<1>6. QED  BY <1>1, <1>4, <1>5 DEF Unseen, TableInv

\* An entry is moved to the new buffers.
LEMMA MoveStep ==
  ASSUME TableInv, GrowMove
  PROVE  Unseen
<1>1. PICK t, l, o : t = tab /\ l = len /\ o = op  OBVIOUS
<1>2. MapInv(t, l, o) /\ o.pc = "grow" /\ o.gi < t.cap /\ t.meta[o.gi] = 1
  BY <1>1 DEF TableInv, GrowMove
<1>3. PICK u : u = Set(t, o.gi, 1, Null, Null)  OBVIOUS
<1>4. PICK k, n : k = t.keys[o.gi] /\ n = o.new  OBVIOUS
<1>5. PICK p : p = Growing(o.key, o.val, o.gi + 1,
                     Set(n, At(k, First(Room(n, k)), n.cap), 1, k, t.vals[o.gi]))
  OBVIOUS
<1>6. op' = p /\ tab' = u /\ len' = l  BY <1>1, <1>3, <1>4, <1>5 DEF GrowMove
<1>7. MapInv(u, l, p) /\ DictOf(u, p) = DictOf(t, o)  BY <1>2, <1>3, <1>4, <1>5, Moves
<1>8. QED  BY <1>1, <1>6, <1>7 DEF Unseen, TableInv

\* A slot is passed.
LEMMA SkipStep ==
  ASSUME TableInv, GrowSkip
  PROVE  Unseen
<1>1. PICK t, l, o : t = tab /\ l = len /\ o = op  OBVIOUS
<1>2. MapInv(t, l, o) /\ o.pc = "grow" /\ o.gi < t.cap /\ t.meta[o.gi] # 1
  BY <1>1 DEF TableInv, GrowSkip
<1>3. PICK p : p = Growing(o.key, o.val, o.gi + 1, o.new)  OBVIOUS
<1>4. op' = p /\ tab' = t /\ len' = l  BY <1>1, <1>3 DEF GrowSkip
<1>5. MapInv(t, l, p) /\ DictOf(t, p) = DictOf(t, o)  BY <1>2, <1>3, Skips
<1>6. QED  BY <1>1, <1>4, <1>5 DEF Unseen, TableInv

\* The new buffers take over.
LEMMA DoneStep ==
  ASSUME TableInv, GrowDone
  PROVE  Unseen
<1>1. PICK t, l, o : t = tab /\ l = len /\ o = op  OBVIOUS
<1>2. MapInv(t, l, o) /\ o.pc = "grow" /\ o.gi = t.cap  BY <1>1 DEF TableInv, GrowDone
<1>3. PICK p, u : p = Putting(o.key, o.val) /\ u = o.new  OBVIOUS
<1>4. op' = p /\ tab' = u /\ len' = l  BY <1>1, <1>3 DEF GrowDone
<1>5. MapInv(u, l, p) /\ DictOf(u, p) = DictOf(t, o)  BY <1>2, <1>3, Takes
<1>6. QED  BY <1>1, <1>4, <1>5 DEF Unseen, TableInv

\* The inserted key has its value.
LEMMA PutStep ==
  ASSUME TableInv, Put
  PROVE  op.key \in Key /\ op.val \in Value /\ Seen([DictOf(tab, op) EXCEPT ![op.key] = op.val])
<1>1. PICK t, l, o : t = tab /\ l = len /\ o = op  OBVIOUS
<1>2. MapInv(t, l, o) /\ o.pc = "put"  BY <1>1 DEF TableInv, Put
<1>3. PICK i : i = Probe(t, o.key)  OBVIOUS
<1>4. PICK u : u = Set(t, i, 1, IF Hit(t, o.key) THEN t.keys[i] ELSE o.key, o.val)  OBVIOUS
<1>5. PICK m : m = IF Hit(t, o.key) THEN l ELSE l + 1  OBVIOUS
<1>6. tab' = u /\ len' = m /\ op' = Idle
  BY <1>1, <1>3, <1>4, <1>5, Zenon DEF Put
<1>7. MapInv(u, m, Idle) /\ DictOf(u, Idle) = [DictOf(t, o) EXCEPT ![o.key] = o.val]
  BY <1>2, <1>3, <1>4, <1>5, Puts
<1>8. o.key \in Key /\ o.val \in Value  BY <1>2, PutIs
<1>9. PICK p : p = Idle  OBVIOUS
<1>10. m = Cardinality({k \in Key : DictOf(u, p)[k] # Null})  BY <1>7, <1>9, SizeIs
<1>11. QED  BY <1>1, <1>6, <1>7, <1>8, <1>9, <1>10 DEF Seen, TableInv, Abstract!Bound

\* The removed key has none.
LEMMA RemoveStep ==
  ASSUME TableInv, NEW k \in Key, remove(k)
  PROVE  Seen([DictOf(tab, op) EXCEPT ![k] = Null])
<1>1. PICK t, l, o : t = tab /\ l = len /\ o = op  OBVIOUS
<1>2. MapInv(t, l, o) /\ o = Idle /\ Hit(t, k)  BY <1>1 DEF TableInv, remove
<1>3. PICK u : u = Set(t, Probe(t, k), 2, Null, Null)  OBVIOUS
<1>4. PICK m : m = l - 1  OBVIOUS
<1>5. tab' = u /\ len' = m /\ op' = o  BY <1>1, <1>3, <1>4 DEF remove
<1>6. MapInv(u, m, o) /\ DictOf(u, o) = [DictOf(t, o) EXCEPT ![k] = Null]
  BY <1>2, <1>3, <1>4, Removes
<1>7. m = Cardinality({n \in Key : DictOf(u, o)[n] # Null})
  <2>1. MapInv(u, m, o) /\ o = Idle  BY <1>2, <1>6
  <2>2. QED  BY <2>1, SizeIs
<1>8. QED  BY <1>1, <1>2, <1>5, <1>6, <1>7 DEF Seen, TableInv, Abstract!Bound

\* No key has a value.
LEMMA ClearStep ==
  ASSUME TableInv, clear
  PROVE  Seen([k \in Key |-> Null])
<1>1. PICK t, l, o : t = tab /\ l = len /\ o = op  OBVIOUS
<1>2. MapInv(t, l, o) /\ o = Idle  BY <1>1 DEF TableInv, clear
<1>3. PICK u : u = [cap  |-> t.cap,
                    meta |-> [i \in Idx(t.cap) |-> IF t.meta[i] = 1 THEN 0 ELSE t.meta[i]],
                    keys |-> OfOthers(t, t.keys),
                    vals |-> OfOthers(t, t.vals)]
  OBVIOUS
<1>4. tab' = u /\ len' = 0 /\ op' = o  BY <1>1, <1>3 DEF clear
<1>5. MapInv(u, 0, o) /\ DictOf(u, o) = [k \in Key |-> Null]  BY <1>2, <1>3, Clears
<1>6. PICK m : m = 0  OBVIOUS
<1>7. m = Cardinality({n \in Key : DictOf(u, o)[n] # Null})  BY <1>2, <1>5, <1>6, SizeIs
<1>8. QED  BY <1>1, <1>2, <1>4, <1>5, <1>6, <1>7 DEF Seen, TableInv, Abstract!Bound

\* The program goes on with a clone.
LEMMA CloneStep ==
  ASSUME TableInv, map_clone
  PROVE  Unseen
<1>1. PICK t, l, o : t = tab /\ l = len /\ o = op  OBVIOUS
<1>2. MapInv(t, l, o) /\ o = Idle  BY <1>1 DEF TableInv, map_clone
<1>3. PICK u : u = IF l = 0 THEN Fresh(InitCap)
                   ELSE [cap  |-> t.cap,
                         meta |-> t.meta,
                         keys |-> OfOccupied(t, t.keys),
                         vals |-> OfOccupied(t, t.vals)]
  OBVIOUS
<1>4. tab' = u /\ len' = l /\ op' = o  BY <1>1, <1>3 DEF map_clone
<1>5. MapInv(u, l, o) /\ DictOf(u, o) = DictOf(t, o)  BY <1>2, <1>3, Clones
<1>6. QED  BY <1>1, <1>4, <1>5 DEF Unseen, TableInv

-----------------------------------------------------------------------------
(* The theorems.                                                           *)

\* A new map is empty.
LEMMA InitInv == Init => TableInv /\ DictOf(tab, op) = [k \in Key |-> Null] /\ len = 0
<1> SUFFICES ASSUME Init PROVE TableInv /\ DictOf(tab, op) = [k \in Key |-> Null] /\ len = 0
  OBVIOUS
<1>1. InitCap \in Nat \ {0}  BY TableAssumption
<1>2. PICK t, o : t = Fresh(InitCap) /\ o = Idle  OBVIOUS
<1>3. tab = t /\ len = 0 /\ op = o  BY <1>2 DEF Init
<1>4. /\ Sound(t) /\ t.cap = InitCap /\ Occupied(t) = {}
      /\ \A k \in Key : Where(t, k) = {}
  BY <1>1, <1>2, FreshIs
<1>5. IdleInv(t, 0, o)  BY <1>1, <1>2, <1>4 DEF IdleInv
<1>6. MapInv(t, 0, o)
  <2>1. 0 = Cardinality(Occupied(t))  BY <1>4, FS_EmptySet
  <2>2. QED  BY <1>1, <1>4, <1>5, <2>1 DEF MapInv, Sound
<1>7. DictOf(t, o) = [k \in Key |-> Null]  BY <1>2, <1>4 DEF DictOf, Idle, Look
<1>8. QED  BY <1>3, <1>6, <1>7 DEF TableInv

\* A step is a dictionary's, or the dictionary does not see it.
LEMMA StepIs ==
  ASSUME TableInv, [Next]_vars
  PROVE  \/ Unseen
         \/ \E k \in Key, v \in Value : Seen([DictOf(tab, op) EXCEPT ![k] = v])
         \/ \E k \in Key : Seen([DictOf(tab, op) EXCEPT ![k] = Null])
         \/ Seen([k \in Key |-> Null])
<1>1. ASSUME NEW k \in Key, NEW v \in Value, insert(k, v) PROVE Unseen  BY <1>1, InsertStep
<1>2. CASE GrowMove  BY <1>2, MoveStep
<1>3. CASE GrowSkip  BY <1>3, SkipStep
<1>4. CASE GrowDone  BY <1>4, DoneStep
<1>5. CASE Put  BY <1>5, PutStep
<1>6. ASSUME NEW k \in Key, remove(k) PROVE Seen([DictOf(tab, op) EXCEPT ![k] = Null])
  BY <1>6, RemoveStep
<1>7. CASE clear  BY <1>7, ClearStep
<1>8. CASE map_clone  BY <1>8, CloneStep
<1>9. CASE UNCHANGED vars  BY <1>9 DEF vars, Unseen, TableInv
<1>10. QED
  BY Zenon, <1>1, <1>2, <1>3, <1>4, <1>5, <1>6, <1>7, <1>8, <1>9 DEF Next, Insertion

\* The invariant holds: chains unbroken, no key twice, free slots empty, len
\* the occupied slots, a free slot always left, and in the middle of growth the
\* entries behind the index in the new buffers and the others in the old ones.
THEOREM Invariance == Spec => []TableInv
<1>1. Init => TableInv  BY InitInv
<1>2. TableInv /\ [Next]_vars => TableInv'  BY StepIs DEF Unseen, Seen
<1>3. QED  BY <1>1, <1>2, PTL DEF Spec

\* std/map.ring's buffers are as long as the map believes, and neither a slot
\* that is not occupied nor one that growth has passed holds a reference: no
\* ring_slot_write overwrites one, and freeing the buffers loses none.
THEOREM BuffersHold == Spec => []TableOK
<1>1. TableInv => TableOK
  <2> SUFFICES ASSUME TableInv PROVE TableOK  OBVIOUS
  <2>1. PICK t, l, o : t = tab /\ l = len /\ o = op  OBVIOUS
  <2>2. MapInv(t, l, o) /\ IsTable(t) /\ l \in Nat /\ t.cap \in Nat
    BY <2>1, OneFree DEF TableInv, MapInv, IsTable
  <2>3. CASE o = Idle
    <3>1. Sound(t) /\ l < t.cap  BY <2>2, <2>3, IdleIs
    <3>2. o.pc = "idle"  BY <2>3 DEF Idle
    <3>3. QED
      BY <2>1, <2>2, <3>1, <3>2 DEF TableOK, TypeOK, FreeSlotsHoldNothing, Sound, Entered
  <2>4. CASE o.pc = "put"
    <3>1. Sound(t) /\ l < t.cap  BY <2>2, <2>4, PutIs
    <3>2. QED
      BY <2>1, <2>2, <2>4, <3>1 DEF TableOK, TypeOK, FreeSlotsHoldNothing, Sound, Entered
  <2>5. CASE o.pc = "grow"
    <3>1. PICK gi, new : gi = o.gi /\ new = o.new  OBVIOUS
    <3>2. /\ gi \in 0 .. t.cap /\ Moving(t, gi, new) /\ l < t.cap
      BY <2>2, <2>5, <3>1, GrowIs
    <3>3. \A i \in Idx(t.cap) : t.meta[i] # 1 \/ i < gi => Empty(t, i)
      <4>1. \A i \in Idx(t.cap) : i \in Nat  BY DEF Idx
      <4>2. \A i \in Idx(t.cap) : i < gi => ~(gi <= i)  BY <3>2, <4>1
      <4>3. QED  BY <3>2, <4>2 DEF Moving
    <3>4. IsTable(new) /\ \A i \in Idx(new.cap) : new.meta[i] # 1 => Empty(new, i)
      BY <3>2 DEF Moving, Sound, Entered
    <3>5. QED
      BY <2>1, <2>2, <2>5, <3>1, <3>2, <3>3, <3>4 DEF TableOK, TypeOK, FreeSlotsHoldNothing
  <2>6. o = Idle \/ o.pc = "put" \/ o.pc = "grow"
    BY <2>2 DEF MapInv, IdleInv, PutInv, GrowInv, Putting, Growing
  <2>7. QED  BY <2>3, <2>4, <2>5, <2>6
<1>2. QED  BY <1>1, Invariance, PTL

\* map_probe_index finds a key exactly when it is stored, at the one slot that
\* holds it, whatever removals and growth came before and whatever the hashes.
THEOREM ProbesFind == Spec => []Findable
<1>1. TableInv => Findable
  <2> SUFFICES ASSUME TableInv, op.pc # "grow", NEW k \in Key
               PROVE  IF Held(k) = {} THEN ~Hit(tab, k) ELSE Held(k) = {Probe(tab, k)}
    BY DEF Findable
  <2>1. PICK t, l, o : t = tab /\ l = len /\ o = op  OBVIOUS
  <2>2. MapInv(t, l, o) /\ IsTable(t) /\ l \in Nat /\ t.cap \in Nat
    BY <2>1, OneFree DEF TableInv, MapInv, IsTable
  <2>3. Sound(t) /\ Cardinality(Occupied(t)) < t.cap
    <3>1. CASE o = Idle  BY <2>2, <3>1, IdleIs
    <3>2. CASE o.pc = "put"
      <4>1. Sound(t) /\ l + 1 < t.cap /\ l = Cardinality(Occupied(t))  BY <2>2, <3>2, PutIs
      <4>2. QED  BY <2>2, <4>1
    <3>3. QED
      BY <2>1, <2>2, <3>1, <3>2 DEF MapInv, IdleInv, PutInv, GrowInv, Putting, Growing
  <2>4. Held(k) = Where(t, k)  BY <2>1 DEF Held, Where
  <2>5. CASE Where(t, k) = {}
    <3>1. ~Hit(t, k)
      <4>1. Hit(t, k) => Probe(t, k) \in Where(t, k)  BY <2>3, HitIs
      <4>2. QED  BY <2>5, <4>1
    <3>2. QED  BY <2>1, <2>4, <2>5, <3>1
  <2>6. ASSUME NEW i \in Where(t, k)
        PROVE  Where(t, k) = {Probe(t, k)}
    BY <2>3, ProbeHits
  <2>7. QED  BY <2>1, <2>4, <2>5, <2>6
<1>2. QED  BY <1>1, Invariance, PTL

\* The abstract specification counts as the model does.
LEMMA SameCardinality ==
  ASSUME NEW S
  PROVE  Abstract!Cardinality(S) = Cardinality(S)
BY DEF Abstract!Cardinality, Cardinality

\* The map is a dictionary: get answers what was last put, len is the number of
\* keys, and neither growth nor cloning changes either.
THEOREM IsDictionary == Spec => Dictionary
<1>1. Init => Abstract!Init
  <2> SUFFICES ASSUME Init PROVE Abstract!Init  OBVIOUS
  <2>1. TableInv /\ DictOf(tab, op) = [k \in Key |-> Null] /\ len = 0  BY InitInv
  <2>2. dict = DictOf(tab, op)  BY <2>1, DictIs
  <2>3. QED  BY <2>1, <2>2 DEF Abstract!Init
<1>2. TableInv /\ [Next]_vars => [Abstract!Next]_(Abstract!dvars)
  <2> SUFFICES ASSUME TableInv, [Next]_vars PROVE [Abstract!Next]_(Abstract!dvars)  OBVIOUS
  <2>1. TableInv'  BY StepIs DEF Unseen, Seen
  <2>2. dict = DictOf(tab, op) /\ dict' = DictOf(tab', op')  BY <2>1, DictIs
  <2>3. CASE Unseen  BY <2>2, <2>3 DEF Unseen, Abstract!dvars
  <2>4. ASSUME NEW k \in Key, NEW v \in Value, Seen([DictOf(tab, op) EXCEPT ![k] = v])
        PROVE  Abstract!Next
    <3>1. Abstract!insert(k, v)  BY <2>2, <2>4 DEF Seen, Abstract!insert
    <3>2. len' = Cardinality(Abstract!Bound(dict'))  BY <2>2, <2>4 DEF Seen
    <3>3. QED  BY <3>1, <3>2, SameCardinality DEF Abstract!Next
  <2>5. ASSUME NEW k \in Key, Seen([DictOf(tab, op) EXCEPT ![k] = Null])
        PROVE  Abstract!Next
    <3>1. Abstract!remove(k)  BY <2>2, <2>5 DEF Seen, Abstract!remove
    <3>2. len' = Cardinality(Abstract!Bound(dict'))  BY <2>2, <2>5 DEF Seen
    <3>3. QED  BY <3>1, <3>2, SameCardinality DEF Abstract!Next
  <2>6. CASE Seen([k \in Key |-> Null])
    <3>1. Abstract!clear  BY <2>2, <2>6 DEF Seen, Abstract!clear
    <3>2. len' = Cardinality(Abstract!Bound(dict'))  BY <2>2, <2>6 DEF Seen
    <3>3. QED  BY <3>1, <3>2, SameCardinality DEF Abstract!Next
  <2>7. QED  BY StepIs, <2>3, <2>4, <2>5, <2>6
<1>3. QED  BY <1>1, <1>2, Invariance, PTL DEF Spec, Dictionary, Abstract!Spec

\* Rehashing finds a free slot in the new buffers for every entry: the loop
\* that looks for one ends, and GrowMove is never stuck.
HasRoom ==
  op.pc = "grow" /\ op.gi < tab.cap /\ tab.meta[op.gi] = 1 => Room(op.new, tab.keys[op.gi]) # {}

\* It is so whenever an insertion grows.
THEOREM GrowthHasRoom == Spec => []HasRoom
<1>1. TableInv => HasRoom
  <2> SUFFICES ASSUME TableInv, op.pc = "grow", op.gi < tab.cap, tab.meta[op.gi] = 1
               PROVE  Room(op.new, tab.keys[op.gi]) # {}
    BY DEF HasRoom
  <2>1. PICK t, l, o : t = tab /\ l = len /\ o = op  OBVIOUS
  <2>2. MapInv(t, l, o) /\ o.pc = "grow" /\ o.gi < t.cap /\ t.meta[o.gi] = 1
    BY <2>1 DEF TableInv
  <2>3. Room(o.new, t.keys[o.gi]) # {}  BY <2>2, Moves
  <2>4. QED  BY <2>1, <2>3
<1>2. QED  BY <1>1, Invariance, PTL
=============================================================================
