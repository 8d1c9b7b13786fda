------------------------------ MODULE ListBuffer -----------------------------
(* std/list.ring over the slot bridge of ring_runtime.cpp: a list is a buffer *)
(* of slots and a length, and only the slots below the length own what they   *)
(* hold.  Growth, shift and take move references between slots without        *)
(* counting, so a stale copy may stay behind past the length; read and        *)
(* replace count.  Elements are blocks without fields of their own.           *)
(*                                                                            *)
(* A list is shared by reference, so a callback that captured it can change   *)
(* it while a method is walking over it.                                      *)
EXTENDS Integers, Sequences, FiniteSets, Functions

CONSTANTS
    ListId, Elem, Null,
    Walks,      \* the walking methods that run
    Changing,   \* those whose callback may change the list it walks over
    MaxLen,     \* bound: elements in all lists together
    MaxHeld     \* bound: references to one element in the program's variables

ASSUME ListAssumption ==
    /\ Null \notin Elem
    /\ Walks \subseteq {"each", "filter", "map"} /\ Changing \subseteq Walks
    /\ MaxLen \in Nat /\ MaxHeld \in Nat

VARIABLES
    lists,   \* the lists there are: [buf, len]; the capacity is Len(buf)
    rc,      \* reference counts; 0 is a block that is not allocated
    held,    \* references the program's variables own
    walk,    \* the walk that is running, Idle for none
    fault    \* "none", "bounds": a slot outside the list, "dead": a freed block
vars == <<lists, rc, held, walk, fault>>

Idle == [kind |-> "none"]
Walking == walk # Idle
Calling == Walking /\ walk.call

Slots(n) == [i \in 1 .. n |-> Null]
Buffer(buf, len) == [buf |-> buf, len |-> len]
Empty == Buffer(<< >>, 0)
Items(x) == SubSeq(x.buf, 1, x.len)
Occurs(v, s) == Cardinality({i \in DOMAIN s : s[i] = v})

\* The slots that own a reference to v: a slot at or past the length owns nothing.
Holding(x, v) == {i \in 1 .. x.len : x.buf[i] = v}
Owners(v) == UNION {{l} \X Holding(lists[l], v) : l \in DOMAIN lists}
Total == Cardinality(UNION {{l} \X (1 .. lists[l].len) : l \in DOMAIN lists})

TypeOK ==
    /\ DOMAIN lists \subseteq ListId
    /\ \A l \in DOMAIN lists : /\ lists[l].buf \in Seq(Elem \union {Null})
                               /\ lists[l].len \in 0 .. Len(lists[l].buf)
    /\ rc \in [Elem -> Nat]
    /\ held \in [Elem -> 0 .. MaxHeld]
    /\ fault \in {"none", "bounds", "dead"}

Init == /\ lists = [l \in {} |-> Empty]
        /\ rc = [v \in Elem |-> 0]
        /\ held = rc
        /\ walk = Idle
        /\ fault = "none"

\* ring_dup of what dups names, then ring_drop of what drops names.  Null is
\* skipped; either of them on a freed block is a fault.
Counted(dups, drops) ==
    LET dead == \E v \in Elem : \/ rc[v] = 0 /\ Occurs(v, dups) > 0
                                \/ rc[v] + Occurs(v, dups) < Occurs(v, drops)
    IN  /\ rc' = [v \in Elem |-> rc[v] + Occurs(v, dups) - Occurs(v, drops)]
        /\ fault' = IF dead THEN "dead" ELSE fault
Uncounted == UNCHANGED <<rc, fault>>

Update(l, x) == lists' = [lists EXCEPT ![l] = x]
With(l, x) == lists' = [m \in DOMAIN lists \union {l} |-> IF m = l THEN x ELSE lists[m]]
Hold(v)  == held[v] < MaxHeld /\ held' = [held EXCEPT ![v] = @ + 1]
Keep == UNCHANGED <<held, walk>>

\* Some list can be used by the running code: any while nothing walks, and a
\* callback's captured one while it is called.
Usable(l) == /\ l \in DOMAIN lists
             /\ fault = "none"
             /\ Walking => walk.call /\ walk.kind \in Changing
----------------------------------------------------------------------------
\* A variable is bound to a new element, and a variable goes out of scope.
Alloc(v) == /\ fault = "none" /\ ~Walking
            /\ rc[v] = 0
            /\ rc' = [rc EXCEPT ![v] = 1]
            /\ Hold(v)
            /\ UNCHANGED <<lists, walk, fault>>

Release(v) == /\ fault = "none"
              /\ Walking => walk.call
              /\ held[v] > 0
              /\ held' = [held EXCEPT ![v] = @ - 1]
              /\ Counted(<< >>, <<v>>)
              /\ UNCHANGED <<lists, walk>>

\* Mutant: growth moves one slot too few.
Grown_Short(x) ==
    IF x.len < Len(x.buf) THEN x.buf
    ELSE SubSeq(x.buf, 1, x.len - 1) \o Slots(x.len + 4)

\* The buffer with room for one more: moved to one of half as many slots more,
\* and of at least four, when it is full.
Grown(x) ==
    IF x.len < Len(x.buf) THEN x.buf
    ELSE LET cap == IF Len(x.buf) < 4 THEN 4 ELSE Len(x.buf) + Len(x.buf) \div 2
         IN  Items(x) \o Slots(cap - x.len)

Pushed(x, v) == Buffer([Grown(x) EXCEPT ![x.len + 1] = v], x.len + 1)

\* The argument is borrowed: the slot gets a reference of its own.
push(l, v) == /\ Usable(l) /\ Total < MaxLen
              /\ held[v] > 0
              /\ Update(l, Pushed(lists[l], v))
              /\ Counted(<<v>>, << >>)
              /\ Keep

\* The last slot is taken: its reference moves into the answer.
Popped(x) == Buffer([x.buf EXCEPT ![x.len] = Null], x.len - 1)

pop(l) == /\ Usable(l) /\ lists[l].len > 0
          /\ Hold(lists[l].buf[lists[l].len])
          /\ Update(l, Popped(lists[l]))
          /\ Uncounted
          /\ UNCHANGED walk

\* The slots past the length.
Past(x) == SubSeq(x.buf, x.len + 1, Len(x.buf))

\* Mutant: the length is left as it was.
Shifted_SameLen(x) ==
    Buffer(Tail(Items(x)) \o <<x.buf[x.len]>> \o Past(x), x.len)

\* What shift leaves: the items one slot down, and in the slot the last of them
\* came from a stale copy of it.
Shifted(x) ==
    LET left == IF x.len > 1 THEN <<x.buf[x.len]>> ELSE <<Null>>
    IN  Buffer(Tail(Items(x)) \o left \o Past(x), x.len - 1)

shift(l) == /\ Usable(l) /\ lists[l].len > 0
            /\ Hold(lists[l].buf[1])
            /\ Update(l, Shifted(lists[l]))
            /\ Uncounted
            /\ UNCHANGED walk

\* get, first and last: the answer is a counted copy.
get(l, i) == /\ Usable(l) /\ i < lists[l].len
             /\ Hold(lists[l].buf[i + 1])
             /\ Counted(<<lists[l].buf[i + 1]>>, << >>)
             /\ UNCHANGED <<lists, walk>>

\* Mutant: the old element is released before the new one is acquired.
Replace_DropFirst(old, v) ==
    /\ rc' = [w \in Elem |-> rc[w] + Occurs(w, <<v>>) - Occurs(w, <<old>>)]
    /\ fault' = IF rc[old] = 0 \/ rc[v] = Occurs(v, <<old>>) THEN "dead" ELSE fault

\* ring_slot_replace acquires the new element before it releases the old one,
\* which may be the same.
Replace(old, v) == Counted(<<v>>, <<old>>)

\* The value may be borrowed from a slot: xs.set(i, xs[i]).
set(l, i, v) ==
    /\ Usable(l) /\ i < lists[l].len
    /\ held[v] > 0 \/ Owners(v) # {}
    /\ Replace(lists[l].buf[i + 1], v)
    /\ Update(l, Buffer([lists[l].buf EXCEPT ![i + 1] = v], lists[l].len))
    /\ Keep

\* The rearrangements of a sequence.
Orders(s) == {t \in [DOMAIN s -> Range(s)] :
                 \A v \in Range(s) : Occurs(v, t) = Occurs(v, s)}

\* reverse and sort_by rearrange the items in place and count nothing.
order(l) == /\ Usable(l) /\ ~Walking
            /\ \E items \in Orders(Items(lists[l])) :
                   Update(l, Buffer(items \o Past(lists[l]), lists[l].len))
            /\ Uncounted
            /\ Keep

\* Every item is dropped and its slot nulled.
Cleared(x) == Buffer(Slots(x.len) \o Past(x), 0)

clear(l) == /\ Usable(l)
            /\ Update(l, Cleared(lists[l]))
            /\ Counted(<< >>, Items(lists[l]))
            /\ Keep

\* The buffer after all of these have been pushed.
Extended(x, s) ==
    LET after[n \in 0 .. Len(s)] ==
            IF n = 0 THEN x ELSE Pushed(after[n - 1], s[n])
    IN  after[Len(s)]

\* extend reads the other's length once, so a list can be extended by itself.
extend(l, m) ==
    /\ Usable(l) /\ m \in DOMAIN lists /\ ~Walking
    /\ Total + lists[m].len <= MaxLen
    /\ Update(l, Extended(lists[l], Items(lists[m])))
    /\ Counted(Items(lists[m]), << >>)
    /\ Keep

\* A list of these items in a buffer of their number, each a counted copy:
\* slice, list_clone and concat.  The empty literal has no buffer.
make(l, items) ==
    /\ fault = "none" /\ ~Walking
    /\ l \in ListId \ DOMAIN lists
    /\ Total + Len(items) <= MaxLen
    /\ With(l, Buffer(items, Len(items)))
    /\ Counted(items, << >>)
    /\ Keep

slice(l, m, s, e) == m \in DOMAIN lists /\ make(l, SubSeq(Items(lists[m]), s + 1, e))
concat(l, m, n)   == {m, n} \subseteq DOMAIN lists
                     /\ make(l, Items(lists[m]) \o Items(lists[n]))

\* The slots below the length are released.
drop_list(l) == /\ Usable(l) /\ ~Walking
                /\ lists' = [m \in DOMAIN lists \ {l} |-> lists[m]]
                /\ Counted(<< >>, Items(lists[l]))
                /\ Keep
----------------------------------------------------------------------------
\* A walk begins.  filter fills a list of its own; map a buffer of as many
\* slots as the list has items now.
Begin(kind, l) ==
    /\ fault = "none" /\ ~Walking /\ l \in DOMAIN lists
    /\ kind \in {"filter", "map"} =>
           ListId # DOMAIN lists /\ Total + lists[l].len <= MaxLen
    /\ walk' = [kind |-> kind, l |-> l, i |-> 0, call |-> FALSE, elem |-> Null,
                out  |-> IF kind = "map"
                         THEN Buffer(Slots(lists[l].len), 0) ELSE Empty]
    /\ UNCHANGED <<lists, rc, held, fault>>

\* The length is read again before every element.
InRange == walk.i < lists[walk.l].len

\* The next element is read, counted, and given to the callback.
Read ==
    /\ Walking /\ ~walk.call /\ fault = "none"
    /\ InRange
    /\ LET v == lists[walk.l].buf[walk.i + 1]
       IN  /\ walk' = [walk EXCEPT !.elem = v, !.call = TRUE]
           /\ Counted(<<v>>, << >>)
    /\ UNCHANGED <<lists, held>>

Advance(out) == walk' = [walk EXCEPT !.i = @ + 1, !.call = FALSE,
                                     !.elem = Null, !.out = out]

\* The first slot outside the list is the last that is followed: v, what is read
\* from it, may be an element that has been freed.
OutOfBounds(v) == /\ fault' = IF v \in Elem /\ rc[v] = 0 THEN "dead" ELSE "bounds"
                  /\ UNCHANGED <<rc, walk>>

\* The body of a for loop, or the callback of for_each, any, all or fold,
\* returns, or leaves the walk early: these never look at the element's slot
\* again.
ReturnEach == /\ walk.kind = "each"
              /\ Advance(walk.out) \/ walk' = Idle
              /\ Counted(<< >>, <<walk.elem>>)

\* filter's predicate answers; a kept element is read from its slot again.
ReturnFilter ==
    /\ walk.kind = "filter"
    /\ \/ Advance(walk.out) /\ Counted(<< >>, <<walk.elem>>)
       \/ LET v == lists[walk.l].buf[walk.i + 1]
          IN  IF InRange
              THEN /\ Advance(Pushed(walk.out, v))
                   /\ Counted(<<v>>, <<walk.elem>>)
              ELSE OutOfBounds(v)

\* map stores the result, here the element itself, at the element's index.
ReturnMap ==
    /\ walk.kind = "map"
    /\ IF walk.i < Len(walk.out.buf)
       THEN /\ Advance(Buffer([walk.out.buf EXCEPT ![walk.i + 1] = walk.elem],
                              walk.i + 1))
            /\ UNCHANGED <<rc, fault>>
       ELSE OutOfBounds(Null)

Return == /\ Calling /\ fault = "none"
          /\ ReturnEach \/ ReturnFilter \/ ReturnMap
          /\ UNCHANGED <<lists, held>>

\* What filter and map return: map's has the length its source has now, so that
\* a result past it is in no list.
Result ==
    LET n == lists[walk.l].len
    IN  IF walk.kind = "map" THEN Buffer(SubSeq(walk.out.buf, 1, n), n) ELSE walk.out

\* The walk is over.
End ==
    /\ Walking /\ ~walk.call /\ fault = "none"
    /\ ~InRange
    /\ IF walk.kind \in {"filter", "map"}
       THEN \E l \in ListId \ DOMAIN lists : With(l, Result)
       ELSE UNCHANGED lists
    /\ walk' = Idle
    /\ UNCHANGED <<rc, held, fault>>

Next ==
    \/ \E v \in Elem : Alloc(v) \/ Release(v)
    \/ \E l \in ListId :
           \/ make(l, << >>)
           \/ \E m \in DOMAIN lists :
                  \/ \E s \in 0 .. lists[m].len, e \in 0 .. lists[m].len :
                         s <= e /\ slice(l, m, s, e)
                  \/ \E n \in DOMAIN lists : concat(l, m, n)
                  \/ extend(l, m)
           \/ \E v \in Elem : push(l, v)
           \/ pop(l) \/ shift(l) \/ order(l) \/ clear(l) \/ drop_list(l)
           \/ \E i \in 0 .. MaxLen : get(l, i) \/ \E v \in Elem : set(l, i, v)
           \/ \E kind \in Walks : Begin(kind, l)
    \/ Read \/ Return \/ End

Spec == Init /\ [][Next]_vars
----------------------------------------------------------------------------
\* Every reference is counted once: the count of an element is the number of
\* slots below a length that hold it, of variables that own it and of walks
\* that are handing it to a callback.  Nothing leaks and nothing is released
\* twice, whatever stale copies lie past a length.
CountsExact ==
    fault = "none" => \A v \in Elem :
        rc[v] = held[v] + Cardinality(Owners(v))
              + (IF Walking THEN Occurs(v, <<walk.elem>>)
                                 + Cardinality(Holding(walk.out, v)) ELSE 0)

\* The buffers are well formed, and no operation touches a freed element or a
\* slot that is not the list's, even while a callback changes the list.
NoFault == TypeOK /\ fault = "none"

Promise == INSTANCE ListSpec WITH
    seqs <- [l \in DOMAIN lists |-> Items(lists[l])]

\* The buffers implement sequences.
IsSequence == Promise!Spec
==============================================================================
