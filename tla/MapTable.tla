----------------------------- MODULE MapTable ------------------------------
(***************************************************************************)
(* std/map.ring: an open-addressing hash table with linear probing,        *)
(* tombstones and growth.  meta is 0 (empty), 1 (occupied) or 2            *)
(* (tombstone); keys and vals hold what the slot bridge keeps, Null for a  *)
(* slot without a reference.                                               *)
(*                                                                         *)
(* Growing rehashes slot by slot, calling the user's hash(): each move is  *)
(* a step.  The other operations call no Ring code of the element types    *)
(* that can name the map (a map of Drop values is owned, never shared), so *)
(* they are single steps.                                                  *)
(***************************************************************************)
EXTENDS Integers, FiniteSets

CONSTANTS
    Key, Value,
    Null,
    Hash,      \* impl Hash for K: any integer, the same for equal keys
    InitCap    \* 8 in the source

ASSUME TableAssumption ==
    /\ IsFiniteSet(Key)
    /\ Null \notin Key \cup Value
    /\ Hash \in [Key -> Int]
    /\ InitCap \in Nat /\ InitCap >= 4   \* 3/4 of fewer slots is all of them

VARIABLES
    tab,    \* the buffers: cap, meta, keys, vals
    len,
    op      \* the insert that is running: "idle", "grow" (with the index gi and
            \* the new buffers) or "put"

vars == <<tab, len, op>>

Idx(c) == 0 .. c - 1

(* ring_buf_alloc_zeroed and ring_slot_alloc.                               *)
Fresh(c) == [cap  |-> c,
             meta |-> [i \in Idx(c) |-> 0],
             keys |-> [i \in Idx(c) |-> Null],
             vals |-> [i \in Idx(c) |-> Null]]

Idle == [pc |-> "idle"]

Init ==
    /\ tab = Fresh(InitCap)
    /\ len = 0
    /\ op = Idle

-----------------------------------------------------------------------------
(* Probing.  Home is h % cap, corrected when the hash is negative; At is the *)
(* slot reached after n steps from it.                                      *)

First(S) == CHOOSE n \in S : \A m \in S : n <= m

Home(k, c)  == Hash[k] % c
At(k, n, c) == (Home(k, c) + n) % c

Probe_TombstoneEnds(t, k) ==
    LET Ends == {n \in Idx(t.cap) : \/ t.meta[At(k, n, t.cap)] # 1
                                    \/ t.keys[At(k, n, t.cap)] = k}
    IN  At(k, IF Ends = {} THEN t.cap ELSE First(Ends), t.cap)

(* The slot that holds k or, when the first empty slot or the whole circle  *)
(* comes first, the slot where k would go: the first tombstone passed.      *)
Probe(t, k) ==
    LET Ends == {n \in Idx(t.cap) : \/ t.meta[At(k, n, t.cap)] = 0
                                    \/ t.keys[At(k, n, t.cap)] = k}
        last == IF Ends = {} THEN t.cap ELSE First(Ends)
        Tomb == {n \in Idx(last) : t.meta[At(k, n, t.cap)] = 2}
        hit  == Ends # {} /\ t.meta[At(k, last, t.cap)] = 1
    IN  At(k, IF hit \/ Tomb = {} THEN last ELSE First(Tomb), t.cap)

Hit(t, k) == t.meta[Probe(t, k)] = 1

(* get: Null for none.                                                      *)
get(t, k) == LET i == Probe(t, k) IN IF t.meta[i] = 1 THEN t.vals[i] ELSE Null

Set(t, i, m, k, v) == [cap  |-> t.cap,
                       meta |-> [t.meta EXCEPT ![i] = m],
                       keys |-> [t.keys EXCEPT ![i] = k],
                       vals |-> [t.vals EXCEPT ![i] = v]]

-----------------------------------------------------------------------------
(* insert *)

NeedsGrowth == len * 4 >= tab.cap * 3
NewCap == IF tab.cap < InitCap THEN InitCap ELSE tab.cap * 2

Growing(k, v, gi, new) == [pc |-> "grow", key |-> k, val |-> v, gi |-> gi, new |-> new]
Putting(k, v)          == [pc |-> "put", key |-> k, val |-> v]

insert(k, v) ==
    /\ op = Idle
    /\ op' = IF NeedsGrowth THEN Growing(k, v, 0, Fresh(NewCap)) ELSE Putting(k, v)
    /\ UNCHANGED <<tab, len>>

(* Rehashing looks for the first slot that is not occupied; a full new      *)
(* table would send the loop round for ever.                                *)
Room(t, k) == {n \in Idx(t.cap) : t.meta[At(k, n, t.cap)] # 1}

GrowMove_Reads ==
    /\ op.pc = "grow" /\ op.gi < tab.cap /\ tab.meta[op.gi] = 1
    /\ LET k == tab.keys[op.gi]
           n == op.new
       IN  /\ Room(n, k) # {}
           /\ op' = Growing(op.key, op.val, op.gi + 1,
                     Set(n, At(k, First(Room(n, k)), n.cap), 1, k, tab.vals[op.gi]))
    /\ UNCHANGED <<tab, len>>

GrowMove ==
    /\ op.pc = "grow" /\ op.gi < tab.cap /\ tab.meta[op.gi] = 1
    /\ LET k == tab.keys[op.gi]
           n == op.new
       IN  /\ Room(n, k) # {}
           /\ op' = Growing(op.key, op.val, op.gi + 1,
                     Set(n, At(k, First(Room(n, k)), n.cap), 1, k, tab.vals[op.gi]))
    /\ tab' = Set(tab, op.gi, 1, Null, Null)
    /\ UNCHANGED len

GrowSkip_Empty ==
    /\ op.pc = "grow" /\ op.gi < tab.cap /\ tab.meta[op.gi] = 0
    /\ op' = Growing(op.key, op.val, op.gi + 1, op.new)
    /\ UNCHANGED <<tab, len>>

GrowSkip ==
    /\ op.pc = "grow" /\ op.gi < tab.cap /\ tab.meta[op.gi] # 1
    /\ op' = Growing(op.key, op.val, op.gi + 1, op.new)
    /\ UNCHANGED <<tab, len>>

(* The old buffers are freed without a look at their slots.                 *)
GrowDone ==
    /\ op.pc = "grow" /\ op.gi = tab.cap
    /\ tab' = op.new
    /\ op' = Putting(op.key, op.val)
    /\ UNCHANGED len

(* A key that exists keeps its first inserted instance.                     *)
Put ==
    /\ op.pc = "put"
    /\ LET i == Probe(tab, op.key) IN
         IF Hit(tab, op.key)
         THEN tab' = Set(tab, i, 1, tab.keys[i], op.val) /\ UNCHANGED len
         ELSE tab' = Set(tab, i, 1, op.key, op.val) /\ len' = len + 1
    /\ op' = Idle

-----------------------------------------------------------------------------
remove_Empties(k) ==
    /\ op = Idle
    /\ Hit(tab, k)
    /\ tab' = Set(tab, Probe(tab, k), 0, Null, Null)
    /\ len' = len - 1
    /\ UNCHANGED op

remove(k) ==
    /\ op = Idle
    /\ Hit(tab, k)
    /\ tab' = Set(tab, Probe(tab, k), 2, Null, Null)
    /\ len' = len - 1
    /\ UNCHANGED op

(* What a slot holds of a buffer that is read for its occupied slots only.  *)
OfOccupied(t, buf) == [i \in Idx(t.cap) |-> IF t.meta[i] = 1 THEN buf[i] ELSE Null]
OfOthers(t, buf)   == [i \in Idx(t.cap) |-> IF t.meta[i] = 1 THEN Null ELSE buf[i]]

(* Tombstones stay.                                                         *)
clear ==
    /\ op = Idle
    /\ tab' = [cap  |-> tab.cap,
               meta |-> [i \in Idx(tab.cap) |-> IF tab.meta[i] = 1 THEN 0 ELSE tab.meta[i]],
               keys |-> OfOthers(tab, tab.keys),
               vals |-> OfOthers(tab, tab.vals)]
    /\ len' = 0
    /\ UNCHANGED op

(* The program goes on with a clone of the map.                             *)
map_clone ==
    /\ op = Idle
    /\ tab' = IF len = 0 THEN Fresh(InitCap)
              ELSE [cap  |-> tab.cap,
                    meta |-> tab.meta,
                    keys |-> OfOccupied(tab, tab.keys),
                    vals |-> OfOccupied(tab, tab.vals)]
    /\ UNCHANGED <<len, op>>

Insertion == GrowMove \/ GrowSkip \/ GrowDone \/ Put

Next ==
    \/ \E k \in Key, v \in Value : insert(k, v)
    \/ Insertion
    \/ \E k \in Key : remove(k)
    \/ clear
    \/ map_clone

Spec == Init /\ [][Next]_vars

(* insert is a call: once entered, its loop runs.                           *)
FairSpec == Spec /\ WF_vars(Insertion)

-----------------------------------------------------------------------------
(* Properties.                                                             *)

IsTable(t) ==
    /\ t.cap \in Nat \ {0}
    /\ t.meta \in [Idx(t.cap) -> 0 .. 2]
    /\ t.keys \in [Idx(t.cap) -> Key \cup {Null}]
    /\ t.vals \in [Idx(t.cap) -> Value \cup {Null}]

(* The buffers have the length the map believes, and len counts slots.      *)
TypeOK ==
    /\ IsTable(tab)
    /\ len \in 0 .. tab.cap
    /\ op.pc \in {"idle", "grow", "put"}
    /\ op.pc = "grow" => IsTable(op.new) /\ op.gi \in 0 .. tab.cap

Occupied(t) == {i \in Idx(t.cap) : t.meta[i] = 1}
Held(k) == {i \in Occupied(tab) : tab.keys[i] = k}

(* A probe for a stored key stops at the one slot that holds it: removals   *)
(* break no probe chain, and no key is stored twice.  A probe for any other *)
(* key returns a slot that is free, so that an insertion never overwrites a *)
(* key, however many tombstones there are (map_probe_index falls off its    *)
(* loop only when there is one).                                            *)
Findable ==
    op.pc # "grow" =>
        \A k \in Key : IF Held(k) = {} THEN ~Hit(tab, k)
                                       ELSE Held(k) = {Probe(tab, k)}

(* A slot that is not occupied, or that growth has passed, holds no         *)
(* reference: ring_slot_write never overwrites one, and freeing the buffers *)
(* loses none.                                                              *)
Empty(t, i) == t.keys[i] = Null /\ t.vals[i] = Null
FreeSlotsHoldNothing ==
    /\ \A i \in Idx(tab.cap) :
          tab.meta[i] # 1 \/ (op.pc = "grow" /\ i < op.gi) => Empty(tab, i)
    /\ op.pc = "grow" => \A i \in Idx(op.new.cap) : op.new.meta[i] # 1 => Empty(op.new, i)

(* The buffers are as long as the map believes and their free slots empty.  *)
TableOK == TypeOK /\ FreeSlotsHoldNothing

(* Rehashing ends: the new table never fills up.                            *)
InsertEnds == op.pc # "idle" ~> op.pc = "idle"

(* The map is a dictionary: while entries are on their way to the new       *)
(* buffers, an entry is the one of whichever buffers hold it.               *)
dict == [k \in Key |-> IF op.pc # "grow"  THEN get(tab, k)
                       ELSE IF Held(k) # {} THEN tab.vals[First(Held(k))]
                       ELSE get(op.new, k)]

Abstract == INSTANCE MapSpec WITH size <- len
Dictionary == Abstract!Spec
=============================================================================
