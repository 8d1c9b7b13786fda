------------------------------- MODULE RcHeap -------------------------------
(***************************************************************************)
(* The reference-counted heap of ring_runtime.cpp: ring_alloc, ring_dup,   *)
(* ring_drop with its per-type destructors, the slot bridge that the       *)
(* pure-Ring List and Map are written on, Cell's new / get / set, and the   *)
(* interning of const values.                                              *)
(*                                                                         *)
(* A reference is a PLACE holding the address of a block: a variable of    *)
(* the running program (Local), a slot of a block, or a C variable of a    *)
(* runtime function that calls back into Ring (Temp: only CellUpdate uses  *)
(* those).  ring_drop is recursive, and a type with `impl Drop` runs Ring  *)
(* code in the middle of it; the recursion is the explicit stack "calls",  *)
(* one frame per block whose destructor is running, and one step releases  *)
(* one slot.                                                               *)
(***************************************************************************)
EXTENDS Integers, Sequences, FiniteSets

CONSTANTS
    Addr,    \* the blocks malloc can return; a freed one may come back
    Local,   \* the variables of the running Ring program that own a reference
    Temp,    \* the variables of a runtime function that own a reference
    NSlots,  \* payload slots of a block
    MaxRC,   \* the guard of ring_dup and ring_drop, 100000 in the source
    Kinds,   \* the kinds of block the program allocates
    Null     \* nullptr, or a tagged scalar: a value without a count

Slot     == 1 .. NSlots
Place    == Local \cup Temp \cup (Addr \X Slot)
Val      == Addr \cup {Null}
AllKinds == {"data", "res", "cell"}

ASSUME HeapAssumption ==
    /\ IsFiniteSet(Addr)
    /\ IsFiniteSet(Local) /\ IsFiniteSet(Temp)
    /\ Null \notin Addr
    /\ Local \cap (Addr \X Slot) = {} /\ Temp \cap (Addr \X Slot) = {}
    /\ Local \cap Temp = {}
    /\ NSlots \in Nat \ {0}
    /\ MaxRC \in Nat \ {0}
    /\ Kinds \subseteq AllKinds

VARIABLES
    tid,    \* the class of a block's typeid: "data" (each slot is dropped),
            \* "res" (`impl Drop`: a Ring body, then the slots), "cell",
            \* "static" (never-drop), or "free" once the block is back in malloc
    rc,     \* the count in the header
    ref,    \* what each place holds
    calls   \* the destructors that are running, innermost last

vars == <<tid, rc, ref, calls>>

-----------------------------------------------------------------------------
(* ring_dup and ring_drop, on the counts r and the stack c they start from. *)

NoRc_NoSaturation(p, r) == p = Null \/ r[p] = 0 \/ tid[p] = "static"
NoRc_NoInterned(p, r) == p = Null \/ r[p] = 0 \/ r[p] > MaxRC

NoRc(p, r) == p = Null \/ r[p] = 0 \/ r[p] > MaxRC \/ tid[p] = "static"

Dup(p, r) == IF NoRc(p, r) THEN r ELSE [r EXCEPT ![p] = @ + 1]

Frame(p) == [blk |-> p, at |-> IF tid[p] = "res" THEN 0 ELSE 1]

Drop(p, r, c) ==
    IF NoRc(p, r)      THEN rc' = r /\ calls' = c
    ELSE IF r[p] <= 1  THEN rc' = r /\ calls' = Append(c, Frame(p))
    ELSE rc' = [r EXCEPT ![p] = @ - 1] /\ calls' = c

Init ==
    /\ tid = [a \in Addr |-> "free"]
    /\ rc = [a \in Addr |-> 0]
    /\ ref = [p \in Place |-> Null]
    /\ calls = <<>>

-----------------------------------------------------------------------------
(* The program runs when no destructor does, or inside the Ring body of one. *)

Depth == Len(calls)
Top   == calls[Depth]
InBody  == Depth > 0 /\ Top.at = 0
Running == Depth = 0 \/ InBody

(* The blocks the program can name: those its variables own, and the self   *)
(* that the innermost `impl Drop` body borrows.                             *)
Bases == {b \in Addr : \/ \E l \in Local : ref[l] = b
                       \/ InBody /\ Top.blk = b}
Data  == {b \in Bases : tid[b] # "cell"}
Cells == {b \in Bases : tid[b] = "cell"}

(* ring_alloc of a block whose slots are still empty.                       *)
Alloc(l, a, k) ==
    /\ Running /\ ref[l] = Null /\ tid[a] = "free" /\ k \in Kinds \ {"cell"}
    /\ tid' = [tid EXCEPT ![a] = k]
    /\ rc' = [rc EXCEPT ![a] = 1]
    /\ ref' = [ref EXCEPT ![l] = a]
    /\ UNCHANGED calls

(* `let m = l`: Perceus clones the borrowed value.                          *)
Clone(l, m) ==
    /\ Running /\ ref[l] # Null /\ ref[m] = Null
    /\ rc' = Dup(ref[l], rc)
    /\ ref' = [ref EXCEPT ![m] = ref[l]]
    /\ UNCHANGED <<tid, calls>>

(* Scope end of a binding.                                                  *)
DropLocal(l) ==
    /\ Running /\ ref[l] # Null
    /\ Drop(ref[l], rc, calls)
    /\ ref' = [ref EXCEPT ![l] = Null]
    /\ UNCHANGED tid

(* The memoised const getter retags its value: no destructor reaches it.    *)
Intern(l) ==
    /\ Running /\ ref[l] # Null /\ tid[ref[l]] \in {"data", "res"}
    /\ tid' = [tid EXCEPT ![ref[l]] = "static"]
    /\ UNCHANGED <<rc, ref, calls>>

-----------------------------------------------------------------------------
(* The slot bridge.  Writing a slot moves an owned value into it without    *)
(* looking at what it held: std/list.ring and std/map.ring only write slots *)
(* they know to be empty, which is the guard here.                          *)

SlotRead(b, i, l) ==
    /\ Running /\ b \in Data /\ ref[l] = Null
    /\ rc' = Dup(ref[<<b, i>>], rc)
    /\ ref' = [ref EXCEPT ![l] = ref[<<b, i>>]]
    /\ UNCHANGED <<tid, calls>>

SlotTake(b, i, l) ==
    /\ Running /\ b \in Data /\ ref[l] = Null
    /\ ref' = [ref EXCEPT ![l] = ref[<<b, i>>], ![<<b, i>>] = Null]
    /\ UNCHANGED <<tid, rc, calls>>

SlotWrite(b, i, l) ==
    /\ Running /\ b \in Data /\ ref[<<b, i>>] = Null
    /\ ref' = [ref EXCEPT ![<<b, i>>] = ref[l], ![l] = Null]
    /\ UNCHANGED <<tid, rc, calls>>

SlotReplace_NoDup(b, i, l) ==
    /\ Running /\ b \in Data
    /\ Drop(ref[<<b, i>>], rc, calls)
    /\ ref' = [ref EXCEPT ![<<b, i>>] = ref[l]]
    /\ UNCHANGED tid

(* The new reference is acquired before the old one is released, so that a  *)
(* slot may be replaced with itself.                                        *)
SlotReplace(b, i, l) ==
    /\ Running /\ b \in Data
    /\ Drop(ref[<<b, i>>], Dup(ref[l], rc), calls)
    /\ ref' = [ref EXCEPT ![<<b, i>>] = ref[l]]
    /\ UNCHANGED tid

SlotSwap_NoTemp(b, i, j) ==
    /\ Running /\ b \in Data
    /\ ref' = [ref EXCEPT ![<<b, i>>] = ref[<<b, j>>]]
    /\ UNCHANGED <<tid, rc, calls>>

SlotSwap(b, i, j) ==
    /\ Running /\ b \in Data
    /\ ref' = [ref EXCEPT ![<<b, i>>] = ref[<<b, j>>], ![<<b, j>>] = ref[<<b, i>>]]
    /\ UNCHANGED <<tid, rc, calls>>

SlotDrop(b, i) ==
    /\ Running /\ b \in Data
    /\ Drop(ref[<<b, i>>], rc, calls)
    /\ ref' = [ref EXCEPT ![<<b, i>>] = Null]
    /\ UNCHANGED tid

-----------------------------------------------------------------------------
(* Cell: the value is slot 1.  The constructor and get() borrow, set() is a *)
(* sink: its argument is moved in, and stored before the old value goes.    *)

CellNew(l, a, m) ==
    /\ Running /\ ref[l] = Null /\ tid[a] = "free" /\ "cell" \in Kinds
    /\ tid' = [tid EXCEPT ![a] = "cell"]
    /\ rc' = Dup(ref[m], [rc EXCEPT ![a] = 1])
    /\ ref' = [ref EXCEPT ![l] = a, ![<<a, 1>>] = ref[m]]
    /\ UNCHANGED calls

CellGet(b, l) ==
    /\ Running /\ b \in Cells /\ ref[l] = Null
    /\ rc' = Dup(ref[<<b, 1>>], rc)
    /\ ref' = [ref EXCEPT ![l] = ref[<<b, 1>>]]
    /\ UNCHANGED <<tid, calls>>

CellSet(b, l) ==
    /\ Running /\ b \in Cells
    /\ Drop(ref[<<b, 1>>], rc, calls)
    /\ ref' = [ref EXCEPT ![<<b, 1>>] = ref[l], ![l] = Null]
    /\ UNCHANGED tid

-----------------------------------------------------------------------------
(* The steps of the destructors.                                            *)

BodyReturns_SkipsField ==
    /\ InBody
    /\ calls' = [calls EXCEPT ![Depth] = [Top EXCEPT !.at = 2]]
    /\ UNCHANGED <<tid, rc, ref>>

(* The `impl Drop` body returns; the generated ring_drop_T goes on with the *)
(* fields.                                                                  *)
BodyReturns ==
    /\ InBody
    /\ calls' = [calls EXCEPT ![Depth] = [Top EXCEPT !.at = 1]]
    /\ UNCHANGED <<tid, rc, ref>>

DropField_Stuck ==
    /\ Depth > 0 /\ Top.at \in Slot
    /\ LET p == <<Top.blk, Top.at>> IN
         /\ Drop(ref[p], rc, calls)
         /\ ref' = [ref EXCEPT ![p] = Null]
    /\ UNCHANGED tid

(* The destructor releases its next slot.  The source leaves the pointer in *)
(* the dying block, where nothing reads it again; here the slot is emptied. *)
DropField ==
    /\ Depth > 0 /\ Top.at \in Slot
    /\ LET p == <<Top.blk, Top.at>> IN
         /\ Drop(ref[p], rc, [calls EXCEPT ![Depth] = [Top EXCEPT !.at = @ + 1]])
         /\ ref' = [ref EXCEPT ![p] = Null]
    /\ UNCHANGED tid

(* free() of the block, after the destructor has returned.                  *)
FreeBlock ==
    /\ Depth > 0 /\ Top.at = NSlots + 1
    /\ tid' = [tid EXCEPT ![Top.blk] = "free"]
    /\ rc' = [rc EXCEPT ![Top.blk] = 0]
    /\ calls' = SubSeq(calls, 1, Depth - 1)
    /\ UNCHANGED ref

Destructor == BodyReturns \/ DropField \/ FreeBlock

HeapOp ==
    \/ \E l \in Local, a \in Addr, k \in AllKinds : Alloc(l, a, k)
    \/ \E l, m \in Local : Clone(l, m)
    \/ \E l \in Local : DropLocal(l)
    \/ \E l \in Local : Intern(l)
    \/ \E b \in Addr, i \in Slot, l \in Local : SlotRead(b, i, l)
    \/ \E b \in Addr, i \in Slot, l \in Local : SlotTake(b, i, l)
    \/ \E b \in Addr, i \in Slot, l \in Local : SlotWrite(b, i, l)
    \/ \E b \in Addr, i \in Slot, l \in Local : SlotReplace(b, i, l)
    \/ \E b \in Addr, i, j \in Slot : SlotSwap(b, i, j)
    \/ \E b \in Addr, i \in Slot : SlotDrop(b, i)
    \/ \E l, m \in Local, a \in Addr : CellNew(l, a, m)

CellOp ==
    \/ \E b \in Addr, l \in Local : CellGet(b, l)
    \/ \E b \in Addr, l \in Local : CellSet(b, l)

Mutator == HeapOp \/ CellOp

Next == Mutator \/ Destructor

Spec == Init /\ [][Next]_vars

(* ring_drop is a plain call: once entered, its steps are taken.            *)
FairSpec == Spec /\ WF_vars(Destructor)

-----------------------------------------------------------------------------
(* Properties.                                                             *)

(* Every variable keeps its type. *)
TypeOK ==
    /\ tid \in [Addr -> AllKinds \cup {"static", "free"}]
    /\ rc \in [Addr -> 0 .. MaxRC + 1]
    /\ ref \in [Place -> Val]
    /\ calls \in Seq([blk : Addr, at : 0 .. NSlots + 1])

Holders(a)  == {p \in Place : ref[p] = a}
RefCount(a) == Cardinality(Holders(a))
Dying       == {calls[i].blk : i \in 1 .. Depth}
Counted(a)  == tid[a] \in AllKinds /\ rc[a] <= MaxRC /\ a \notin Dying

(* Between two steps, in the middle of any cascade of destructors included,  *)
(* the count in the header of a block that is neither interned, saturated    *)
(* nor being destroyed is exactly the number of places that hold it, and it  *)
(* is never 0 (ring_dup, ring_drop and every bridge function keep it so).    *)
RcExact == \A a \in Addr : Counted(a) => rc[a] = RefCount(a) /\ rc[a] > 0

(* No variable and no slot ever holds a block that is freed or whose         *)
(* destructor is running: what the program can reach is intact.             *)
NoDangling == \A p \in Place : ref[p] # Null => tid[ref[p]] # "free" /\ ref[p] \notin Dying

(* No block is on the stack of destructors twice: ring_drop never runs a     *)
(* destructor a second time on a block it is already destroying.            *)
NoReentry == \A i, j \in 1 .. Depth : calls[i].blk = calls[j].blk => i = j

(* No use after free and no double free, however operations and Drop bodies  *)
(* interleave in a cascade.                                                  *)
MemorySafe == NoDangling /\ NoReentry

(* What the program or an immortal block reaches is closed under Holders;    *)
(* when no destructor runs, a block nobody can name keeps its storage only   *)
(* because another such block holds it: the only garbage ring_drop leaves is *)
(* a cycle and what hangs from it (docs/design.md 7.7: no cycle collector).  *)
Immortal(a) == tid[a] = "static" \/ rc[a] > MaxRC
Step(S) == S \cup {a \in Addr : \E b \in S, i \in Slot : ref[<<b, i>>] = a}
Reach == LET r[n \in 0 .. Cardinality(Addr)] ==
               IF n = 0 THEN {a \in Addr : Immortal(a) \/ \E l \in Local : ref[l] = a}
               ELSE Step(r[n - 1])
         IN r[Cardinality(Addr)]
Lost == {a \in Addr : tid[a] # "free"} \ Reach
OnlyCyclesLeak ==
    Depth = 0 => \A a \in Lost : \E b \in Lost, i \in Slot : ref[<<b, i>>] = a

(* A block that became immortal (interned, or its count went past the guard  *)
(* of ring_dup) is never freed, never enters a destructor and keeps its      *)
(* count.                                                                   *)
ImmortalStays ==
    [][\A a \in Addr : Immortal(a) =>
          tid'[a] \in {tid[a], "static"} /\ rc'[a] = rc[a] /\ a \notin Dying']_vars

(* A cascade of destructors comes to an end, on cyclic data too: when the   *)
(* `impl Drop` bodies do nothing any more but return, ring_drop returns.    *)
DropEnds == <>[][Destructor]_vars => <>[](Depth = 0)
=============================================================================
