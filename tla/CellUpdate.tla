---------------------------- MODULE CellUpdate -----------------------------
(***************************************************************************)
(* ring_Cell_update(cell, closure): the runtime takes the value out of the *)
(* cell, calls the Ring closure on it, drops it and stores the result.     *)
(* Ring code runs twice in between: the callback, which std declares pure  *)
(* (fn(T) -> T with {}), and the `impl Drop` bodies of whatever the        *)
(* callback and the final drop destroy, which may use any cell.            *)
(*                                                                         *)
(* The heap and every other operation are RcHeap's.  One update runs at a  *)
(* time: an update started by a Drop body inside another is not modelled.  *)
(***************************************************************************)
EXTENDS RcHeap

CONSTANTS
    OldVal,   \* the C variable old_val
    NewVal    \* the C variable new_val

ASSUME TempAssumption == Temp = {OldVal, NewVal} /\ OldVal # NewVal

VARIABLE upd  \* the running update: its stage, its cell, the variable of the
              \* caller that lends the cell, and the depth it was called at

uvars == <<vars, upd>>

Idle == [stage |-> "idle", cell |-> Null, lender |-> Null, depth |-> 0]

UpdInit == Init /\ upd = Idle

(* The Ring code that runs may not release the variable the receiver was    *)
(* borrowed from.                                                           *)
LenderKept == upd.stage # "idle" => ref'[upd.lender] = ref[upd.lender]

(* Ring code outside the update: the program, or a Drop body that the       *)
(* update or the callback set off.                                          *)
Program ==
    /\ upd.stage = "idle" \/ Depth > upd.depth
    /\ Mutator /\ LenderKept
    /\ UNCHANGED upd

(* A pure callback touches no cell; it may read its borrowed argument.      *)
Callback ==
    /\ upd.stage = "callback" /\ Depth = upd.depth
    /\ \/ HeapOp /\ LenderKept
       \/ \E l \in Local : Clone(OldVal, l)
    /\ UNCHANGED upd

Release == Destructor /\ UNCHANGED upd

UpdateCall_KeepsSlot(b, l) ==
    /\ upd.stage = "idle" /\ Running /\ b \in Cells /\ ref[l] = b
    /\ ref' = [ref EXCEPT ![OldVal] = ref[<<b, 1>>]]
    /\ upd' = [stage |-> "callback", cell |-> b, lender |-> l, depth |-> Depth]
    /\ UNCHANGED <<tid, rc, calls>>

(* The value leaves the cell, so that a set() in the meantime cannot drop   *)
(* it, and is dup'd once more for the callback.                             *)
UpdateCall(b, l) ==
    /\ upd.stage = "idle" /\ Running /\ b \in Cells /\ ref[l] = b
    /\ ref' = [ref EXCEPT ![OldVal] = ref[<<b, 1>>], ![<<b, 1>>] = Null]
    /\ rc' = Dup(ref[<<b, 1>>], rc)
    /\ upd' = [stage |-> "callback", cell |-> b, lender |-> l, depth |-> Depth]
    /\ UNCHANGED <<tid, calls>>

CallbackReturns_Borrowed(l) ==
    /\ upd.stage = "callback" /\ Depth = upd.depth /\ l # upd.lender
    /\ Drop(ref[OldVal], rc, calls)
    /\ ref' = [ref EXCEPT ![NewVal] = ref[l], ![OldVal] = Null]
    /\ upd' = [upd EXCEPT !.stage = "store"]
    /\ UNCHANGED tid

(* The callback hands over the value it returns; old_val is dropped.        *)
CallbackReturns(l) ==
    /\ upd.stage = "callback" /\ Depth = upd.depth /\ l # upd.lender
    /\ Drop(ref[OldVal], rc, calls)
    /\ ref' = [ref EXCEPT ![NewVal] = ref[l], ![l] = Null, ![OldVal] = Null]
    /\ upd' = [upd EXCEPT !.stage = "store"]
    /\ UNCHANGED tid

(* The result is stored over whatever the cell holds by now.                *)
StoreNew ==
    /\ upd.stage = "store" /\ Depth = upd.depth
    /\ ref' = [ref EXCEPT ![<<upd.cell, 1>>] = ref[NewVal], ![NewVal] = Null]
    /\ upd' = Idle
    /\ UNCHANGED <<tid, rc, calls>>

UpdNext ==
    \/ Program
    \/ Callback
    \/ Release
    \/ \E b \in Addr, l \in Local : UpdateCall(b, l)
    \/ \E l \in Local : CallbackReturns(l)
    \/ StoreNew

UpdSpec == UpdInit /\ [][UpdNext]_uvars

-----------------------------------------------------------------------------
(* Properties.                                                             *)

(* The count of a block is never below the number of places that hold it,   *)
(* old_val and new_val included: whatever Ring code runs inside the one     *)
(* update, no reference is released that somebody still has.                *)
CountsCover == \A a \in Addr : Counted(a) => rc[a] >= RefCount(a)

(* Between updates every count is exact: of the two references an update    *)
(* made to the old value "the callback consumes one" and it drops the other *)
(* (comment of ring_Cell_update).  The calling convention says otherwise: a *)
(* parameter is a borrow, and the callback consumes nothing.                *)
UpdateBalanced == upd.stage = "idle" => RcExact
=============================================================================
