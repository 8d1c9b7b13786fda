------------------------------ MODULE MC_RcHeap ------------------------------
(* A bounded instance of RcHeap for TLC: three blocks that use one slot each, *)
(* or two that use both.                                                      *)
EXTENDS RcHeap, TLC

(* Bound: while all three blocks are allocated, no second slot is filled. *)
SmallHeap == \/ \E a \in Addr : tid[a] = "free"
             \/ \A a \in Addr : ref[<<a, 2>>] = Null

MCNext == Next /\ SmallHeap'

(* A step of a destructor keeps the bound, so fairness takes nothing away. *)
MCSpec == Init /\ [][MCNext]_vars /\ WF_vars(Destructor)
=============================================================================
