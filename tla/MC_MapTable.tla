---------------------------- MODULE MC_MapTable ----------------------------
(* A bounded instance of MapTable for TLC: two colliding keys, one whose    *)
(* hash is negative and wraps round, one next to the first two and one far  *)
(* from them.                                                               *)
EXTENDS MapTable, TLC

CONSTANTS k1, k2, k3, k4, k5, v1, v2

HashValues == (k1 :> 0) @@ (k2 :> 0) @@ (k3 :> -1) @@ (k4 :> 1) @@ (k5 :> 6)

(* Bound: only k1 is ever given the second value. *)
OneKeyVaries == /\ op.pc # "idle" => op.val = v1 \/ op.key = k1
                /\ \A i \in Idx(tab.cap) : tab.vals[i] = v2 => tab.keys[i] = k1

MCNext == Next /\ OneKeyVaries'

(* The steps of an insertion keep the bound. *)
MCSpec == Init /\ [][MCNext]_vars /\ WF_vars(Insertion)
=============================================================================
