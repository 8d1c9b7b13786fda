----------------------------- MODULE CacheSpec -----------------------------
(***************************************************************************)
(* What the compiler-artifact cache of tests/run_tests.py promises the     *)
(* runners that share it: a key is given one object, keeps it until it is  *)
(* forgotten or found divergent, and a runner is only ever handed the      *)
(* object its key has at that moment.  A divergent key hands out nothing.  *)
(***************************************************************************)
CONSTANTS Runner, Key, Obj, None, Poison

VARIABLES entry,    \* the object of each key, None, or Poison
          got       \* the <<key, object>> each runner holds, or None

vars == <<entry, got>>

Init == /\ entry = [k \in Key |-> None]
        /\ got = [r \in Runner |-> None]

\* The first publisher fixes the object.
Publish(k, o) == /\ entry[k] = None
                 /\ entry' = [entry EXCEPT ![k] = o]
                 /\ UNCHANGED got

\* A second build of the key produced another object.
Diverge(k) == /\ entry[k] \in Obj
              /\ entry' = [entry EXCEPT ![k] = Poison]
              /\ UNCHANGED got

\* Eviction, or a poisoning that could not be recorded.
Forget(k) == /\ entry[k] # None
             /\ entry' = [entry EXCEPT ![k] = None]
             /\ UNCHANGED got

Deliver(r, k) == /\ got[r] = None
                 /\ entry[k] \in Obj
                 /\ got' = [got EXCEPT ![r] = <<k, entry[k]>>]
                 /\ UNCHANGED entry

Finish(r) == /\ got[r] # None
             /\ got' = [got EXCEPT ![r] = None]
             /\ UNCHANGED entry

Next == \/ \E k \in Key : Diverge(k) \/ Forget(k) \/ \E o \in Obj : Publish(k, o)
        \/ \E r \in Runner : Finish(r) \/ \E k \in Key : Deliver(r, k)

Spec == Init /\ [][Next]_vars
=============================================================================
