------------------------------ MODULE MapSpec ------------------------------
(***************************************************************************)
(* What std/map.ring promises: a dictionary.  "dict" is the answer get()   *)
(* gives for each key, Null standing for none; "size" is the answer of     *)
(* len().                                                                  *)
(***************************************************************************)
EXTENDS Integers, FiniteSets

CONSTANTS Key, Value, Null

VARIABLES dict, size

dvars == <<dict, size>>

Bound(d) == {k \in Key : d[k] # Null}

Init == dict = [k \in Key |-> Null] /\ size = 0

insert(k, v) == dict' = [dict EXCEPT ![k] = v]
remove(k)    == dict' = [dict EXCEPT ![k] = Null]
clear        == dict' = [k \in Key |-> Null]

Next ==
    /\ \/ \E k \in Key, v \in Value : insert(k, v)
       \/ \E k \in Key : remove(k)
       \/ clear
    /\ size' = Cardinality(Bound(dict'))

Spec == Init /\ [][Next]_dvars
=============================================================================
