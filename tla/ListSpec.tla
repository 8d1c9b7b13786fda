------------------------------- MODULE ListSpec ------------------------------
(* What std/list.ring promises: each list is a sequence.  One list changes at *)
(* a time, and a list made from others starts with copies of their elements.  *)
EXTENDS Naturals, Sequences, FiniteSets

CONSTANTS ListId, Elem

VARIABLE seqs   \* the lists there are: ListId to sequences of Elem
vars == <<seqs>>

Init == DOMAIN seqs = {}

Update(l, s) == seqs' = [seqs EXCEPT ![l] = s]

push(l)  == \E v \in Elem : Update(l, Append(seqs[l], v))
pop(l)   == seqs[l] # << >> /\ Update(l, SubSeq(seqs[l], 1, Len(seqs[l]) - 1))
shift(l) == seqs[l] # << >> /\ Update(l, Tail(seqs[l]))
clear(l) == Update(l, << >>)
set(l)   == \E i \in DOMAIN seqs[l], v \in Elem :
                Update(l, [seqs[l] EXCEPT ![i] = v])

\* Every element as often as before.
order(l) == \E s \in [DOMAIN seqs[l] -> {seqs[l][i] : i \in DOMAIN seqs[l]}] :
                /\ \A k \in DOMAIN s :
                       Cardinality({i \in DOMAIN s : s[i] = seqs[l][k]})
                           = Cardinality({i \in DOMAIN s : seqs[l][i] = seqs[l][k]})
                /\ Update(l, s)
extend(l) == \E m \in DOMAIN seqs : Update(l, seqs[l] \o seqs[m])

\* t is a part of s in its order: its n-th element is the f[n]-th of s.
Part(t, s) == \E f \in [DOMAIN t -> DOMAIN s] :
                  /\ \A i, j \in DOMAIN t : i < j => f[i] < f[j]
                  /\ \A i \in DOMAIN t : t[i] = s[f[i]]

\* A new list is a part of another, or two of them one after the other.
make == \E l \in ListId \ DOMAIN seqs :
            /\ DOMAIN seqs' = DOMAIN seqs \union {l}
            /\ seqs' = [m \in DOMAIN seqs' |-> IF m = l THEN seqs'[l] ELSE seqs[m]]
            /\ \/ seqs'[l] = << >>
               \/ \E m \in DOMAIN seqs : Part(seqs'[l], seqs[m])
               \/ \E m, n \in DOMAIN seqs : seqs'[l] = seqs[m] \o seqs[n]

drop(l) == seqs' = [m \in DOMAIN seqs \ {l} |-> seqs[m]]

Next == \/ make
        \/ \E l \in DOMAIN seqs :
               \/ push(l) \/ pop(l) \/ shift(l) \/ clear(l) \/ set(l)
               \/ order(l) \/ extend(l) \/ drop(l)

Spec == Init /\ [][Next]_vars
==============================================================================
