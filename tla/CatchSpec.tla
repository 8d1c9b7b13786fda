------------------------------ MODULE CatchSpec ------------------------------
(* What `fail.raise` promises, with no catch frame in sight: the running      *)
(* program is nested in scopes, and a raise continues after the innermost     *)
(* scope that catches.  Scopes are left from the inside out, whatever leaves  *)
(* them.                                                                      *)
EXTENDS Naturals, Sequences, FiniteSetsExt

VARIABLES
    scopes,  \* the scopes the program is in, outermost first: [kind, catches]
    status   \* "run", "done", or "panic": a raise nobody catches
vars == <<scopes, status>>

Kind == {"fn", "loop", "body"}

Init == scopes = << [kind |-> "fn", catches |-> FALSE] >> /\ status = "run"

Enter == /\ status = "run"
         /\ \E k \in Kind, c \in BOOLEAN :
                /\ c => k = "body"
                /\ scopes' = Append(scopes, [kind |-> k, catches |-> c])
         /\ UNCHANGED status

\* No function is inside the n-th scope.
InOneFunction(n) == \A i \in n + 1 .. Len(scopes) : scopes[i].kind # "fn"

\* A return leaves a function with all that is inside it, a break a loop, a
\* finished body itself: never the caller of the function as well.
Leave == /\ status = "run"
         /\ \E n \in 1 .. Len(scopes) - 1 :
                InOneFunction(n + 1) /\ scopes' = SubSeq(scopes, 1, n)
         /\ UNCHANGED status

Finish == /\ status = "run" /\ InOneFunction(1)
          /\ status' = "done" /\ scopes' = << >>

Raise == /\ status = "run"
         /\ LET catching == {i \in DOMAIN scopes : scopes[i].catches}
            IN  IF catching = {}
                THEN status' = "panic" /\ UNCHANGED scopes
                ELSE /\ scopes' = SubSeq(scopes, 1, Max(catching) - 1)
                     /\ UNCHANGED status

Next == Enter \/ Leave \/ Finish \/ Raise

Spec == Init /\ [][Next]_vars
==============================================================================
