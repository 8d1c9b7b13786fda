---------------------------- MODULE OneShotSpec ------------------------------
(* What the one-shot gate promises of an evidence directory: it is consumed   *)
(* once, the reviewed command runs at most once afterwards, and the answer,   *)
(* when there is one, is final.  There is no way back from any state.         *)
VARIABLES
    answer,   \* "unused", "consumed", "success" or "failure"
    ran       \* has the reviewed command been started
vars == <<answer, ran>>

Init == answer = "unused" /\ ran = FALSE

Consume == /\ answer = "unused"
           /\ answer' = "consumed"
           /\ UNCHANGED ran

\* The command starts in a directory that is consumed and not yet answered.
Start == /\ answer = "consumed"
         /\ ~ran
         /\ ran' = TRUE
         /\ UNCHANGED answer

\* Success needs a run; a failure can be recorded without one.
Answer == /\ answer = "consumed"
          /\ \/ answer' = "success" /\ ran
             \/ answer' = "failure"
          /\ UNCHANGED ran

Next == Consume \/ Start \/ Answer

Spec == Init /\ [][Next]_vars
==============================================================================
