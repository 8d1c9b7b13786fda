----------------------------- MODULE MC_Compiler -----------------------------
(* Two algorithms that meet in no variable, checked side by side: what the    *)
(* compiler generates for the fail effect (CatchStack) and the order in which *)
(* it infers declarations (SccOrder).  A behaviour is about one of them; the  *)
(* variables of the other one keep their first values.                        *)
EXTENDS CatchStack, TLC

CONSTANT N  \* functions of the call graph

VARIABLES subject, graph, index, low, stack, calls, result

sccVars == <<graph, index, low, stack, calls, result>>

Scc == INSTANCE SccOrder

ASSUME SccAssumption == Scc!NAssumption

allVars == <<vars, subject, sccVars>>

\* Every call graph over N functions, or a program that has just started.
MCInit == \/ subject = "catch" /\ Init /\ Scc!Init /\ graph = [v \in Scc!Node |-> {}]
          \/ subject = "scc" /\ Init /\ Scc!Init

SccNext == Scc!Root \/ Scc!Look \/ Scc!Return

MCNext == \/ subject = "catch" /\ Next /\ UNCHANGED <<subject, sccVars>>
          \/ subject = "scc" /\ SccNext /\ UNCHANGED <<subject, vars>>

MCSpec == /\ MCInit /\ [][MCNext]_allVars
          /\ WF_allVars(subject = "scc" /\ SccNext /\ UNCHANGED <<subject, vars>>)

----------------------------------------------------------------------------
\* tarjan_scc is totally correct: it ends, whatever the graph, and what it has
\* emitted at any moment are strongly connected components, callees first.
SccCorrect == /\ [][Scc!ComponentsInOrder']_allVars
              /\ subject = "scc" => Scc!Terminates
==============================================================================
