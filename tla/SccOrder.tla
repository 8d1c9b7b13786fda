------------------------------- MODULE SccOrder ------------------------------
(* tarjan_scc of compiler/scc.ring: the order in which the checker infers     *)
(* declarations.  Every group of mutually recursive functions is one          *)
(* component, and a component comes after those it calls, whose types must be *)
(* known.  The recursion of tarjan_strongconnect is a stack of calls here.    *)
EXTENDS Naturals, Sequences, SequencesExt, FiniteSets

CONSTANT N      \* bound: registered functions
NAssumption == N \in Nat

Node == 1 .. N  \* names in the order they are sorted in

VARIABLES
    graph,    \* the callees of each function, without itself
    index,    \* indices: when a node was first visited, 0 for not yet
    low,      \* lowlinks
    stack,    \* visited nodes that belong to no component yet
    calls,    \* running tarjan_strongconnect calls: the node and the
              \* successors it has not looked at
    result    \* the components, in the order they were found
vars == <<graph, index, low, stack, calls, result>>

Visited == {v \in Node : index[v] # 0}
Least(S) == CHOOSE m \in S : \A n \in S : m <= n
Top == Last(calls)

TypeOK ==
    /\ index \in [Node -> 0 .. N] /\ low \in [Node -> 0 .. N]
    /\ stack \in Seq(Node) /\ IsInjective(stack)
    /\ \A c \in Range(calls) : c.node \in Range(stack) /\ c.rest \subseteq graph[c.node]

Init == /\ graph \in [Node -> SUBSET Node]
        /\ \A v \in Node : v \notin graph[v]
        /\ index = [v \in Node |-> 0]
        /\ low = index
        /\ stack = << >> /\ calls = << >> /\ result = << >>

\* The head of tarjan_strongconnect(v): numbered, and on the stack.
Visit(v, outer) ==
    LET n == Cardinality(Visited) + 1
    IN  /\ index' = [index EXCEPT ![v] = n]
        /\ low' = [low EXCEPT ![v] = n]
        /\ stack' = Append(stack, v)
        /\ calls' = Append(outer, [node |-> v, rest |-> graph[v]])
        /\ UNCHANGED <<graph, result>>

\* The loop of tarjan_scc over all nodes.
Root == /\ calls = << >>
        /\ Visited # Node
        /\ Visit(Least(Node \ Visited), << >>)

\* Mutant: any visited successor counts, whether its component is complete or not.
Lowered_AnyVisited(v, w) == [low EXCEPT ![v] = Least({@, index[w]})]

\* A successor that is on the stack belongs to the component being explored.
Lowered(v, w) == IF w \in Range(stack)
                 THEN [low EXCEPT ![v] = Least({@, index[w]})] ELSE low

\* The call on top, done with its successor w.
Looked(w) == [calls EXCEPT ![Len(calls)].rest = @ \ {w}]

\* One successor.  Their order is the source's in the code, any order here.
Look == /\ calls # << >>
        /\ \E w \in Top.rest :
               \/ w \notin Visited /\ Visit(w, Looked(w))
               \/ /\ w \in Visited
                  /\ low' = Lowered(Top.node, w)
                  /\ calls' = Looked(w)
                  /\ UNCHANGED <<graph, index, stack, result>>

\* The list of components with one more.
Emitted(scc) == Append(result, scc)

\* The caller's lowlink after the call for v returned.
Returned(u, v) == [low EXCEPT ![u] = Least({@, low[v]})]

\* Where v is on the stack.
Place(v) == CHOOSE i \in DOMAIN stack : stack[i] = v

\* Popping until v comes leaves what is below v.
Below(v) == SubSeq(stack, 1, Place(v) - 1)

\* All successors seen: the root of a component takes it off the stack, and
\* the call returns into the one around it.
Return ==
    /\ calls # << >> /\ Top.rest = {}
    /\ LET v == Top.node
           scc == Range(SubSeq(stack, Place(v), Len(stack)))
       IN  /\ IF low[v] = index[v]
              THEN /\ result' = Emitted(scc)
                   /\ stack' = Below(v)
              ELSE UNCHANGED <<result, stack>>
           /\ low' = IF Len(calls) = 1 THEN low
                     ELSE Returned(calls[Len(calls) - 1].node, v)
    /\ calls' = Front(calls)
    /\ UNCHANGED <<graph, index>>

Next == Root \/ Look \/ Return

\* The algorithm runs to its end.
Spec == Init /\ [][Next]_vars /\ WF_vars(Next)

----------------------------------------------------------------------------
Done == calls = << >> /\ Visited = Node

\* What v calls, directly or through others, and v: no set of functions that has
\* v and keeps its calls to itself can do without them.
KeepsToItself(S) == \A x \in S : graph[x] \subseteq S
Reached(v)   == {w \in Node : \A S \in SUBSET Node : v \in S /\ KeepsToItself(S) => w \in S}
Component(v) == {w \in Reached(v) : v \in Reached(w)}

\* What is emitted is a component by definition: with a function all those it
\* is mutually recursive with and no others, each function once, and in the end
\* every function.
ComponentsExact ==
    /\ \A i \in DOMAIN result : \A v \in result[i] : result[i] = Component(v)
    /\ \A i, j \in DOMAIN result : i # j => result[i] \intersect result[j] = {}
    /\ Done => UNION Range(result) = Node

\* A component only calls into itself and into components before it, as
\* scc.ring:6 says: "dependencies before dependents".
CalleesFirst ==
    \A i \in DOMAIN result : \A v \in result[i] :
        graph[v] \subseteq UNION {result[j] : j \in 1 .. i}

\* The algorithm ends, whatever the graph.
Terminates == <>Done

\* What tarjan_scc has emitted so far is a list of components, callees first.
ComponentsInOrder == TypeOK /\ ComponentsExact /\ CalleesFirst
==============================================================================
