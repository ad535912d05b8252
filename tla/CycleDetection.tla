--------------------------- MODULE CycleDetection ---------------------------
(***************************************************************************)
(* detectCycleInAdjacencySQL (sql_task_dao.go): the depth-first search     *)
(* with an explicit stack and three colours that guards every change of    *)
(* the dependency graph.  TaskBoard uses its verdict as Acyclic; here the  *)
(* algorithm itself is run on every graph over Node.                       *)
(*                                                                         *)
(* Roots come in the order of a Go map and neighbours in the order of the  *)
(* rows, so both are chosen freely.                                        *)
(***************************************************************************)
EXTENDS DependencyGraph, Naturals, Sequences

CONSTANT Node

VARIABLES
    edges,  \* the adjacency, fixed
    color,  \* white, gray or black
    stack,  \* the stackEntry records: a node and its neighbours left to visit
    cycle,  \* the path returned, <<>> while none is found
    done

searchVars == <<edges, color, stack, cycle, done>>

\* The Go slice path always holds the nodes of the stack.
path == [i \in DOMAIN stack |-> stack[i].node]

top == stack[Len(stack)]

\* The entries of the map color: the nodes that occur in some edge.
Seen == {n \in Node : \E m \in Node : <<n, m>> \in edges \/ <<m, n>> \in edges}

Push(n) == [node |-> n, children |-> Upstream(Node, edges, n)]

\* The stack after its top entry gave up the neighbour nxt.
Without(nxt) == [stack EXCEPT ![Len(stack)].children = @ \ {nxt}]

PickRoot(root) ==
    /\ ~ done /\ stack = <<>>
    /\ root \in Seen /\ color[root] = "white"
    /\ color' = [color EXCEPT ![root] = "gray"]
    /\ stack' = <<Push(root)>>
    /\ UNCHANGED <<edges, cycle, done>>

Backtrack ==
    /\ ~ done /\ stack # <<>>
    /\ top.children = {}
    /\ color' = [color EXCEPT ![top.node] = "black"]
    /\ stack' = SubSeq(stack, 1, Len(stack) - 1)
    /\ UNCHANGED <<edges, cycle, done>>

VisitWhite(nxt) ==
    /\ ~ done /\ stack # <<>>
    /\ nxt \in top.children /\ color[nxt] = "white"
    /\ color' = [color EXCEPT ![nxt] = "gray"]
    /\ stack' = Append(Without(nxt), Push(nxt))
    /\ UNCHANGED <<edges, cycle, done>>

\* Variant: the index of the neighbour is not advanced.
VisitBlackAgain(nxt) ==
    /\ ~ done /\ stack # <<>>
    /\ nxt \in top.children /\ color[nxt] = "black"
    /\ UNCHANGED searchVars

VisitBlack(nxt) ==
    /\ ~ done /\ stack # <<>>
    /\ nxt \in top.children /\ color[nxt] = "black"
    /\ stack' = Without(nxt)
    /\ UNCHANGED <<edges, color, cycle, done>>

\* Variant: the whole path is reported, with what led to the cycle.
VisitGrayWholePath(nxt) ==
    /\ ~ done /\ stack # <<>>
    /\ nxt \in top.children /\ color[nxt] = "gray"
    /\ cycle' = Append(path, nxt)
    /\ done' = TRUE
    /\ UNCHANGED <<edges, color, stack>>

\* The cycle is the path from where nxt occurs on it, closed with nxt.
VisitGray(nxt) ==
    /\ ~ done /\ stack # <<>>
    /\ nxt \in top.children /\ color[nxt] = "gray"
    /\ LET idx == CHOOSE i \in DOMAIN path : path[i] = nxt
       IN  cycle' = Append(SubSeq(path, idx, Len(path)), nxt)
    /\ done' = TRUE
    /\ UNCHANGED <<edges, color, stack>>

\* Variant: one root is enough.
ExhaustedEarly ==
    /\ ~ done /\ stack = <<>>
    /\ \A n \in Seen : color[n] = "white" => \E m \in Seen : color[m] = "black"
    /\ done' = TRUE
    /\ UNCHANGED <<edges, color, stack, cycle>>

Exhausted ==
    /\ ~ done /\ stack = <<>>
    /\ \A n \in Seen : color[n] # "white"
    /\ done' = TRUE
    /\ UNCHANGED <<edges, color, stack, cycle>>

SearchInit ==
    /\ edges \in SUBSET (Node \X Node)
    /\ color = [n \in Node |-> "white"]
    /\ stack = <<>> /\ cycle = <<>> /\ done = FALSE

SearchNext ==
    \/ \E n \in Node : PickRoot(n) \/ VisitWhite(n) \/ VisitBlack(n) \/ VisitGray(n)
    \/ Backtrack
    \/ Exhausted

SearchSpec == SearchInit /\ [][SearchNext]_searchVars /\ WF_searchVars(SearchNext)

-----------------------------------------------------------------------------
(* Properties.                                                             *)

\* The search answers "cycle" exactly for the graphs that have one.
VerdictCorrect == done => (cycle # <<>> <=> ~ Acyclic(Node, edges))

\* The reported path is a cycle of the graph: it ends where it starts and
\* each node depends on the next, so the message names the tasks at fault.
CycleIsReal ==
    cycle # <<>> =>
        /\ Len(cycle) > 1
        /\ cycle[1] = cycle[Len(cycle)]
        /\ \A i \in 1 .. Len(cycle) - 1 : <<cycle[i], cycle[i + 1]>> \in edges

\* The loops end on every graph, cyclic or not.
Terminates == <>done
=============================================================================
