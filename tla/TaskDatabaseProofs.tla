------------------------- MODULE TaskDatabaseProofs -------------------------
(***************************************************************************)
(* Theorems about sql_task_dao.go: the search for cycles (CycleDetection)  *)
(* and the transactions of the operations (SqlTaskDao).                    *)
(*                                                                         *)
(* The search is right on every graph: the path it reports is a cycle, and *)
(* when it reports none there is none, whatever Node is.  On a finite Node *)
(* it runs out of work (SearchRunsOut).                                    *)
(*                                                                         *)
(* The transactions keep the tables sound in every history, and when no    *)
(* graph mutation is refused each commit is one operation of TaskBoard and *)
(* the board's invariants hold of the committed tables.                    *)
(* Of the members only NobodyAssumption is assumed, of the tasks nothing.  *)
(***************************************************************************)
EXTENDS CycleDetection, SqlTaskDao, SequenceTheorems, FiniteSetTheorems, TLAPS

-----------------------------------------------------------------------------
(* The search: its inductive invariant.                                    *)
Frame == [node : Node, children : SUBSET Node]
Black == {n \in Node : color[n] = "black"}
Depth == 1 .. Len(stack)

SearchTypeOK ==
    /\ edges \subseteq Node \X Node
    /\ color \in [Node -> {"white", "gray", "black"}]
    /\ stack \in Seq(Frame) /\ cycle \in Seq(Node)

\* The stack is a path of the graph, each of its nodes once: the gray ones.
StackIsPath ==
    /\ \A n \in Node : color[n] = "gray" <=> \E i \in Depth : stack[i].node = n
    /\ \A i, j \in Depth : stack[i].node = stack[j].node => i = j
    /\ \A i \in Depth : i < Len(stack) => <<stack[i].node, stack[i + 1].node>> \in edges

\* A neighbour that is not left to visit is black, or next on the stack.
RestIsVisited ==
    \A i \in Depth :
        /\ stack[i].children \subseteq Upstream(Node, edges, stack[i].node)
        /\ \A m \in Upstream(Node, edges, stack[i].node) \ stack[i].children :
               color[m] = "black" \/ (i < Len(stack) /\ m = stack[i + 1].node)

\* Nothing leads out of the black nodes, and there is no cycle among them.
BlackIsDone ==
    /\ \A n \in Black, m \in Node : <<n, m>> \in edges => m \in Black
    /\ Acyclic(Black, edges)

\* Without a cycle the search ends with no node left.
NothingLeft == done => cycle # <<>> \/ \A n \in Seen : color[n] = "black"

SearchInv == /\ SearchTypeOK /\ StackIsPath /\ RestIsVisited /\ BlackIsDone /\ NothingLeft
        /\ CycleIsReal

-----------------------------------------------------------------------------
\* The black nodes of a search that is over are all that have edges.
LEMMA OverIsAcyclic ==
    ASSUME SearchTypeOK, BlackIsDone, \A n \in Seen : color[n] = "black"
    PROVE  Acyclic(Node, edges)
  <1> SUFFICES ASSUME NEW S \in (SUBSET Node) \ {{}}
               PROVE  \E t \in S : \A u \in S : <<t, u>> \notin edges
    BY DEF Acyclic
  <1>1. CASE S \cap Black = {}
    <2>1. PICK t \in S : TRUE
      OBVIOUS
    <2>2. t \notin Seen
      BY <1>1 DEF Seen, Black
    <2> QED
      BY <2>2 DEF Seen
  <1>2. CASE S \cap Black # {}
    <2>1. S \cap Black \in (SUBSET Black) \ {{}}
      BY <1>2
    <2>2. PICK t \in S \cap Black : \A u \in S \cap Black : <<t, u>> \notin edges
      BY <2>1 DEF BlackIsDone, Acyclic
    <2>3. \A u \in S : <<t, u>> \in edges => u \in Black
      BY DEF BlackIsDone
    <2> QED
      BY <2>2, <2>3
  <1> QED
    BY <1>1, <1>2

\* A reported cycle refutes acyclicity: its nodes are a set without a first one.
LEMMA CycleRefutes ==
    ASSUME SearchTypeOK, CycleIsReal, cycle # <<>>
    PROVE  ~ Acyclic(Node, edges)
  <1>1. /\ Len(cycle) \in Nat /\ Len(cycle) > 1 /\ cycle[1] = cycle[Len(cycle)]
        /\ \A i \in 1 .. Len(cycle) - 1 : <<cycle[i], cycle[i + 1]>> \in edges
        /\ \A i \in 1 .. Len(cycle) : cycle[i] \in Node
    BY LenProperties, ElementOfSeq DEF SearchTypeOK, CycleIsReal
  <1> DEFINE S == {cycle[i] : i \in 1 .. Len(cycle) - 1}
  <1>2. S \in (SUBSET Node) \ {{}}
    <2>1. cycle[1] \in S
      BY <1>1
    <2>2. \A i \in 1 .. Len(cycle) - 1 : cycle[i] \in Node
      BY <1>1
    <2> QED
      BY <2>1, <2>2
  <1>3. ASSUME NEW t \in S PROVE \E u \in S : <<t, u>> \in edges
    <2>1. PICK i \in 1 .. Len(cycle) - 1 : t = cycle[i]
      OBVIOUS
    <2>2. <<t, cycle[i + 1]>> \in edges
      BY <1>1, <2>1
    <2>3. cycle[i + 1] \in S
      <3>1. CASE i + 1 <= Len(cycle) - 1
        BY <1>1, <3>1
      <3>2. CASE i + 1 = Len(cycle)
        BY <1>1, <3>2
      <3> QED
        BY <1>1, <3>1, <3>2
    <2> QED
      BY <2>2, <2>3
  <1> HIDE DEF S
  <1> QED
    BY <1>2, <1>3 DEF Acyclic

\* One more node without a cycle through it.
LEMMA BlackGrows ==
    ASSUME SearchTypeOK, BlackIsDone, NEW n \in Node, n \notin Black,
           \A m \in Node : <<n, m>> \in edges => m \in Black
    PROVE  Acyclic(Black \cup {n}, edges)
  <1> SUFFICES ASSUME NEW S \in (SUBSET (Black \cup {n})) \ {{}}
               PROVE  \E t \in S : \A u \in S : <<t, u>> \notin edges
    BY DEF Acyclic
  <1>1. CASE S \cap Black = {}
    <2>1. S = {n} /\ <<n, n>> \notin edges
      BY <1>1
    <2> QED
      BY <2>1
  <1>2. CASE S \cap Black # {}
    <2>1. S \cap Black \in (SUBSET Black) \ {{}}
      BY <1>2
    <2>2. PICK t \in S \cap Black : \A u \in S \cap Black : <<t, u>> \notin edges
      BY <2>1 DEF BlackIsDone, Acyclic
    <2>3. <<t, n>> \notin edges
      BY DEF BlackIsDone
    <2> QED
      BY <2>2, <2>3
  <1> QED
    BY <1>1, <1>2

-----------------------------------------------------------------------------
(* The steps of the search.                                                *)

LEMMA InitSearchInv == SearchInit => SearchInv
  <1> SUFFICES ASSUME SearchInit PROVE SearchInv
    OBVIOUS
  <1>1. stack \in Seq(Frame) /\ cycle \in Seq(Node) /\ Depth = {}
    BY EmptySeq DEF SearchInit, Depth
  <1>2. SearchTypeOK
    BY <1>1 DEF SearchInit, SearchTypeOK
  <1>3. Black = {} /\ \A n \in Node : color[n] = "white"
    BY DEF SearchInit, Black
  <1>4. BlackIsDone
    BY <1>3 DEF BlackIsDone, Acyclic
  <1>5. StackIsPath /\ RestIsVisited
    BY <1>1, <1>3 DEF StackIsPath, RestIsVisited
  <1> QED
    BY <1>2, <1>4, <1>5 DEF SearchInv, NothingLeft, CycleIsReal, SearchInit

LEMMA StackFacts ==
    ASSUME SearchTypeOK
    PROVE  /\ Len(stack) \in Nat /\ Depth = 1 .. Len(stack) /\ DOMAIN stack = Depth
           /\ \A i \in Depth : stack[i] \in Frame
           /\ stack # <<>> => Len(stack) \in Depth /\ top = stack[Len(stack)]
  BY LenProperties, ElementOfSeq, EmptySeq DEF SearchTypeOK, Depth, top

\* Pushing a white node: the first of a search, or a neighbour of the top.
LEMMA PushStep ==
    ASSUME SearchInv, NEW n \in Node, color[n] = "white", NEW below \in Seq(Frame),
           Len(below) = Len(stack),
           \A i \in Depth : /\ below[i].node = stack[i].node
                            /\ below[i].children \subseteq Upstream(Node, edges, stack[i].node)
                            /\ \A m \in Upstream(Node, edges, stack[i].node) \ below[i].children :
                                  \/ color[m] = "black"
                                  \/ m = IF i < Len(stack) THEN stack[i + 1].node ELSE n,
           stack # <<>> => <<top.node, n>> \in edges,
           stack' = Append(below, Push(n)), color' = [color EXCEPT ![n] = "gray"],
           UNCHANGED <<edges, cycle, done>>, ~ done
    PROVE  SearchInv'
  <1>1. SearchTypeOK /\ Len(stack) \in Nat
    BY StackFacts DEF SearchInv
  <1>2. Push(n) \in Frame /\ Push(n).node = n /\ Push(n).children = Upstream(Node, edges, n)
    BY DEF Push, Frame, Upstream
  <1>3. /\ stack' \in Seq(Frame) /\ Len(stack') = Len(stack) + 1
        /\ \A i \in Depth : stack'[i] = below[i]
        /\ stack'[Len(stack) + 1] = Push(n)
    BY <1>1, <1>2, AppendProperties DEF Depth
  <1>4. \A m \in Node : color'[m] = IF m = n THEN "gray" ELSE color[m]
    BY <1>1 DEF SearchTypeOK
  <1>5. SearchTypeOK'
    BY <1>1, <1>3 DEF SearchTypeOK, Frame
  <1>6. Black' = Black
    BY <1>4 DEF Black
  <1>7. BlackIsDone'
    BY <1>6 DEF SearchInv, BlackIsDone
  <1>8. \A i \in Depth' : \/ i \in Depth /\ stack'[i].node = stack[i].node
                          \/ i = Len(stack) + 1 /\ stack'[i].node = n
    BY <1>1, <1>2, <1>3 DEF Depth
  <1>9. /\ Depth' = Depth \cup {Len(stack) + 1} /\ Len(stack) + 1 \notin Depth
        /\ \A i \in Depth : stack'[i].node = stack[i].node
        /\ stack'[Len(stack) + 1].node = n
    BY <1>1, <1>2, <1>3 DEF Depth
  <1>10. StackIsPath'
    <2>1. \A m \in Node : color'[m] = "gray" <=> \E i \in Depth' : stack'[i].node = m
      <3> TAKE m \in Node
      <3>1. color[m] = "gray" <=> \E i \in Depth : stack[i].node = m
        BY DEF SearchInv, StackIsPath
      <3>2. (\E i \in Depth' : stack'[i].node = m) <=> m = n \/ \E i \in Depth : stack[i].node = m
        BY <1>9
      <3> QED
        BY <1>4, <3>1, <3>2
    <2>2. \A i \in Depth : stack[i].node # n
      BY DEF SearchInv, StackIsPath
    <2>3. \A i, j \in Depth' : stack'[i].node = stack'[j].node => i = j
      <3>1. \A i, j \in Depth : stack[i].node = stack[j].node => i = j
        BY DEF SearchInv, StackIsPath
      <3>2. ASSUME NEW i \in Depth', NEW j \in Depth', stack'[i].node = stack'[j].node
            PROVE  i = j
        <4>1. CASE i \in Depth /\ j \in Depth
          BY <1>9, <3>1, <3>2, <4>1
        <4>2. CASE i \in Depth /\ j \notin Depth
          BY <1>9, <2>2, <3>2, <4>2
        <4>3. CASE i \notin Depth /\ j \in Depth
          BY <1>9, <2>2, <3>2, <4>3
        <4>4. CASE i \notin Depth /\ j \notin Depth
          BY <1>9, <4>4
        <4> QED
          BY <4>1, <4>2, <4>3, <4>4
      <3> QED
        BY <3>2
    <2>4. ASSUME NEW i \in Depth', i < Len(stack')
          PROVE  <<stack'[i].node, stack'[i + 1].node>> \in edges
      <3>1. i \in Depth /\ stack'[i].node = stack[i].node
        BY <1>1, <1>3, <1>8, <2>4 DEF Depth
      <3>2. CASE i < Len(stack)
        <4>1. i + 1 \in Depth
          BY <1>1, <3>1, <3>2 DEF Depth
        <4> QED
          BY <1>9, <3>1, <3>2, <4>1 DEF SearchInv, StackIsPath
      <3>3. CASE i = Len(stack)
        <4>1. stack # <<>> /\ top.node = stack[i].node
          BY <1>1, <3>1, <3>3, EmptySeq DEF Depth, top
        <4> QED
          BY <1>2, <1>3, <3>1, <3>3, <4>1
      <3>4. i < Len(stack) \/ i = Len(stack)
        BY <1>1, <3>1 DEF Depth
      <3> QED
        BY <3>2, <3>3, <3>4
    <2> QED
      BY <2>1, <2>3, <2>4 DEF StackIsPath
  <1>11. RestIsVisited'
    <2> SUFFICES ASSUME NEW i \in Depth'
                 PROVE  /\ stack'[i].children \subseteq Upstream(Node, edges, stack'[i].node)
                        /\ \A m \in Upstream(Node, edges, stack'[i].node) \ stack'[i].children :
                             color'[m] = "black" \/ (i < Len(stack') /\ m = stack'[i + 1].node)
      BY DEF RestIsVisited
    <2>1. CASE i = Len(stack) + 1
      BY <1>2, <1>3, <2>1
    <2>2. CASE i \in Depth
      <3>1. i \in Nat /\ i < Len(stack')
            /\ stack'[i + 1].node = IF i < Len(stack) THEN stack[i + 1].node ELSE n
        <4>1. CASE i < Len(stack)
          <5>1. i + 1 \in Depth
            BY <1>1, <2>2, <4>1 DEF Depth
          <5> QED
            BY <1>1, <1>3, <4>1, <5>1 DEF Depth
        <4>2. CASE i = Len(stack)
          BY <1>1, <1>2, <1>3, <4>2
        <4> QED
          BY <1>1, <2>2, <4>1, <4>2 DEF Depth
      <3>2. \A m \in Node : color[m] = "black" => color'[m] = "black"
        BY <1>4
      <3>3. Upstream(Node, edges, stack[i].node) \subseteq Node
        BY DEF Upstream
      <3> QED
        BY <1>3, <2>2, <3>1, <3>2, <3>3
    <2> QED
      BY <1>9, <2>1, <2>2
  <1>12. NothingLeft' /\ CycleIsReal'
    BY DEF SearchInv, NothingLeft, CycleIsReal
  <1> QED
    BY <1>5, <1>7, <1>10, <1>11, <1>12 DEF SearchInv

\* Giving up a neighbour of the top.
LEMMA WithoutFacts ==
    ASSUME SearchTypeOK, stack # <<>>, NEW nxt
    PROVE  /\ Without(nxt) \in Seq(Frame) /\ Len(Without(nxt)) = Len(stack)
           /\ \A i \in Depth : /\ Without(nxt)[i].node = stack[i].node
                               /\ Without(nxt)[i].children =
                                    IF i = Len(stack) THEN top.children \ {nxt} ELSE stack[i].children
  <1>1. Len(stack) \in Depth /\ top = stack[Len(stack)] /\ top \in Frame
        /\ \A i \in Depth : stack[i] \in Frame
    BY StackFacts
  <1>2. PICK new : new = [top EXCEPT !.children = top.children \ {nxt}]
    OBVIOUS
  <1>3. new \in Frame /\ new.node = top.node /\ new.children = top.children \ {nxt}
    BY <1>1, <1>2 DEF Frame
  <1>4. Without(nxt) = [stack EXCEPT ![Len(stack)] = new]
    BY <1>1, <1>2 DEF Without
  <1>5. /\ Without(nxt) \in Seq(Frame) /\ Len(Without(nxt)) = Len(stack)
        /\ \A i \in Depth : Without(nxt)[i] = IF i = Len(stack) THEN new ELSE stack[i]
    BY <1>1, <1>3, <1>4, ExceptSeq DEF SearchTypeOK, Depth
  <1> QED
    BY <1>1, <1>3, <1>5

LEMMA PickRootStep ==
    ASSUME SearchInv, NEW n \in Node, PickRoot(n)
    PROVE  SearchInv'
  <1>1. Len(stack) = 0 /\ Depth = {} /\ <<>> \in Seq(Frame)
    BY EmptySeq DEF PickRoot, Depth
  <1>2. stack' = Append(<<>>, Push(n))
    BY DEF PickRoot
  <1> QED
    BY <1>1, <1>2, PushStep DEF PickRoot

LEMMA VisitWhiteStep ==
    ASSUME SearchInv, NEW n \in Node, VisitWhite(n)
    PROVE  SearchInv'
  <1>1. SearchTypeOK /\ stack # <<>> /\ n \in top.children
    BY DEF SearchInv, VisitWhite
  <1>2. Len(stack) \in Depth /\ Len(stack) \in Nat /\ Depth = 1 .. Len(stack) /\ top = stack[Len(stack)]
    BY <1>1, StackFacts
  <1>3. <<top.node, n>> \in edges
    BY <1>1, <1>2 DEF SearchInv, RestIsVisited, Upstream
  <1> DEFINE below == Without(n)
  <1>4. below \in Seq(Frame) /\ Len(below) = Len(stack)
        /\ \A i \in Depth : /\ below[i].node = stack[i].node
                            /\ below[i].children = IF i = Len(stack) THEN top.children \ {n}
                                                   ELSE stack[i].children
    BY <1>1, WithoutFacts
  <1> HIDE DEF below
  <1>5. ASSUME NEW i \in Depth
        PROVE  /\ below[i].children \subseteq Upstream(Node, edges, stack[i].node)
               /\ \A m \in Upstream(Node, edges, stack[i].node) \ below[i].children :
                     \/ color[m] = "black"
                     \/ m = IF i < Len(stack) THEN stack[i + 1].node ELSE n
    <2>1. /\ stack[i].children \subseteq Upstream(Node, edges, stack[i].node)
          /\ \A m \in Upstream(Node, edges, stack[i].node) \ stack[i].children :
               color[m] = "black" \/ (i < Len(stack) /\ m = stack[i + 1].node)
      BY DEF SearchInv, RestIsVisited
    <2>2. CASE i = Len(stack)
      BY <1>2, <1>4, <2>1, <2>2
    <2>3. CASE i # Len(stack)
      BY <1>2, <1>4, <2>1, <2>3
    <2> QED
      BY <2>2, <2>3
  <1>6. stack' = Append(below, Push(n))
    BY DEF VisitWhite, below
  <1>7. /\ color[n] = "white" /\ color' = [color EXCEPT ![n] = "gray"]
        /\ UNCHANGED <<edges, cycle, done>> /\ ~ done
    BY DEF VisitWhite
  <1>8. \A i \in Depth :
           /\ below[i].node = stack[i].node
           /\ below[i].children \subseteq Upstream(Node, edges, stack[i].node)
           /\ \A m \in Upstream(Node, edges, stack[i].node) \ below[i].children :
                 \/ color[m] = "black"
                 \/ m = IF i < Len(stack) THEN stack[i + 1].node ELSE n
    BY <1>4, <1>5, Zenon
  <1> QED
    BY <1>3, <1>4, <1>6, <1>7, <1>8, PushStep, Zenon

LEMMA VisitBlackStep ==
    ASSUME SearchInv, NEW n \in Node, VisitBlack(n)
    PROVE  SearchInv'
  <1>1. SearchTypeOK /\ stack # <<>> /\ color[n] = "black" /\ stack' = Without(n)
        /\ UNCHANGED <<edges, color, cycle, done>>
    BY DEF SearchInv, VisitBlack
  <1>2. Len(stack) \in Depth /\ Len(stack) \in Nat /\ Depth = 1 .. Len(stack) /\ top = stack[Len(stack)]
    BY <1>1, StackFacts
  <1>3. stack' \in Seq(Frame) /\ Len(stack') = Len(stack) /\ Depth' = Depth
        /\ \A i \in Depth : /\ stack'[i].node = stack[i].node
                            /\ stack'[i].children = IF i = Len(stack) THEN top.children \ {n}
                                                    ELSE stack[i].children
    BY <1>1, WithoutFacts DEF Depth
  <1>4. SearchTypeOK'
    BY <1>1, <1>3 DEF SearchTypeOK, Frame
  <1>5. StackIsPath'
    <2>1. \A i \in Depth : i < Len(stack) => i + 1 \in Depth
      BY <1>2
    <2>2. \A m \in Node : color'[m] = "gray" <=> \E i \in Depth' : stack'[i].node = m
      BY <1>1, <1>3 DEF SearchInv, StackIsPath
    <2>3. \A i, j \in Depth' : stack'[i].node = stack'[j].node => i = j
      BY <1>3 DEF SearchInv, StackIsPath
    <2>4. \A i \in Depth' : i < Len(stack') => <<stack'[i].node, stack'[i + 1].node>> \in edges'
      <3>1. \A i \in Depth : i < Len(stack) => <<stack[i].node, stack[i + 1].node>> \in edges
        BY DEF SearchInv, StackIsPath
      <3> QED
        BY <1>1, <1>3, <2>1, <3>1
    <2> QED
      BY <2>2, <2>3, <2>4 DEF StackIsPath
  <1>6. RestIsVisited'
    <2> SUFFICES ASSUME NEW i \in Depth
                 PROVE  /\ stack'[i].children \subseteq Upstream(Node, edges, stack'[i].node)
                        /\ \A m \in Upstream(Node, edges, stack'[i].node) \ stack'[i].children :
                             color[m] = "black" \/ (i < Len(stack) /\ m = stack'[i + 1].node)
      BY <1>1, <1>3 DEF RestIsVisited
    <2>1. /\ stack[i].children \subseteq Upstream(Node, edges, stack[i].node)
          /\ \A m \in Upstream(Node, edges, stack[i].node) \ stack[i].children :
               color[m] = "black" \/ (i < Len(stack) /\ m = stack[i + 1].node)
      BY DEF SearchInv, RestIsVisited
    <2>2. i < Len(stack) => stack'[i + 1].node = stack[i + 1].node
      BY <1>2, <1>3
    <2> QED
      BY <1>1, <1>2, <1>3, <2>1, <2>2
  <1>7. BlackIsDone' /\ NothingLeft' /\ CycleIsReal'
    BY <1>1 DEF SearchInv, BlackIsDone, NothingLeft, CycleIsReal, Black, Seen
  <1> QED
    BY <1>4, <1>5, <1>6, <1>7 DEF SearchInv

\* The top is done: its neighbours are black, and it becomes so.
LEMMA BacktrackStep ==
    ASSUME SearchInv, Backtrack
    PROVE  SearchInv'
  <1>1. SearchTypeOK /\ stack # <<>> /\ top.children = {} /\ UNCHANGED <<edges, cycle, done>> /\ ~ done
    BY DEF SearchInv, Backtrack
  <1>2. PICK d, n : d = Len(stack) /\ n = top.node
    OBVIOUS
  <1>3. /\ d \in Depth /\ d \in Nat /\ Depth = 1 .. d /\ top = stack[d]
        /\ \A i \in Depth : stack[i] \in Frame
    BY <1>1, <1>2, StackFacts
  <1>4. n \in Node /\ color[n] = "gray" /\ n = stack[d].node
    BY <1>2, <1>3 DEF SearchInv, StackIsPath, Frame
  <1>5. stack' = SubSeq(stack, 1, d - 1) /\ color' = [color EXCEPT ![n] = "black"]
    BY <1>2 DEF Backtrack
  <1>6. /\ stack' \in Seq(Frame) /\ Len(stack') = d - 1
        /\ \A i \in 1 .. d - 1 : stack'[i] = stack[i]
    <2>1. \A i \in 1 .. d - 1 : stack[i] \in Frame
      BY <1>3
    <2>2. /\ SubSeq(stack, 1, d - 1) \in Seq(Frame)
          /\ Len(SubSeq(stack, 1, d - 1)) = IF 1 <= d - 1 THEN d - 1 - 1 + 1 ELSE 0
          /\ \A i \in 1 .. d - 1 - 1 + 1 : SubSeq(stack, 1, d - 1)[i] = stack[1 + i - 1]
      BY <1>3, <2>1, SubSeqProperties
    <2> QED
      BY <1>3, <1>5, <2>2
  <1>7. /\ Depth' = 1 .. d - 1 /\ d \notin Depth' /\ Depth' \subseteq Depth
        /\ Depth = Depth' \cup {d}
    BY <1>3, <1>6 DEF Depth
  <1>8. \A m \in Node : color'[m] = IF m = n THEN "black" ELSE color[m]
    BY <1>1, <1>5 DEF SearchTypeOK
  <1>9. SearchTypeOK'
    BY <1>1, <1>4, <1>5, <1>6 DEF SearchTypeOK, Frame
  <1>10. StackIsPath'
    <2>1. \A i \in Depth' : stack[i].node # n
      BY <1>3, <1>4, <1>7 DEF SearchInv, StackIsPath
    <2>2. \A m \in Node : color'[m] = "gray" <=> \E i \in Depth' : stack'[i].node = m
      <3> TAKE m \in Node
      <3>1. color[m] = "gray" <=> \E i \in Depth : stack[i].node = m
        BY DEF SearchInv, StackIsPath
      <3>2. (\E i \in Depth : stack[i].node = m) <=> m = n \/ \E i \in Depth' : stack[i].node = m
        BY <1>4, <1>7
      <3>3. (\E i \in Depth' : stack'[i].node = m) <=> \E i \in Depth' : stack[i].node = m
        BY <1>6, <1>7
      <3> QED
        BY <1>8, <2>1, <3>1, <3>2, <3>3
    <2>3. \A i, j \in Depth' : stack'[i].node = stack'[j].node => i = j
      BY <1>6, <1>7 DEF SearchInv, StackIsPath
    <2>4. \A i \in Depth' : i < Len(stack') => <<stack'[i].node, stack'[i + 1].node>> \in edges'
      <3>1. \A i \in Depth : i < d => <<stack[i].node, stack[i + 1].node>> \in edges
        BY <1>2 DEF SearchInv, StackIsPath
      <3>2. ASSUME NEW i \in Depth', i < Len(stack')
            PROVE  i \in Depth /\ i < d /\ stack'[i] = stack[i] /\ stack'[i + 1] = stack[i + 1]
        BY <1>3, <1>6, <1>7, <3>2
      <3> QED
        BY <1>1, <3>1, <3>2
    <2> QED
      BY <2>2, <2>3, <2>4 DEF StackIsPath
  <1>11. RestIsVisited'
    <2> SUFFICES ASSUME NEW i \in Depth'
                 PROVE  /\ stack'[i].children \subseteq Upstream(Node, edges, stack'[i].node)
                        /\ \A m \in Upstream(Node, edges, stack'[i].node) \ stack'[i].children :
                             color'[m] = "black" \/ (i < Len(stack') /\ m = stack'[i + 1].node)
      BY <1>1 DEF RestIsVisited
    <2>1. i \in Depth /\ i < d /\ i \in Nat /\ stack'[i] = stack[i]
      BY <1>3, <1>6, <1>7
    <2>2. /\ stack[i].children \subseteq Upstream(Node, edges, stack[i].node)
          /\ \A m \in Upstream(Node, edges, stack[i].node) \ stack[i].children :
               color[m] = "black" \/ m = stack[i + 1].node
      BY <2>1 DEF SearchInv, RestIsVisited
    <2>3. Upstream(Node, edges, stack[i].node) \subseteq Node
      BY DEF Upstream
    <2>4. CASE i < d - 1
      <3>1. stack'[i + 1] = stack[i + 1] /\ i < Len(stack')
        BY <1>3, <1>6, <2>1, <2>4
      <3> QED
        BY <1>8, <2>1, <2>2, <2>3, <3>1
    <2>5. CASE i = d - 1
      <3>1. i + 1 = d
        BY <1>3, <2>5
      <3> QED
        BY <1>4, <1>8, <2>1, <2>2, <2>3, <3>1
    <2> QED
      BY <1>3, <2>1, <2>4, <2>5
  <1>12. \A m \in Node : <<n, m>> \in edges => m \in Black
    <2>1. \A m \in Upstream(Node, edges, n) : color[m] = "black"
      BY <1>1, <1>2, <1>3, <1>4 DEF SearchInv, RestIsVisited
    <2> QED
      BY <2>1 DEF Upstream, Black
  <1>13. BlackIsDone'
    <2>1. Black' = Black \cup {n} /\ n \notin Black
      BY <1>4, <1>8 DEF Black
    <2>2. Acyclic(Black \cup {n}, edges)
      BY <1>1, <1>4, <1>12, <2>1, BlackGrows DEF SearchInv
    <2>3. \A k \in Black, m \in Node : <<k, m>> \in edges => m \in Black
      BY DEF SearchInv, BlackIsDone
    <2> QED
      BY <1>1, <1>12, <2>1, <2>2, <2>3 DEF BlackIsDone
  <1>14. NothingLeft' /\ CycleIsReal'
    BY <1>1 DEF SearchInv, NothingLeft, CycleIsReal
  <1> QED
    BY <1>9, <1>10, <1>11, <1>13, <1>14 DEF SearchInv

\* A gray neighbour is on the stack, and the stack from there on is a cycle.
LEMMA VisitGrayStep ==
    ASSUME SearchInv, NEW n \in Node, VisitGray(n)
    PROVE  SearchInv'
  <1>1. SearchTypeOK /\ stack # <<>> /\ n \in top.children /\ color[n] = "gray"
        /\ UNCHANGED <<edges, color, stack>> /\ done' = TRUE
    BY DEF SearchInv, VisitGray
  <1>2. PICK d : d = Len(stack)
    OBVIOUS
  <1>3. /\ d \in Depth /\ d \in Nat /\ Depth = 1 .. d /\ top = stack[d] /\ DOMAIN stack = Depth
        /\ \A i \in Depth : stack[i] \in Frame
    BY <1>1, <1>2, StackFacts
  <1>4. PICK p : p = path
    OBVIOUS
  <1>5. p = [i \in 1 .. d |-> stack[i].node] /\ \A i \in 1 .. d : stack[i].node \in Node
    BY <1>3, <1>4 DEF path, Frame
  <1>6. p \in Seq(Node) /\ Len(p) = d /\ \A i \in 1 .. d : p[i] = stack[i].node
    BY <1>3, <1>5
  <1>7. PICK k : k = CHOOSE i \in DOMAIN p : p[i] = n
    OBVIOUS
  <1>8. k \in 1 .. d /\ p[k] = n
    <2>1. \E i \in DOMAIN p : p[i] = n
      BY <1>1, <1>3, <1>5, <1>6 DEF SearchInv, StackIsPath
    <2> QED
      BY <1>5, <1>7, <2>1
  <1>9. cycle' = Append(SubSeq(p, k, d), n)
    BY <1>4, <1>6, <1>7 DEF VisitGray
  <1>10. PICK q : q = SubSeq(p, k, d)
    OBVIOUS
  <1>11. q \in Seq(Node) /\ Len(q) = d - k + 1 /\ \A i \in 1 .. d - k + 1 : q[i] = p[k + i - 1]
    <2>1. \A i \in k .. d : p[i] \in Node
      BY <1>3, <1>5, <1>6, <1>8
    <2>2. /\ SubSeq(p, k, d) \in Seq(Node)
          /\ Len(SubSeq(p, k, d)) = IF k <= d THEN d - k + 1 ELSE 0
          /\ \A i \in 1 .. d - k + 1 : SubSeq(p, k, d)[i] = p[k + i - 1]
      BY <1>3, <1>8, <2>1, SubSeqProperties
    <2> QED
      BY <1>3, <1>8, <1>10, <2>2
  <1>12. /\ cycle' \in Seq(Node) /\ Len(cycle') = d - k + 2
         /\ \A i \in 1 .. d - k + 1 : cycle'[i] = p[k + i - 1]
         /\ cycle'[d - k + 2] = n
    <2>1. /\ Append(q, n) \in Seq(Node) /\ Len(Append(q, n)) = Len(q) + 1
          /\ \A i \in 1 .. Len(q) : Append(q, n)[i] = q[i]
          /\ Append(q, n)[Len(q) + 1] = n
      BY <1>11, AppendProperties
    <2> QED
      BY <1>3, <1>8, <1>9, <1>10, <1>11, <2>1
  <1>13. \A i \in 1 .. d : i < d => <<p[i], p[i + 1]>> \in edges
    <2>1. \A i \in 1 .. d : i < d => i + 1 \in 1 .. d
      BY <1>3
    <2> QED
      BY <1>2, <1>3, <1>6, <2>1 DEF SearchInv, StackIsPath
  <1>14. <<p[d], n>> \in edges
    BY <1>1, <1>3, <1>6 DEF SearchInv, RestIsVisited, Upstream
  <1>15. CycleIsReal'
    <2>1. Len(cycle') > 1 /\ Len(cycle') - 1 = d - k + 1
      BY <1>3, <1>8, <1>12
    <2>2. cycle'[1] = cycle'[Len(cycle')]
      BY <1>3, <1>8, <1>12
    <2>3. ASSUME NEW i \in 1 .. d - k + 1
          PROVE  <<cycle'[i], cycle'[i + 1]>> \in edges
      <3>1. cycle'[i] = p[k + i - 1] /\ k + i - 1 \in 1 .. d
        BY <1>3, <1>8, <1>12
      <3>2. CASE i < d - k + 1
        <4>1. k + i - 1 < d /\ i + 1 \in 1 .. d - k + 1 /\ k + (i + 1) - 1 = (k + i - 1) + 1
          BY <1>3, <1>8, <3>2
        <4>2. cycle'[i + 1] = p[(k + i - 1) + 1]
          BY <1>12, <4>1
        <4> QED
          BY <1>13, <3>1, <4>1, <4>2
      <3>3. CASE i = d - k + 1
        <4>1. k + i - 1 = d /\ i + 1 = d - k + 2
          BY <1>3, <1>8, <3>3
        <4> QED
          BY <1>12, <1>14, <3>1, <4>1
      <3> QED
        BY <1>3, <1>8, <3>2, <3>3
    <2> QED
      BY <1>1, <2>1, <2>2, <2>3 DEF CycleIsReal
  <1>16. cycle' # <<>>
    BY <1>3, <1>8, <1>12, EmptySeq
  <1>17. SearchTypeOK' /\ StackIsPath' /\ RestIsVisited' /\ BlackIsDone'
    <2>1. SearchTypeOK'
      BY <1>1, <1>12 DEF SearchTypeOK, Frame
    <2>2. StackIsPath' /\ RestIsVisited'
      BY <1>1 DEF SearchInv, StackIsPath, RestIsVisited, Depth
    <2>3. BlackIsDone'
      BY <1>1 DEF SearchInv, BlackIsDone, Black
    <2> QED
      BY <2>1, <2>2, <2>3
  <1> QED
    BY <1>15, <1>16, <1>17 DEF SearchInv, NothingLeft

LEMMA ExhaustedStep ==
    ASSUME SearchInv, Exhausted
    PROVE  SearchInv'
  <1>1. stack = <<>> /\ UNCHANGED <<edges, color, stack, cycle>>
        /\ \A n \in Seen : color[n] # "white"
    BY DEF Exhausted
  <1>2. Depth = {}
    BY <1>1, EmptySeq DEF Depth
  <1>3. \A n \in Seen : color[n] = "black"
    <2>1. \A n \in Node : color[n] # "gray" /\ color[n] \in {"white", "gray", "black"}
      BY <1>2 DEF SearchInv, StackIsPath, SearchTypeOK
    <2> QED
      BY <1>1, <2>1 DEF Seen
  <1> QED
    BY <1>1, <1>3 DEF SearchInv, SearchTypeOK, StackIsPath, RestIsVisited, BlackIsDone, Black, Depth, Frame,
                      NothingLeft, Seen, CycleIsReal

-----------------------------------------------------------------------------
\* The inductive invariant holds in every reachable state.
THEOREM SearchInvariant == SearchSpec => []SearchInv
  <1>1. SearchInv /\ [SearchNext]_searchVars => SearchInv'
    <2> SUFFICES ASSUME SearchInv, [SearchNext]_searchVars PROVE SearchInv'
      OBVIOUS
    <2>1. CASE \E n \in Node : PickRoot(n) \/ VisitWhite(n) \/ VisitBlack(n) \/ VisitGray(n)
      BY <2>1, PickRootStep, VisitWhiteStep, VisitBlackStep, VisitGrayStep
    <2>2. CASE Backtrack
      BY <2>2, BacktrackStep
    <2>3. CASE Exhausted
      BY <2>3, ExhaustedStep
    <2>4. CASE UNCHANGED searchVars
      <3>1. UNCHANGED <<edges, color, stack, cycle, done>>
        BY <2>4 DEF searchVars
      <3>2. SearchTypeOK' /\ CycleIsReal'
        BY <3>1 DEF SearchInv, SearchTypeOK, CycleIsReal, Frame
      <3>3. StackIsPath' /\ RestIsVisited'
        BY <3>1 DEF SearchInv, StackIsPath, RestIsVisited, Depth
      <3>4. BlackIsDone' /\ (NothingLeft' <=> NothingLeft)
        BY <3>1 DEF SearchInv, BlackIsDone, Black, NothingLeft, Seen
      <3> QED
        BY <3>1, <3>2, <3>3, <3>4 DEF SearchInv
    <2> QED
      BY <2>1, <2>2, <2>3, <2>4 DEF SearchNext
  <1> QED
    BY <1>1, InitSearchInv, PTL DEF SearchSpec

\* The path that detectCycleInAdjacencySQL (sql_task_dao.go) reports is a cycle of the
\* graph, on every graph.
THEOREM ReportIsACycle == SearchSpec => []CycleIsReal
  BY SearchInvariant, PTL DEF SearchInv

\* Its verdict is right on every graph: it reports a cycle exactly where there is one.
THEOREM VerdictIsRight == SearchSpec => []VerdictCorrect
  <1>1. SearchInv => VerdictCorrect
    <2> SUFFICES ASSUME SearchInv, done PROVE cycle # <<>> <=> ~ Acyclic(Node, edges)
      BY DEF VerdictCorrect
    <2>1. CASE cycle # <<>>
      BY <2>1, CycleRefutes DEF SearchInv
    <2>2. CASE cycle = <<>>
      BY <2>2, OverIsAcyclic DEF SearchInv, NothingLeft
    <2> QED
      BY <2>1, <2>2
  <1> QED
    BY <1>1, SearchInvariant, PTL

-----------------------------------------------------------------------------
(* The search ends: a variant.                                             *)

\* The nodes that were coloured, and the edges that were looked at.
Reached == {n \in Node : color[n] # "white"}
Looked == {e \in edges : \/ color[e[1]] = "black"
                         \/ \E i \in Depth : stack[i].node = e[1] /\ e[2] \notin stack[i].children}

\* What is still to be coloured, to be finished and to be looked at, and the answer.
Remaining == Cardinality(Node \ Reached) + Cardinality(Node \ Black)
             + Cardinality(edges \ Looked) + (IF done THEN 0 ELSE 1)

\* Progress in one of the three sets and a loss in none.
Grows ==
    /\ Reached \subseteq Reached' /\ Black \subseteq Black' /\ Looked \subseteq Looked'
    /\ Reached' # Reached \/ Black' # Black \/ Looked' # Looked

\* An edge stays looked at while the entries of the stack only lose neighbours.
LEMMA LookedStays ==
  ASSUME UNCHANGED edges, \A n \in Node : color[n] = "black" => color'[n] = "black",
         edges \subseteq Node \X Node,
         \A i \in Depth : \/ stack[i].node \in Node /\ color'[stack[i].node] = "black"
                          \/ /\ i \in Depth' /\ stack'[i].node = stack[i].node
                             /\ stack'[i].children \subseteq stack[i].children
  PROVE  Looked \subseteq Looked'
  <1> SUFFICES ASSUME NEW e \in Looked PROVE e \in Looked'
    OBVIOUS
  <1>1. e \in edges /\ e[1] \in Node
    BY DEF Looked
  <1>2. CASE color[e[1]] = "black"
    BY <1>1, <1>2 DEF Looked
  <1>3. ASSUME NEW i \in Depth, stack[i].node = e[1], e[2] \notin stack[i].children
        PROVE  e \in Looked'
    BY <1>1, <1>3 DEF Looked
  <1> QED
    BY <1>2, <1>3 DEF Looked

LEMMA ReachGrows ==
  ASSUME SearchTypeOK, NEW n \in Node, color[n] = "white", color' = [color EXCEPT ![n] = "gray"]
  PROVE  /\ Reached \subseteq Reached' /\ Reached' # Reached /\ Black' = Black
         /\ \A m \in Node : color[m] = "black" => color'[m] = "black"
  BY DEF SearchTypeOK, Reached, Black

LEMMA PickRootGrows ==
  ASSUME SearchInv, NEW n \in Node, PickRoot(n)
  PROVE  Grows
  <1>1. Depth = {} /\ SearchTypeOK
    BY EmptySeq DEF PickRoot, Depth, SearchInv
  <1>2. color[n] = "white" /\ color' = [color EXCEPT ![n] = "gray"] /\ UNCHANGED edges
    BY DEF PickRoot
  <1>3. /\ Reached \subseteq Reached' /\ Reached' # Reached /\ Black' = Black
        /\ \A m \in Node : color[m] = "black" => color'[m] = "black"
    BY <1>1, <1>2, ReachGrows
  <1>4. Looked \subseteq Looked'
    BY <1>1, <1>2, <1>3, LookedStays DEF SearchTypeOK
  <1> QED
    BY <1>3, <1>4 DEF Grows

LEMMA VisitWhiteGrows ==
  ASSUME SearchInv, NEW n \in Node, VisitWhite(n)
  PROVE  Grows
  <1>1. SearchTypeOK /\ stack # <<>> /\ UNCHANGED edges
        /\ color[n] = "white" /\ color' = [color EXCEPT ![n] = "gray"]
    BY DEF SearchInv, VisitWhite
  <1> DEFINE below == Without(n)
  <1>2. below \in Seq(Frame) /\ Len(below) = Len(stack)
        /\ \A i \in Depth : /\ below[i].node = stack[i].node
                            /\ below[i].children = IF i = Len(stack) THEN top.children \ {n}
                                                   ELSE stack[i].children
    BY <1>1, WithoutFacts
  <1>3. Len(stack) \in Depth /\ Len(stack) \in Nat /\ Depth = 1 .. Len(stack) /\ top = stack[Len(stack)]
    BY <1>1, StackFacts
  <1>4. Push(n) \in Frame
    BY DEF Push, Frame, Upstream
  <1>5. stack' = Append(below, Push(n))
    BY DEF VisitWhite
  <1> HIDE DEF below
  <1>6. Len(stack') = Len(stack) + 1 /\ \A i \in Depth : stack'[i] = below[i]
    BY <1>2, <1>3, <1>4, <1>5, AppendProperties
  <1>7. \A i \in Depth : /\ i \in Depth' /\ stack'[i].node = stack[i].node
                         /\ stack'[i].children \subseteq stack[i].children
    <2>1. \A i \in Depth : i \in Depth'
      BY <1>3, <1>6 DEF Depth
    <2> QED
      BY <1>2, <1>3, <1>6, <2>1
  <1>8. /\ Reached \subseteq Reached' /\ Reached' # Reached /\ Black' = Black
        /\ \A m \in Node : color[m] = "black" => color'[m] = "black"
    BY <1>1, ReachGrows
  <1>9. Looked \subseteq Looked'
    BY <1>1, <1>7, <1>8, LookedStays DEF SearchTypeOK
  <1> QED
    BY <1>8, <1>9 DEF Grows

LEMMA VisitBlackGrows ==
  ASSUME SearchInv, NEW n \in Node, VisitBlack(n)
  PROVE  Grows
  <1>1. SearchTypeOK /\ stack # <<>> /\ stack' = Without(n) /\ n \in top.children
        /\ UNCHANGED <<edges, color>>
    BY DEF SearchInv, VisitBlack
  <1>2. Len(stack) \in Depth /\ Len(stack) \in Nat /\ Depth = 1 .. Len(stack) /\ top = stack[Len(stack)]
    BY <1>1, StackFacts
  <1>3. Depth' = Depth
        /\ \A i \in Depth : /\ stack'[i].node = stack[i].node
                            /\ stack'[i].children = IF i = Len(stack) THEN top.children \ {n}
                                                    ELSE stack[i].children
    BY <1>1, WithoutFacts DEF Depth
  <1>4. \A i \in Depth : stack'[i].children \subseteq stack[i].children
    BY <1>2, <1>3
  <1>5. Looked \subseteq Looked'
    BY <1>1, <1>3, <1>4, LookedStays DEF SearchTypeOK
  <1>6. Reached' = Reached /\ Black' = Black
    BY <1>1 DEF Reached, Black
  <1> DEFINE e == <<top.node, n>>
  <1>7. e \in edges /\ color[top.node] = "gray"
    <2>1. top.children \subseteq Upstream(Node, edges, top.node)
      BY <1>2 DEF SearchInv, RestIsVisited
    <2>2. top.node \in Node
      BY <1>1, <1>2, StackFacts DEF Frame
    <2> QED
      BY <1>1, <1>2, <2>1, <2>2 DEF SearchInv, StackIsPath, Upstream
  <1>8. e \notin Looked
    <2>1. \A i \in Depth : stack[i].node = top.node => i = Len(stack)
      BY <1>2 DEF SearchInv, StackIsPath
    <2> QED
      BY <1>1, <1>2, <1>7, <2>1 DEF Looked
  <1>9. e \in Looked'
    <2>1. stack'[Len(stack)].node = top.node /\ n \notin stack'[Len(stack)].children
      BY <1>2, <1>3
    <2> QED
      BY <1>1, <1>2, <1>3, <1>7, <2>1 DEF Looked
  <1> QED
    BY <1>5, <1>6, <1>8, <1>9 DEF Grows

LEMMA BacktrackGrows ==
  ASSUME SearchInv, Backtrack
  PROVE  Grows
  <1>1. SearchTypeOK /\ stack # <<>> /\ UNCHANGED edges
    BY DEF SearchInv, Backtrack
  <1>2. PICK d, n : d = Len(stack) /\ n = top.node
    OBVIOUS
  <1>3. /\ d \in Depth /\ d \in Nat /\ Depth = 1 .. d /\ top = stack[d]
        /\ \A i \in Depth : stack[i] \in Frame
    BY <1>1, <1>2, StackFacts
  <1>4. n \in Node /\ color[n] = "gray" /\ n = stack[d].node
    BY <1>2, <1>3 DEF SearchInv, StackIsPath, Frame
  <1>5. stack' = SubSeq(stack, 1, d - 1) /\ color' = [color EXCEPT ![n] = "black"]
    BY <1>2 DEF Backtrack
  <1>6. Len(stack') = d - 1 /\ \A i \in 1 .. d - 1 : stack'[i] = stack[i]
    BY <1>1, <1>2, <1>3, <1>5, SubSeqProperties DEF SearchTypeOK
  <1>7. \A m \in Node : color'[m] = IF m = n THEN "black" ELSE color[m]
    BY <1>1, <1>5 DEF SearchTypeOK
  <1>8. Reached \subseteq Reached' /\ Black \subseteq Black' /\ Black' # Black
    BY <1>4, <1>7 DEF Reached, Black
  <1>9. ASSUME NEW i \in Depth
        PROVE  \/ stack[i].node \in Node /\ color'[stack[i].node] = "black"
               \/ /\ i \in Depth' /\ stack'[i].node = stack[i].node
                  /\ stack'[i].children \subseteq stack[i].children
    <2>1. CASE i = d
      BY <1>4, <1>7, <2>1
    <2>2. CASE i # d
      <3>1. i \in 1 .. d - 1
        BY <1>3, <2>2
      <3> QED
        BY <1>6, <3>1 DEF Depth
    <2> QED
      BY <2>1, <2>2
  <1>10. Looked \subseteq Looked'
    BY <1>1, <1>7, <1>9, LookedStays DEF SearchTypeOK
  <1> QED
    BY <1>8, <1>10 DEF Grows

\* Less remains when a set grows.
LEMMA FewerRemain ==
  ASSUME NEW S, IsFiniteSet(S), NEW A \in SUBSET S, NEW B \in SUBSET S, A \subseteq B
  PROVE  /\ Cardinality(S \ A) \in Nat /\ Cardinality(S \ B) \in Nat
         /\ Cardinality(S \ B) <= Cardinality(S \ A)
         /\ A # B => Cardinality(S \ B) < Cardinality(S \ A)
  <1>1. IsFiniteSet(S \ A) /\ IsFiniteSet(S \ B)
    BY FS_Subset
  <1>2. Cardinality(S \ A) \in Nat /\ Cardinality(S \ B) \in Nat
    BY <1>1, FS_CardinalityType
  <1>3. (S \ B) \in SUBSET (S \ A)
    OBVIOUS
  <1>4. Cardinality(S \ B) <= Cardinality(S \ A)
    BY <1>1, <1>3, FS_Subset
  <1>5. A # B => S \ B # S \ A
    OBVIOUS
  <1>6. Cardinality(S \ B) = Cardinality(S \ A) => S \ B = S \ A
    BY <1>1, <1>3, FS_Subset
  <1> QED
    BY <1>2, <1>4, <1>5, <1>6

\* The three loops of detectCycleInAdjacencySQL run out of work: every iteration colours a
\* node, finishes one, looks at an edge or returns, and nothing is ever taken back, so a
\* search of a finite graph has at most 2 * |Node| + |edges| + 1 steps.
THEOREM SearchRunsOut ==
  ASSUME IsFiniteSet(Node)
  PROVE  SearchSpec => [](Remaining \in Nat) /\ [][Remaining' < Remaining]_searchVars
  <1>1. ASSUME SearchInv
        PROVE  IsFiniteSet(edges) /\ Reached \in SUBSET Node /\ Black \in SUBSET Node
               /\ Looked \in SUBSET edges
    <2>1. IsFiniteSet(Node \X Node)
      BY FS_Product
    <2>2. IsFiniteSet(edges)
      BY <1>1, <2>1, FS_Subset DEF SearchInv, SearchTypeOK
    <2> QED
      BY <2>2 DEF Reached, Black, Looked
  <1>2. ASSUME SearchInv
        PROVE  Remaining \in Nat
    <2>1. PICK a, b, c : a = Cardinality(Node \ Reached) /\ b = Cardinality(Node \ Black)
                         /\ c = Cardinality(edges \ Looked)
      OBVIOUS
    <2>2. a \in Nat /\ b \in Nat /\ c \in Nat
      BY <1>1, <1>2, <2>1, FewerRemain
    <2>3. Remaining = a + b + c + (IF done THEN 0 ELSE 1)
      BY <2>1, Zenon DEF Remaining
    <2> QED
      BY <2>2, <2>3
  <1>3. ASSUME SearchInv, SearchInv', SearchNext
        PROVE  Remaining' < Remaining
    <2>1. UNCHANGED edges /\ ~ done
      BY <1>3 DEF SearchNext, PickRoot, VisitWhite, VisitBlack, VisitGray, Backtrack, Exhausted
    <2>2. IsFiniteSet(edges) /\ Reached \in SUBSET Node /\ Black \in SUBSET Node /\ Looked \in SUBSET edges
      BY <1>1, <1>3
    <2>3. Reached' \in SUBSET Node /\ Black' \in SUBSET Node /\ Looked' \in SUBSET edges
      BY <2>1 DEF Reached, Black, Looked
    <2>4. PICK a, b, c : a = Cardinality(Node \ Reached) /\ b = Cardinality(Node \ Black)
                         /\ c = Cardinality(edges \ Looked)
      OBVIOUS
    <2>5. PICK x, y, z : x = Cardinality(Node \ Reached') /\ y = Cardinality(Node \ Black')
                         /\ z = Cardinality(edges \ Looked')
      OBVIOUS
    <2>6. Remaining = a + b + c + 1 /\ Remaining' = x + y + z + (IF done' THEN 0 ELSE 1)
      BY <2>1, <2>4, <2>5 DEF Remaining
    <2>7. CASE Grows
      <3>1. a \in Nat /\ x \in Nat /\ x <= a /\ (Reached # Reached' => x < a)
        BY <2>2, <2>3, <2>4, <2>5, <2>7, FewerRemain DEF Grows
      <3>2. b \in Nat /\ y \in Nat /\ y <= b /\ (Black # Black' => y < b)
        BY <2>2, <2>3, <2>4, <2>5, <2>7, FewerRemain DEF Grows
      <3>3. c \in Nat /\ z \in Nat /\ z <= c /\ (Looked # Looked' => z < c)
        BY <2>2, <2>3, <2>4, <2>5, <2>7, FewerRemain DEF Grows
      <3>4. x < a \/ y < b \/ z < c
        BY <2>7, <3>1, <3>2, <3>3 DEF Grows
      <3> QED
        BY <2>6, <3>1, <3>2, <3>3, <3>4
    <2>8. CASE done' /\ UNCHANGED <<edges, color, stack>>
      <3>1. Reached' = Reached /\ Black' = Black /\ Looked' = Looked
        BY <2>8 DEF Reached, Black, Looked, Depth
      <3>2. a \in Nat /\ b \in Nat /\ c \in Nat
        BY <2>2, <2>4, FewerRemain
      <3>3. x = a /\ y = b /\ z = c
        BY <2>4, <2>5, <3>1
      <3> QED
        BY <2>6, <2>8, <3>2, <3>3
    <2>9. ASSUME NEW n \in Node, PickRoot(n) \/ VisitWhite(n) \/ VisitBlack(n)
          PROVE  Grows
      BY <1>3, <2>9, PickRootGrows, VisitWhiteGrows, VisitBlackGrows
    <2>10. (\E n \in Node : VisitGray(n)) \/ Exhausted => done' /\ UNCHANGED <<edges, color, stack>>
      BY DEF VisitGray, Exhausted
    <2> QED
      BY <1>3, <2>7, <2>8, <2>9, <2>10, BacktrackGrows DEF SearchNext
  <1>4. SearchInv /\ SearchInv' /\ [SearchNext]_searchVars => [Remaining' < Remaining]_searchVars
    BY <1>3
  <1>5. SearchInv => Remaining \in Nat
    BY <1>2
  <1> QED
    BY <1>4, <1>5, SearchInvariant, PTL DEF SearchSpec

-----------------------------------------------------------------------------
(* The transactions: what holds between their statements.                  *)

\* Tables and calls of the right types.
Tables == [status : [Task -> TB!TaskStatus \cup {"absent"}], assignee : [Task -> Member \cup {NoOne}],
           deps : SUBSET (Task \X Task), resolved : SUBSET (Task \X Task)]

RowOps == {"claim", "reset", "approve"}
EndOps == {"complete", "cancel"}
EdgeOps == {"add", "add_edges"}

Statement ==
    [kind : {"row"}, task : Task, status : TB!TaskStatus, owner : Member \cup {NoOne}]
    \cup [kind : {"status"}, task : Task, status : TB!TaskStatus]
    \cup [kind : {"resolve", "refresh"}, task : Task]
    \cup [kind : {"edges"}, edges : SUBSET (Task \X Task), new : SUBSET Task]

CallRec == [op : RowOps \cup EndOps \cup EdgeOps, task : Task, todo : Seq(Statement),
            stale : BOOLEAN, ok : BOOLEAN]

DaoTypeOK ==
    /\ refusals \in BOOLEAN /\ db \in Tables /\ draft \in Tables
    /\ writer \in Member \cup {NoOne}
    /\ call \in [Member -> {Idle} \cup CallRec]

\* What every version of the tables keeps.
Sound(tables) ==
    /\ \A e \in tables.deps : tables.status[e[1]] # "absent" /\ tables.status[e[2]] # "absent"
    /\ Acyclic(Task, tables.deps)

\* What no transaction does to the tables, committed or not.
Respects(old, new) ==
    /\ \A t \in Task : old.status[t] \in TB!Terminal => new.status[t] = old.status[t]
    /\ \A t \in Task : old.status[t] \in TB!InProgress /\ new.status[t] \in TB!InProgress
                         => new.assignee[t] = old.assignee[t]
    /\ old.deps \subseteq new.deps /\ old.resolved \subseteq new.resolved

\* The tables of the writer; without one there is nothing uncommitted.
TablesSound ==
    /\ Sound(db) /\ Sound(draft) /\ Respects(db, draft)
    /\ writer = NoOne => draft = db

\* The writer is inside a call, with a snapshot that nothing has made stale.
WriterIsFresh ==
    writer # NoOne => Running(writer) /\ ~ call[writer].stale

\* The first statement of an operation on existing rows.
TargetOf(op) == IF op = "complete" THEN "completed" ELSE "cancelled"

RowOf(op, m, t) ==
    CASE op = "claim"   -> SetRow(t, "claimed", m)
      [] op = "reset"   -> SetRow(t, "pending", NoOne)
      [] op = "approve" -> SetStatus(t, "plan_approved")

\* What it found in the tables.
Permitted(m) ==
    LET c == call[m] IN
    /\ c.op = "claim"   => TB!IsValidTaskTransition(c.task, "claimed") /\ db.assignee[c.task] = NoOne
    /\ c.op = "reset"   => db.status[c.task] = "claimed"
    /\ c.op = "approve" => TB!IsValidTaskTransition(c.task, "plan_approved")
    /\ c.op \in EndOps  => TB!IsValidTaskTransition(c.task, TargetOf(c.op))

\* The first statement is still to come.
AtStart(m) ==
    LET c == call[m] IN
    \/ c.op \in RowOps /\ c.todo = <<RowOf(c.op, m, c.task)>>
    \/ c.op \in EndOps /\ c.todo = TerminateTask(c.task, TargetOf(c.op))

\* The todo list is what is left of the operation's statements.  What its SELECT
\* found still holds when the first of them may run.
TodoOK(m) ==
    LET c == call[m] t == c.task IN
    \/ c.op \in RowOps \cup EndOps /\ AtStart(m) /\ writer # m /\ (~ c.stale => Permitted(m))
    \/ c.op \in RowOps /\ c.todo = <<>>
    \/ c.op \in EndOps /\ c.todo \in {<<Resolve(t), Refresh(t)>>, <<Refresh(t)>>, <<>>}
    \/ c.op \in EdgeOps /\ c.todo = <<>>
    \/ /\ c.op = "add" /\ writer = m
       /\ \E D \in SUBSET Task : c.todo = <<AddEdges({t} \X D, {t})>> /\ Valid(draft, {t} \X D)
    \/ /\ c.op = "add_edges" /\ writer # m
       /\ \E D \in SUBSET Task :
            /\ c.todo = <<AddEdges({t} \X D, {})>>
            /\ ~ c.stale => D # {} /\ Valid(db, {t} \X D)

BaseInv ==
    /\ DaoTypeOK /\ TablesSound /\ WriterIsFresh
    /\ \A m \in Member : Running(m) => TodoOK(m)

\* The writer's tables are the committed ones after the statements it has executed.
WriterIsExact(m) ==
    LET c == call[m]
        t == c.task
        closed == Apply(db, SetStatus(t, TargetOf(c.op)))
        resolve == Apply(closed, Resolve(t))
        staged == [db EXCEPT !.status[t] = "pending"]
    IN  /\ c.ok
        /\ \/ c.op \in RowOps /\ Permitted(m) /\ c.todo = <<>> /\ draft = Apply(db, RowOf(c.op, m, t))
           \/ /\ c.op \in EndOps /\ Permitted(m)
              /\ \/ c.todo = <<Resolve(t), Refresh(t)>> /\ draft = closed
                 \/ c.todo = <<Refresh(t)>> /\ draft = resolve
                 \/ c.todo = <<>> /\ draft = Apply(resolve, Refresh(t))
           \/ /\ c.op = "add_edges" /\ c.todo = <<>> /\ draft # db
              /\ \E D \in SUBSET Task : /\ D # {} /\ Valid(db, {t} \X D)
                                        /\ draft = WithEdges(db, {t} \X D, {})
           \/ /\ c.op = "add" /\ db.status[t] = "absent"
              /\ \/ c.todo # <<>> /\ draft = staged
                 \/ /\ c.todo = <<>>
                    /\ \E D \in SUBSET Task : /\ Valid(staged, {t} \X D)
                                              /\ draft = WithEdges(staged, {t} \X D, {t})

\* Who is not the writer and has not seen a commit has executed nothing, or was
\* refused by a writer whose commit will make its snapshot stale.
OthersWait(m) ==
    call[m].op \in RowOps \cup EndOps =>
        Permitted(m) /\ (writer = NoOne => AtStart(m))

AtomicInv ==
    \A m \in Member : Running(m) =>
        /\ writer = m => WriterIsExact(m)
        /\ writer # m /\ ~ call[m].stale => OthersWait(m)

DaoInv == BaseInv /\ (~ refusals => AtomicInv)

-----------------------------------------------------------------------------
(* The statements, applied to tables.                                      *)

\* Lists of up to three statements.
LEMMA Lists ==
  ASSUME NEW a, NEW b, NEW c
  PROVE  /\ Head(<<a>>) = a /\ Tail(<<a>>) = <<>> /\ <<a>> # <<>>
         /\ Head(<<a, b>>) = a /\ Tail(<<a, b>>) = <<b>> /\ <<a, b>> # <<>>
         /\ Head(<<a, b, c>>) = a /\ Tail(<<a, b, c>>) = <<b, c>> /\ <<a, b, c>> # <<>>
  OBVIOUS

LEMMA Shorter ==
  ASSUME NEW a, NEW b, NEW c, NEW d, NEW e, NEW f
  PROVE  <<a>> # <<b, c>> /\ <<a>> # <<b, c, d>> /\ <<a, b>> # <<c, d, e>>
         /\ (<<a>> = <<b>> => a = b) /\ (<<a,b>> = <<c,d>> => a = c /\ b = d)
         /\ (<<a,b,c>> = <<d,e,f>> => a = d /\ b = e /\ c = f)
  <1>1. Len(<<a>>) = 1 /\ Len(<<b,c>>) = 2 /\ Len(<<b,c,d>>) = 3 /\ Len(<<a,b>>) = 2 /\ Len(<<c,d,e>>) = 3
    OBVIOUS
  <1> QED BY <1>1

LEMMA RowApply ==
  ASSUME NEW T \in Tables, NEW t \in Task, NEW st, NEW o
  PROVE  Apply(T, SetRow(t, st, o)) =
           [status |-> [T.status EXCEPT ![t] = st], assignee |-> [T.assignee EXCEPT ![t] = o],
            deps |-> T.deps, resolved |-> T.resolved]
  BY DEF Apply, SetRow, Tables

LEMMA StatusApply ==
  ASSUME NEW T \in Tables, NEW t \in Task, NEW st
  PROVE  Apply(T, SetStatus(t, st)) =
           [status |-> [T.status EXCEPT ![t] = st], assignee |-> T.assignee,
            deps |-> T.deps, resolved |-> T.resolved]
  BY DEF Apply, SetStatus, Tables

LEMMA ResolveApply ==
  ASSUME NEW T \in Tables, NEW t \in Task
  PROVE  Apply(T, Resolve(t)) =
           [status |-> T.status, assignee |-> T.assignee,
            deps |-> T.deps, resolved |-> T.resolved \cup {e \in T.deps : e[2] = t}]
  BY DEF Apply, Resolve, Tables

LEMMA RefreshApply ==
  ASSUME NEW T \in Tables, NEW t \in Task
  PROVE  Apply(T, Refresh(t)) =
           [status |-> TB!RefreshStatus(T.status, T.deps, T.resolved, Downstream(Task, T.deps, {t})),
            assignee |-> T.assignee, deps |-> T.deps, resolved |-> T.resolved]
  BY DEF Apply, Refresh, Refreshed, Tables

LEMMA EdgesRun ==
  ASSUME NEW T, NEW E, NEW new
  PROVE  Apply(T, AddEdges(E, new)) = WithEdges(T, E, new)
  BY DEF Apply, AddEdges

\* The edges of a mutation, and the statuses it refreshes.
LEMMA EdgeColumns ==
  ASSUME NEW T \in Tables, NEW d \in SUBSET (Task \X Task), NEW r \in SUBSET (Task \X Task)
  PROVE  [T EXCEPT !.deps = d, !.resolved = r] =
          [status |-> T.status, assignee |-> T.assignee, deps |-> d, resolved |-> r]
  <1>1. PICK U : U = [T EXCEPT !.deps = d]
    OBVIOUS
  <1>2. U = [status |-> T.status, assignee |-> T.assignee, deps |-> d, resolved |-> T.resolved]
    BY <1>1 DEF Tables
  <1>3. [T EXCEPT !.deps = d, !.resolved = r] = [U EXCEPT !.resolved = r]
    BY <1>1 DEF Tables
  <1> QED
    BY <1>2, <1>3

\* The new edges of a mutation whose upstream task has already ended.
Closed(T, E) == {e \in E \ T.deps : T.status[e[2]] \in TB!Terminal}

\* What the insertion of the edges E leaves in the tables T, column by column.
EdgesInserted(T, E, new, W) ==
    /\ W.assignee = T.assignee
    /\ W.deps = T.deps \cup (E \ T.deps)
    /\ W.resolved = T.resolved \cup Closed(T, E)
    /\ W.status = TB!RefreshStatus(T.status, W.deps, W.resolved, new \cup Sources(Task, E \ T.deps))
    /\ W = [status |-> W.status, assignee |-> W.assignee, deps |-> W.deps, resolved |-> W.resolved]

LEMMA EdgesApply ==
  ASSUME NEW T \in Tables, NEW E \in SUBSET (Task \X Task), NEW new
  PROVE  EdgesInserted(T, E, new, WithEdges(T, E, new))
  <1>1. PICK r, d, ids, W : /\ r = T.resolved \cup Closed(T, E)
                            /\ d = T.deps \cup (E \ T.deps) /\ ids = new \cup Sources(Task, E \ T.deps)
                            /\ W = WithEdges(T, E, new)
    OBVIOUS
  <1>2. d \in SUBSET (Task \X Task) /\ r \in SUBSET (Task \X Task)
    BY <1>1 DEF Tables, Closed
  <1>3. W = Refreshed([T EXCEPT !.deps = d, !.resolved = r], ids)
    BY <1>1, Zenon DEF WithEdges, Closed
  <1>4. [T EXCEPT !.deps = d, !.resolved = r]
          = [status |-> T.status, assignee |-> T.assignee, deps |-> d, resolved |-> r]
    BY <1>2, EdgeColumns
  <1>5. W = Refreshed([status |-> T.status, assignee |-> T.assignee, deps |-> d, resolved |-> r], ids)
    BY <1>3, <1>4, Zenon
  <1>6. W = [status |-> TB!RefreshStatus(T.status, d, r, ids),
             assignee |-> T.assignee, deps |-> d, resolved |-> r]
    BY <1>5 DEF Refreshed
  <1>7. /\ W.status = TB!RefreshStatus(T.status, d, r, ids)
        /\ W.assignee = T.assignee /\ W.deps = d /\ W.resolved = r
        /\ W = [status |-> W.status, assignee |-> W.assignee, deps |-> W.deps, resolved |-> W.resolved]
    BY <1>6
  <1>8. EdgesInserted(T, E, new, W)
    BY <1>1, <1>7, Zenon DEF EdgesInserted
  <1> QED
    BY <1>1, <1>8, Zenon

\* A refresh moves tasks between pending and blocked and does nothing else.
Quiet(old, new) ==
    /\ new.assignee = old.assignee
    /\ \A t \in Task : old.status[t] \notin TB!Waiting => new.status[t] = old.status[t]
    /\ \A t \in Task : old.status[t] \in TB!Waiting => new.status[t] \in TB!Waiting
    /\ old.deps \subseteq new.deps /\ old.resolved \subseteq new.resolved

LEMMA RefreshedIsQuiet ==
  ASSUME NEW st \in [Task -> TB!TaskStatus \cup {"absent"}], NEW d, NEW r, NEW ids,
         NEW new, new = TB!RefreshStatus(st, d, r, ids)
  PROVE  /\ new \in [Task -> TB!TaskStatus \cup {"absent"}]
         /\ \A t \in Task : st[t] \notin TB!Waiting => new[t] = st[t]
         /\ \A t \in Task : st[t] \in TB!Waiting => new[t] \in TB!Waiting
  BY DEF TB!RefreshStatus, TB!Waiting, TB!TaskStatus

LEMMA QuietKeepsSound ==
  ASSUME NEW T \in Tables, NEW U \in Tables, Quiet(T, U), Sound(T), U.deps = T.deps
  PROVE  Sound(U)
  <1>1. \A t \in Task : T.status[t] # "absent" => U.status[t] # "absent"
    BY DEF Quiet, TB!Waiting
  <1>2. \A e \in T.deps : e[1] \in Task /\ e[2] \in Task
    BY DEF Tables
  <1> QED
    BY <1>1, <1>2 DEF Sound

LEMMA QuietKeepsRespect ==
  ASSUME NEW S \in Tables, NEW T \in Tables, NEW U \in Tables, Respects(S, T), Quiet(T, U)
  PROVE  Respects(S, U)
  <1>1. \A t \in Task : S.status[t] \in TB!Terminal => U.status[t] = S.status[t]
    BY DEF Respects, Quiet, TB!Waiting, TB!Terminal
  <1>2. ASSUME NEW t \in Task, S.status[t] \in TB!InProgress, U.status[t] \in TB!InProgress
        PROVE  U.assignee[t] = S.assignee[t]
    <2>1. T.status[t] \in TB!InProgress
      BY <1>2 DEF Quiet, TB!Waiting, TB!InProgress
    <2> QED
      BY <1>2, <2>1 DEF Respects, Quiet
  <1>3. S.deps \subseteq U.deps /\ S.resolved \subseteq U.resolved
    BY DEF Respects, Quiet
  <1> QED
    BY <1>1, <1>2, <1>3 DEF Respects

LEMMA RespectsItself ==
  ASSUME NEW T \in Tables
  PROVE  Respects(T, T)
  BY DEF Respects

\* The second and the third statement of an end.
LEMMA ResolveIsQuiet ==
  ASSUME NEW T \in Tables, NEW t \in Task
  PROVE  /\ Apply(T, Resolve(t)) \in Tables /\ Quiet(T, Apply(T, Resolve(t)))
         /\ Sound(T) => Sound(Apply(T, Resolve(t)))
  <1> DEFINE U == Apply(T, Resolve(t))
  <1>1. /\ U \in Tables /\ U.deps = T.deps /\ U.status = T.status
        /\ U.assignee = T.assignee /\ T.resolved \subseteq U.resolved
    BY ResolveApply DEF Tables
  <1> HIDE DEF U
  <1>2. Quiet(T, U)
    BY <1>1 DEF Quiet
  <1> QED
    BY <1>1, <1>2, QuietKeepsSound DEF U

LEMMA RefreshIsQuiet ==
  ASSUME NEW T \in Tables, NEW t \in Task
  PROVE  /\ Apply(T, Refresh(t)) \in Tables /\ Quiet(T, Apply(T, Refresh(t)))
         /\ Sound(T) => Sound(Apply(T, Refresh(t)))
  <1> DEFINE U == Apply(T, Refresh(t))
             new == TB!RefreshStatus(T.status, T.deps, T.resolved, Downstream(Task, T.deps, {t}))
  <1>1. U = [status |-> new, assignee |-> T.assignee, deps |-> T.deps, resolved |-> T.resolved]
    BY RefreshApply
  <1>2. /\ new \in [Task -> TB!TaskStatus \cup {"absent"}]
        /\ \A x \in Task : T.status[x] \notin TB!Waiting => new[x] = T.status[x]
        /\ \A x \in Task : T.status[x] \in TB!Waiting => new[x] \in TB!Waiting
    BY RefreshedIsQuiet DEF Tables
  <1> HIDE DEF U, new
  <1>3. U \in Tables /\ U.deps = T.deps
    BY <1>1, <1>2 DEF Tables
  <1>4. Quiet(T, U)
    BY <1>1, <1>2 DEF Quiet
  <1> QED
    BY <1>3, <1>4, QuietKeepsSound DEF U

\* The edges of a mutation, as its validation accepted them.
LEMMA EdgesAreQuiet ==
  ASSUME NEW T \in Tables, NEW E \in SUBSET (Task \X Task), NEW new \in SUBSET Task,
         Sound(T), Valid(T, E)
  PROVE  /\ Apply(T, AddEdges(E, new)) \in Tables /\ Quiet(T, Apply(T, AddEdges(E, new)))
         /\ Sound(Apply(T, AddEdges(E, new)))
  <1> DEFINE U == Apply(T, AddEdges(E, new))
  <1>1. U = WithEdges(T, E, new)
    BY EdgesRun
  <1> HIDE DEF U
  <1>2. /\ U.assignee = T.assignee /\ U.deps = T.deps \cup E
        /\ U.resolved = T.resolved \cup Closed(T, E)
        /\ U.status = TB!RefreshStatus(T.status, U.deps, U.resolved, new \cup Sources(Task, E \ T.deps))
        /\ U = [status |-> U.status, assignee |-> U.assignee, deps |-> U.deps, resolved |-> U.resolved]
    <2>1. EdgesInserted(T, E, new, U)
      BY <1>1, EdgesApply, Zenon
    <2>2. T.deps \cup (E \ T.deps) = T.deps \cup E
      OBVIOUS
    <2> QED
      BY <2>1, <2>2, Zenon DEF EdgesInserted
  <1>3. /\ U.status \in [Task -> TB!TaskStatus \cup {"absent"}]
        /\ \A x \in Task : T.status[x] \notin TB!Waiting => U.status[x] = T.status[x]
        /\ \A x \in Task : T.status[x] \in TB!Waiting => U.status[x] \in TB!Waiting
    BY <1>2, RefreshedIsQuiet DEF Tables
  <1>4. U \in Tables
    <2>1. U.deps \in SUBSET (Task \X Task) /\ U.resolved \in SUBSET (Task \X Task)
          /\ U.assignee \in [Task -> Member \cup {NoOne}]
      BY <1>2 DEF Tables, Closed
    <2> QED
      BY <1>2, <1>3, <2>1 DEF Tables
  <1>5. Quiet(T, U)
    BY <1>2, <1>3 DEF Quiet
  <1>6. Acyclic(Task, U.deps)
    BY <1>2 DEF Valid
  <1>7. ASSUME NEW e \in U.deps PROVE U.status[e[1]] # "absent" /\ U.status[e[2]] # "absent"
    <2>1. e[1] \in Task /\ e[2] \in Task
      BY <1>2 DEF Tables
    <2>2. T.status[e[1]] # "absent" /\ T.status[e[2]] # "absent"
      BY <1>2 DEF Sound, Valid, TB!Waiting
    <2> QED
      BY <1>3, <2>1, <2>2 DEF TB!Waiting
  <1>8. Sound(U)
    BY <1>6, <1>7 DEF Sound
  <1> QED
    BY <1>4, <1>5, <1>8 DEF U

\* Overwriting the status of a task by another that a row can have.
LEMMA StatusKeepsSound ==
  ASSUME NEW T \in Tables, NEW U \in Tables, Sound(T), U.deps = T.deps,
         NEW t \in Task, NEW st \in TB!TaskStatus, U.status = [T.status EXCEPT ![t] = st]
  PROVE  Sound(U)
  <1>1. \A x \in Task : T.status[x] # "absent" => U.status[x] # "absent"
    BY DEF Tables, TB!TaskStatus
  <1>2. \A e \in T.deps : e[1] \in Task /\ e[2] \in Task
    BY DEF Tables
  <1> QED
    BY <1>1, <1>2 DEF Sound

\* The first statement of a claim, a reset or an approval that was permitted.
LEMMA RowStatement ==
  ASSUME db \in Tables, Sound(db), NEW m \in Member, call[m] \in CallRec,
         call[m].op \in RowOps, Permitted(m)
  PROVE  LET U == Apply(db, RowOf(call[m].op, m, call[m].task)) IN
         U \in Tables /\ Sound(U) /\ Respects(db, U) /\ U # db
  <1> DEFINE t == call[m].task
             U == Apply(db, RowOf(call[m].op, m, t))
  <1>0. t \in Task /\ db.status \in [Task -> TB!TaskStatus \cup {"absent"}]
        /\ db.assignee \in [Task -> Member \cup {NoOne}]
    BY DEF CallRec, Tables
  <1>1. PICK st \in TB!TaskStatus, o \in Member \cup {NoOne} :
          /\ U = [status |-> [db.status EXCEPT ![t] = st], assignee |-> [db.assignee EXCEPT ![t] = o],
                  deps |-> db.deps, resolved |-> db.resolved]
          /\ st # db.status[t] /\ db.status[t] \notin TB!Terminal
          /\ db.status[t] \in TB!InProgress /\ st \in TB!InProgress => o = db.assignee[t]
    <2>1. CASE call[m].op = "claim"
      <3>1. U = [status |-> [db.status EXCEPT ![t] = "claimed"], assignee |-> [db.assignee EXCEPT ![t] = m],
                 deps |-> db.deps, resolved |-> db.resolved]
        BY <1>0, <2>1, RowApply DEF RowOf
      <3>2. db.status[t] = "pending"
        BY <1>0, <2>1 DEF Permitted, TB!IsValidTaskTransition, TB!Exists, TB!TaskTransitions, TB!TaskStatus
      <3> QED
        BY <3>1, <3>2 DEF TB!TaskStatus, TB!Terminal, TB!InProgress
    <2>2. CASE call[m].op = "reset"
      <3>1. U = [status |-> [db.status EXCEPT ![t] = "pending"], assignee |-> [db.assignee EXCEPT ![t] = NoOne],
                 deps |-> db.deps, resolved |-> db.resolved]
        BY <1>0, <2>2, RowApply DEF RowOf
      <3>2. db.status[t] = "claimed"
        BY <2>2 DEF Permitted
      <3> QED
        BY <3>1, <3>2 DEF TB!TaskStatus, TB!Terminal, TB!InProgress
    <2>3. CASE call[m].op = "approve"
      <3>1. U = [status |-> [db.status EXCEPT ![t] = "plan_approved"], assignee |-> db.assignee,
                 deps |-> db.deps, resolved |-> db.resolved]
        BY <1>0, <2>3, StatusApply DEF RowOf
      <3>2. db.status[t] = "claimed"
        BY <1>0, <2>3 DEF Permitted, TB!IsValidTaskTransition, TB!Exists, TB!TaskTransitions, TB!TaskStatus
      <3>3. db.assignee = [db.assignee EXCEPT ![t] = db.assignee[t]]
        BY <1>0
      <3> QED
        BY <1>0, <3>1, <3>2, <3>3 DEF TB!TaskStatus, TB!Terminal, TB!InProgress
    <2> QED
      BY <2>1, <2>2, <2>3 DEF RowOps
  <1> HIDE DEF U, t
  <1>2. U \in Tables
    BY <1>0, <1>1 DEF Tables
  <1>3. Sound(U)
    <2>1. U.deps = db.deps /\ U.status = [db.status EXCEPT ![t] = st]
      BY <1>1
    <2> QED
      BY <1>0, <1>2, <2>1, StatusKeepsSound
  <1>4. Respects(db, U)
    BY <1>0, <1>1 DEF Respects
  <1>5. U # db
    <2>1. U.status[t] = st
      BY <1>0, <1>1
    <2> QED
      BY <1>1, <2>1
  <1> QED
    BY <1>2, <1>3, <1>4, <1>5 DEF U, t

\* The first statement of a completion or cancellation that was permitted.
LEMMA EndStatement ==
  ASSUME db \in Tables, Sound(db), NEW m \in Member, call[m] \in CallRec,
         call[m].op \in EndOps, Permitted(m)
  PROVE  LET U == Apply(db, SetStatus(call[m].task, TargetOf(call[m].op))) IN
         U \in Tables /\ Sound(U) /\ Respects(db, U)
         /\ U.status[call[m].task] \in TB!Terminal /\ db.status[call[m].task] \notin TB!Terminal
  <1> DEFINE t == call[m].task
             st == TargetOf(call[m].op)
             U == Apply(db, SetStatus(t, st))
  <1>0. t \in Task /\ db.status \in [Task -> TB!TaskStatus \cup {"absent"}]
        /\ db.assignee \in [Task -> Member \cup {NoOne}]
    BY DEF CallRec, Tables
  <1>1. U = [status |-> [db.status EXCEPT ![t] = st], assignee |-> db.assignee,
             deps |-> db.deps, resolved |-> db.resolved]
    BY <1>0, StatusApply
  <1>2. st \in TB!Terminal /\ st \in TB!TaskStatus
    BY DEF TargetOf, TB!Terminal, TB!TaskStatus
  <1>3. db.status[t] \notin TB!Terminal
    BY <1>0, <1>2 DEF Permitted, RowOps, EndOps, TB!IsValidTaskTransition, TB!Exists, TB!TaskTransitions,
       TB!TaskStatus, TB!Terminal
  <1> HIDE DEF U, t, st
  <1>4. U \in Tables
    BY <1>0, <1>1, <1>2 DEF Tables
  <1>5. Sound(U)
    <2>1. U.deps = db.deps /\ U.status = [db.status EXCEPT ![t] = st]
      BY <1>1
    <2> QED
      BY <1>0, <1>2, <1>4, <2>1, StatusKeepsSound
  <1>6. Respects(db, U)
    BY <1>0, <1>1, <1>3, <1>2 DEF Respects, TB!InProgress, TB!Terminal
  <1>7. U.status[t] = st
    BY <1>0, <1>1
  <1> QED
    BY <1>2, <1>3, <1>4, <1>5, <1>6, <1>7 DEF U, t, st

\* The row of a new task.
LEMMA NewRow ==
  ASSUME NEW T \in Tables, Sound(T), NEW t \in Task, T.status[t] = "absent"
  PROVE  LET U == [T EXCEPT !.status[t] = "pending"] IN
         /\ U = [status |-> [T.status EXCEPT ![t] = "pending"], assignee |-> T.assignee,
                 deps |-> T.deps, resolved |-> T.resolved]
         /\ U \in Tables /\ Sound(U) /\ Respects(T, U) /\ U # T
  <1> DEFINE U == [T EXCEPT !.status[t] = "pending"]
  <1>1. U = [status |-> [T.status EXCEPT ![t] = "pending"], assignee |-> T.assignee,
             deps |-> T.deps, resolved |-> T.resolved]
    BY DEF Tables
  <1> HIDE DEF U
  <1>2. U \in Tables
    BY <1>1 DEF Tables, TB!TaskStatus
  <1>3. Sound(U)
    <2>1. U.deps = T.deps /\ U.status = [T.status EXCEPT ![t] = "pending"] /\ "pending" \in TB!TaskStatus
      BY <1>1 DEF TB!TaskStatus
    <2> QED
      BY <1>2, <2>1, StatusKeepsSound
  <1>4. Respects(T, U)
    BY <1>1 DEF Respects, Tables, TB!Terminal, TB!InProgress
  <1>5. U # T
    <2>1. U.status[t] = "pending"
      BY <1>1 DEF Tables
    <2> QED
      BY <2>1
  <1> QED
    BY <1>1, <1>2, <1>3, <1>4, <1>5 DEF U

-----------------------------------------------------------------------------
(* The calls.                                                              *)

LEMMA StatementTypes ==
  ASSUME NEW t \in Task, NEW m \in Member
  PROVE  /\ \A op \in RowOps : RowOf(op, m, t) \in Statement
         /\ \A op \in EndOps : TerminateTask(t, TargetOf(op)) \in Seq(Statement)
         /\ \A E \in SUBSET (Task \X Task), new \in SUBSET Task : AddEdges(E, new) \in Statement
  <1>1. ASSUME NEW op \in RowOps PROVE RowOf(op, m, t) \in Statement
    <2>1. CASE op = "claim"
      BY <2>1 DEF RowOf, SetRow, Statement, TB!TaskStatus
    <2>2. CASE op = "reset"
      BY <2>2 DEF RowOf, SetRow, Statement, TB!TaskStatus
    <2>3. CASE op = "approve"
      BY <2>3 DEF RowOf, SetStatus, Statement, TB!TaskStatus
    <2> QED
      BY <1>1, <2>1, <2>2, <2>3 DEF RowOps
  <1>2. ASSUME NEW op \in EndOps PROVE TerminateTask(t, TargetOf(op)) \in Seq(Statement)
    <2>1. SetStatus(t, TargetOf(op)) \in Statement
      BY DEF TargetOf, SetStatus, Statement, TB!TaskStatus
    <2>2. Resolve(t) \in Statement /\ Refresh(t) \in Statement
      BY DEF Resolve, Refresh, Statement
    <2> QED
      BY <2>1, <2>2 DEF TerminateTask
  <1>3. ASSUME NEW E \in SUBSET (Task \X Task), NEW new \in SUBSET Task
        PROVE  AddEdges(E, new) \in Statement
    BY DEF AddEdges, Statement
  <1> QED
    BY <1>1, <1>2, <1>3

LEMMA RunningCalls ==
  ASSUME DaoTypeOK, NEW m \in Member
  PROVE  Running(m) <=> call[m] \in CallRec
  BY DEF DaoTypeOK, Running, Idle, CallRec, RowOps, EndOps, EdgeOps

\* What a step of another member leaves of a call.
LEMMA CallStays ==
  ASSUME NEW n \in Member, TodoOK(n), call'[n] = call[n], db' = db,
         writer = n => writer' = n /\ draft' = draft, writer # n => writer' # n
  PROVE  TodoOK(n)'
  <1>1. AtStart(n)' <=> AtStart(n)
    BY DEF AtStart
  <1>2. Permitted(n)' <=> Permitted(n)
    BY DEF Permitted, TB!IsValidTaskTransition, TB!Exists
  <1>3. ASSUME NEW E PROVE Valid(db, E)' <=> Valid(db, E)
    BY DEF Valid
  <1>4. ASSUME NEW E, writer = n PROVE Valid(draft, E)' <=> Valid(draft, E)
    BY <1>4 DEF Valid
  <1> QED
    BY <1>1, <1>2, <1>3, <1>4, Zenon DEF TodoOK

\* A commit of another member ends what a call may assume of the tables.
LEMMA CallGoesStale ==
  ASSUME NEW n \in Member, TodoOK(n), call[n] \in CallRec, writer # n, writer' # n,
         call'[n] = [call[n] EXCEPT !.stale = TRUE]
  PROVE  TodoOK(n)'
  <1>1. /\ call'[n].op = call[n].op /\ call'[n].task = call[n].task
        /\ call'[n].todo = call[n].todo /\ call'[n].stale
    BY DEF CallRec
  <1>2. AtStart(n)' <=> AtStart(n)
    BY <1>1 DEF AtStart
  <1> QED
    BY <1>1, <1>2 DEF TodoOK

\* One statement done.
LEMMA DoneMoves ==
  ASSUME DaoTypeOK, NEW m \in Member, Running(m), NEW ok \in BOOLEAN, Done(m, ok),
         call[m].todo # <<>>
  PROVE  /\ call' \in [Member -> {Idle} \cup CallRec]
         /\ \A n \in Member : n # m => call'[n] = call[n]
         /\ call'[m] \in CallRec
         /\ call'[m] = [op |-> call[m].op, task |-> call[m].task, todo |-> Tail(call[m].todo),
                        stale |-> call[m].stale, ok |-> ok]
  <1>0. call \in [Member -> {Idle} \cup CallRec] /\ call[m] \in CallRec
    BY RunningCalls DEF DaoTypeOK
  <1>1. PICK c : c = call[m]
    OBVIOUS
  <1>2. PICK new : new = [c EXCEPT !.todo = Tail(c.todo), !.ok = ok]
    OBVIOUS
  <1>3. call' = [call EXCEPT ![m] = new]
    BY <1>1, <1>2, Zenon DEF Done
  <1>4. Tail(c.todo) \in Seq(Statement)
    BY <1>0, <1>1, HeadTailProperties DEF CallRec
  <1>5. new \in CallRec
    BY <1>0, <1>1, <1>2, <1>4 DEF CallRec
  <1>6. new = [op |-> c.op, task |-> c.task, todo |-> Tail(c.todo), stale |-> c.stale, ok |-> ok]
    BY <1>0, <1>1, <1>2, <1>4 DEF CallRec
  <1> QED
    BY <1>0, <1>1, <1>3, <1>5, <1>6

\* The writer's tables are what a granted statement is applied to.
LEMMA ExecuteCases ==
  ASSUME BaseInv, NEW m \in Member, Running(m), NEW s, Execute(m, s)
  PROVE  \/ UNCHANGED <<writer, draft>> /\ ~ (Writes(m, s) /\ Granted(m))
         \/ /\ Granted(m) /\ Writes(m, s) /\ View(m) = draft
            /\ writer' = m /\ draft' = Apply(draft, s) /\ ~ call[m].stale
            /\ writer # m => writer = NoOne /\ draft = db
  <1>1. CASE Writes(m, s) /\ Granted(m)
    <2>1. writer' = m /\ draft' = Apply(View(m), s)
      BY <1>1 DEF Execute
    <2>2. View(m) = draft /\ ~ call[m].stale /\ (writer # m => writer = NoOne /\ draft = db)
      BY <1>1, NobodyAssumption DEF BaseInv, WriterIsFresh, TablesSound, Granted, View
    <2> QED
      BY <1>1, <2>1, <2>2
  <1>2. CASE ~ (Writes(m, s) /\ Granted(m))
    BY <1>2 DEF Execute
  <1> QED
    BY <1>1, <1>2

\* A statement of m keeps the invariant when its tables and its own call do.
LEMMA ExecuteKeeps ==
  ASSUME BaseInv, NEW m \in Member, Running(m), call[m].todo # <<>>, NEW s, Execute(m, s),
         NEW ok \in BOOLEAN, Done(m, ok), UNCHANGED <<refusals, db>>,
         draft' \in Tables, Sound(draft'), Respects(db, draft'), TodoOK(m)'
  PROVE  BaseInv'
  <1>1. /\ call' \in [Member -> {Idle} \cup CallRec]
        /\ \A n \in Member : n # m => call'[n] = call[n]
        /\ call'[m] \in CallRec
        /\ call'[m] = [op |-> call[m].op, task |-> call[m].task, todo |-> Tail(call[m].todo),
                       stale |-> call[m].stale, ok |-> ok]
    BY DoneMoves DEF BaseInv
  <1>2. \/ UNCHANGED <<writer, draft>>
        \/ writer' = m /\ ~ call[m].stale /\ (writer # m => writer = NoOne)
    BY ExecuteCases
  <1>3. DaoTypeOK'
    BY <1>1, <1>2 DEF BaseInv, DaoTypeOK
  <1>4. TablesSound'
    <2>1. Sound(db)' /\ Sound(draft)'
      BY DEF BaseInv, TablesSound, Sound
    <2>2. Respects(db, draft)'
      BY DEF Respects
    <2>3. writer' = NoOne => UNCHANGED <<writer, draft>>
      BY <1>2, NobodyAssumption
    <2> QED
      BY <2>1, <2>2, <2>3 DEF BaseInv, TablesSound
  <1>5. Running(m)' /\ ~ (call'[m].stale /\ writer' = m)
    <2>1. call'[m].op = call[m].op /\ call'[m].stale = call[m].stale
      BY <1>1
    <2>2. writer = m => ~ call[m].stale
      BY NobodyAssumption DEF BaseInv, WriterIsFresh
    <2> QED
      BY <1>2, <2>1, <2>2 DEF Running
  <1>6. WriterIsFresh'
    <2>1. CASE writer' = m
      BY <1>5, <2>1 DEF WriterIsFresh
    <2>2. CASE writer' # m
      <3>1. writer' = writer
        BY <1>2, <2>2
      <3>2. writer # NoOne => writer \in Member /\ call'[writer] = call[writer]
        BY <1>1, <2>2, <3>1 DEF BaseInv, DaoTypeOK
      <3> QED
        BY <3>1, <3>2 DEF BaseInv, WriterIsFresh, Running
    <2> QED
      BY <2>1, <2>2
  <1>7. ASSUME NEW n \in Member, n # m, Running(n)' PROVE TodoOK(n)'
    <2>1. Running(n)
      BY <1>1, <1>7 DEF Running
    <2>2. writer = n => writer' = n /\ draft' = draft
      BY <1>2, <1>7, NobodyAssumption
    <2>3. writer # n => writer' # n
      BY <1>2, <1>7
    <2>4. TodoOK(n) /\ call'[n] = call[n]
      BY <1>1, <1>7, <2>1 DEF BaseInv
    <2> QED
      BY <2>2, <2>3, <2>4, CallStays
  <1> QED
    BY <1>3, <1>4, <1>6, <1>7 DEF BaseInv

\* The statement that is next.
LEMMA NextUnchecked ==
  ASSUME BaseInv, NEW m \in Member, Running(m), call[m].todo # <<>>,
         NEW s, s = Head(call[m].todo), s.kind # "edges"
  PROVE  LET op == call[m].op t == call[m].task rest == Tail(call[m].todo) IN
         \/ /\ op \in RowOps /\ s = RowOf(op, m, t) /\ rest = <<>> /\ Writes(m, s)
            /\ AtStart(m) /\ writer # m /\ (~ call[m].stale => Permitted(m))
         \/ /\ op \in EndOps /\ s = SetStatus(t, TargetOf(op)) /\ rest = <<Resolve(t), Refresh(t)>>
            /\ AtStart(m) /\ writer # m /\ (~ call[m].stale => Permitted(m)) /\ Writes(m, s)
         \/ /\ op \in EndOps /\ s = Resolve(t) /\ rest = <<Refresh(t)>> /\ Writes(m, s)
            /\ call[m].todo = <<Resolve(t), Refresh(t)>>
         \/ /\ op \in EndOps /\ s = Refresh(t) /\ rest = <<>>
            /\ call[m].todo = <<Refresh(t)>>
  <1> DEFINE op == call[m].op
             t == call[m].task
  <1>1. TodoOK(m)
    BY DEF BaseInv
  <1>2. CASE op \in RowOps /\ AtStart(m) /\ writer # m /\ (~ call[m].stale => Permitted(m))
    <2>1. call[m].todo = <<RowOf(op, m, t)>>
      BY <1>2 DEF AtStart, RowOps, EndOps
    <2>2. s = RowOf(op, m, t) /\ Tail(call[m].todo) = <<>>
      BY <2>1, Lists
    <2>3. RowOf(op, m, t).kind \in {"row", "status"}
      <3>1. CASE op = "claim"
        BY <3>1 DEF RowOf, SetRow
      <3>2. CASE op = "reset"
        BY <3>2 DEF RowOf, SetRow
      <3>3. CASE op = "approve"
        BY <3>3 DEF RowOf, SetStatus
      <3> QED
        BY <1>2, <3>1, <3>2, <3>3 DEF RowOps
    <2>4. Writes(m, s)
      BY <2>2, <2>3 DEF Writes
    <2> QED
      BY <1>2, <2>2, <2>4
  <1>3. CASE op \in EndOps /\ AtStart(m) /\ writer # m /\ (~ call[m].stale => Permitted(m))
    <2>1. call[m].todo = TerminateTask(t, TargetOf(op))
      BY <1>3 DEF AtStart, RowOps, EndOps
    <2>2. s = SetStatus(t, TargetOf(op)) /\ Tail(call[m].todo) = <<Resolve(t), Refresh(t)>>
      BY <2>1, Lists DEF TerminateTask
    <2>3. Writes(m, s)
      BY <2>2 DEF Writes, SetStatus
    <2> QED
      BY <1>3, <2>2, <2>3
  <1>4. CASE op \in EndOps /\ call[m].todo = <<Resolve(t), Refresh(t)>>
    <2>1. s = Resolve(t) /\ Tail(call[m].todo) = <<Refresh(t)>>
      BY <1>4, Lists
    <2>2. Writes(m, s)
      BY <2>1 DEF Writes, Resolve
    <2> QED
      BY <1>4, <2>1, <2>2
  <1>5. CASE op \in EndOps /\ call[m].todo = <<Refresh(t)>>
    <2>1. s = Refresh(t) /\ Tail(call[m].todo) = <<>>
      BY <1>5, Lists
    <2> QED
      BY <1>5, <2>1
  <1>6. ASSUME NEW E, NEW new, call[m].todo = <<AddEdges(E, new)>> PROVE FALSE
    <2>1. s = AddEdges(E, new)
      BY <1>6, Lists
    <2> QED
      BY <2>1 DEF AddEdges
  <1> QED
    BY <1>1, <1>2, <1>3, <1>4, <1>5, <1>6 DEF TodoOK

LEMMA UncheckedBase ==
  ASSUME BaseInv, NEW m \in Member, ExecuteUnchecked(m)
  PROVE  BaseInv'
  <1> DEFINE op == call[m].op
             t == call[m].task
             s == Head(call[m].todo)
  <1>1. /\ Running(m) /\ call[m].todo # <<>> /\ s.kind # "edges" /\ Execute(m, s)
        /\ Done(m, TRUE) /\ UNCHANGED <<refusals, db>>
    BY DEF ExecuteUnchecked
  <1>2. call[m] \in CallRec /\ t \in Task /\ op \in RowOps \cup EndOps \cup EdgeOps
    BY <1>1, RunningCalls DEF BaseInv, CallRec
  <1>3. call'[m] = [op |-> op, task |-> t, todo |-> Tail(call[m].todo), stale |-> call[m].stale, ok |-> TRUE]
    BY <1>1, DoneMoves DEF BaseInv
  <1>4. \/ /\ op \in RowOps /\ s = RowOf(op, m, t) /\ Tail(call[m].todo) = <<>>
           /\ writer # m /\ (~ call[m].stale => Permitted(m))
        \/ /\ op \in EndOps /\ s = SetStatus(t, TargetOf(op)) /\ Tail(call[m].todo) = <<Resolve(t), Refresh(t)>>
           /\ writer # m /\ (~ call[m].stale => Permitted(m))
        \/ op \in EndOps /\ s = Resolve(t) /\ Tail(call[m].todo) = <<Refresh(t)>>
        \/ op \in EndOps /\ s = Refresh(t) /\ Tail(call[m].todo) = <<>>
    BY <1>1, NextUnchecked
  <1>5. TodoOK(m)'
    <2>1. call'[m].op = op /\ call'[m].task = t /\ call'[m].todo = Tail(call[m].todo)
      BY <1>3
    <2> QED
      BY <1>4, <2>1 DEF TodoOK
  <1>6. \/ UNCHANGED <<writer, draft>>
        \/ draft' = Apply(draft, s) /\ ~ call[m].stale /\ (writer # m => writer = NoOne /\ draft = db)
    BY <1>1, ExecuteCases
  <1>7. draft' \in Tables /\ Sound(draft') /\ Respects(db, draft')
    <2>0. db \in Tables /\ draft \in Tables /\ Sound(db) /\ Sound(draft) /\ Respects(db, draft)
      BY DEF BaseInv, DaoTypeOK, TablesSound
    <2>1. CASE UNCHANGED <<writer, draft>>
      BY <2>0, <2>1
    <2>2. CASE draft' = Apply(draft, s) /\ ~ call[m].stale /\ (writer # m => writer = NoOne /\ draft = db)
      <3>1. CASE op \in RowOps /\ s = RowOf(op, m, t) /\ writer # m /\ (~ call[m].stale => Permitted(m))
        BY <1>2, <2>0, <2>2, <3>1, RowStatement
      <3>2. CASE op \in EndOps /\ s = SetStatus(t, TargetOf(op)) /\ writer # m /\ (~ call[m].stale => Permitted(m))
        BY <1>2, <2>0, <2>2, <3>2, EndStatement
      <3>3. CASE s = Resolve(t)
        BY <1>2, <2>0, <2>2, <3>3, ResolveIsQuiet, QuietKeepsRespect
      <3>4. CASE s = Refresh(t)
        BY <1>2, <2>0, <2>2, <3>4, RefreshIsQuiet, QuietKeepsRespect
      <3> QED
        BY <1>4, <3>1, <3>2, <3>3, <3>4
    <2> QED
      BY <1>6, <2>1, <2>2
  <1> QED
    BY <1>1, <1>5, <1>7, ExecuteKeeps

LEMMA NextChecked ==
  ASSUME BaseInv, NEW m \in Member, Running(m), call[m].todo # <<>>,
         NEW s, s = Head(call[m].todo), s.kind = "edges"
  PROVE  LET op == call[m].op t == call[m].task IN
         /\ op \in EdgeOps /\ Tail(call[m].todo) = <<>>
         /\ \E D \in SUBSET Task :
              \/ /\ op = "add" /\ writer = m
                 /\ s = AddEdges({t} \X D, {t}) /\ Valid(draft, {t} \X D)
              \/ /\ op = "add_edges" /\ writer # m
                 /\ s = AddEdges({t} \X D, {}) /\ (~ call[m].stale => D # {} /\ Valid(db, {t} \X D))
  <1> DEFINE op == call[m].op
             t == call[m].task
  <1>1. TodoOK(m)
    BY DEF BaseInv
  <1>2. ~ AtStart(m)
    <2>1. ASSUME op \in RowOps, call[m].todo = <<RowOf(op, m, t)>> PROVE FALSE
      <3>1. s = RowOf(op, m, t)
        BY <2>1, Lists
      <3>2. CASE op = "claim"
        BY <3>1, <3>2 DEF RowOf, SetRow
      <3>3. CASE op = "reset"
        BY <3>1, <3>3 DEF RowOf, SetRow
      <3>4. CASE op = "approve"
        BY <3>1, <3>4 DEF RowOf, SetStatus
      <3> QED
        BY <2>1, <3>2, <3>3, <3>4 DEF RowOps
    <2>2. ASSUME call[m].todo = TerminateTask(t, TargetOf(op)) PROVE FALSE
      <3>1. s = SetStatus(t, TargetOf(op))
        BY <2>2, Lists DEF TerminateTask
      <3> QED
        BY <3>1 DEF SetStatus
    <2> QED
      BY <2>1, <2>2 DEF AtStart
  <1>3. call[m].todo \notin {<<Resolve(t), Refresh(t)>>, <<Refresh(t)>>}
    <2>1. ASSUME call[m].todo = <<Resolve(t), Refresh(t)>> PROVE FALSE
      <3>1. s = Resolve(t)
        BY <2>1, Lists
      <3> QED
        BY <3>1 DEF Resolve
    <2>2. ASSUME call[m].todo = <<Refresh(t)>> PROVE FALSE
      <3>1. s = Refresh(t)
        BY <2>2, Lists
      <3> QED
        BY <3>1 DEF Refresh
    <2> QED
      BY <2>1, <2>2
  <1>4. PICK D \in SUBSET Task :
          \/ /\ op = "add" /\ writer = m
             /\ call[m].todo = <<AddEdges({t} \X D, {t})>> /\ Valid(draft, {t} \X D)
          \/ /\ op = "add_edges" /\ writer # m
             /\ call[m].todo = <<AddEdges({t} \X D, {})>>
             /\ ~ call[m].stale => D # {} /\ Valid(db, {t} \X D)
    <2>1. \/ /\ op = "add" /\ writer = m
             /\ \E D \in SUBSET Task : call[m].todo = <<AddEdges({t} \X D, {t})>> /\ Valid(draft, {t} \X D)
          \/ /\ op = "add_edges" /\ writer # m
             /\ \E D \in SUBSET Task :
                  /\ call[m].todo = <<AddEdges({t} \X D, {})>>
                  /\ ~ call[m].stale => D # {} /\ Valid(db, {t} \X D)
      BY <1>1, <1>2, <1>3, Zenon DEF TodoOK
    <2> QED
      BY <2>1, Zenon
  <1>5. ASSUME NEW E, NEW new, call[m].todo = <<AddEdges(E, new)>>
        PROVE  s = AddEdges(E, new) /\ Tail(call[m].todo) = <<>>
    BY <1>5, Lists
  <1>6. op \in EdgeOps /\ Tail(call[m].todo) = <<>>
    BY <1>4, <1>5 DEF EdgeOps
  <1>7. /\ op = "add" /\ writer = m => s = AddEdges({t} \X D, {t}) /\ Valid(draft, {t} \X D)
        /\ ~ (op = "add" /\ writer = m) =>
             /\ op = "add_edges" /\ writer # m
             /\ s = AddEdges({t} \X D, {}) /\ (~ call[m].stale => D # {} /\ Valid(db, {t} \X D))
    BY <1>4, <1>5, Zenon
  <1> QED
    BY <1>4, <1>6, <1>7, Zenon

LEMMA CheckedBase ==
  ASSUME BaseInv, NEW m \in Member, ExecuteChecked(m)
  PROVE  BaseInv'
  <1> DEFINE op == call[m].op
             t == call[m].task
             s == Head(call[m].todo)
             ok == (Writes(m, s) => Granted(m))
  <1>1. /\ Running(m) /\ call[m].todo # <<>> /\ s.kind = "edges" /\ Execute(m, s)
        /\ Done(m, ok) /\ UNCHANGED <<refusals, db>>
    BY DEF ExecuteChecked
  <1>2. call[m] \in CallRec /\ t \in Task /\ ok \in BOOLEAN
    BY <1>1, RunningCalls DEF BaseInv, CallRec
  <1>3. call'[m] = [op |-> op, task |-> t, todo |-> Tail(call[m].todo), stale |-> call[m].stale, ok |-> ok]
    BY <1>1, <1>2, DoneMoves DEF BaseInv
  <1>4. /\ op \in EdgeOps /\ Tail(call[m].todo) = <<>>
        /\ \E D \in SUBSET Task :
              \/ /\ op = "add" /\ writer = m
                 /\ s = AddEdges({t} \X D, {t}) /\ Valid(draft, {t} \X D)
              \/ /\ op = "add_edges" /\ writer # m
                 /\ s = AddEdges({t} \X D, {}) /\ (~ call[m].stale => D # {} /\ Valid(db, {t} \X D))
    BY <1>1, NextChecked
  <1>5. TodoOK(m)'
    <2>1. call'[m].op = op /\ call'[m].todo = <<>>
      BY <1>3, <1>4
    <2> QED
      BY <1>4, <2>1 DEF TodoOK
  <1>6. \/ UNCHANGED <<writer, draft>>
        \/ draft' = Apply(draft, s) /\ ~ call[m].stale /\ (writer # m => writer = NoOne /\ draft = db)
    BY <1>1, ExecuteCases
  <1>7. draft' \in Tables /\ Sound(draft') /\ Respects(db, draft')
    <2>0. db \in Tables /\ draft \in Tables /\ Sound(db) /\ Sound(draft) /\ Respects(db, draft)
      BY DEF BaseInv, DaoTypeOK, TablesSound
    <2>1. CASE UNCHANGED <<writer, draft>>
      BY <2>0, <2>1
    <2>2. CASE draft' = Apply(draft, s) /\ ~ call[m].stale /\ (writer # m => writer = NoOne /\ draft = db)
      <3>1. PICK E \in SUBSET (Task \X Task), new \in SUBSET Task : s = AddEdges(E, new) /\ Valid(draft, E)
        BY <1>2, <1>4, <2>2
      <3> QED
        BY <2>0, <2>2, <3>1, EdgesAreQuiet, QuietKeepsRespect
    <2> QED
      BY <1>6, <2>1, <2>2
  <1> HIDE DEF ok, s
  <1> QED
    BY <1>1, <1>2, <1>5, <1>7, ExecuteKeeps

\* An operation that has read its rows.
LEMMA BeginBase ==
  ASSUME BaseInv, NEW m \in Member, NEW op \in RowOps \cup EndOps \cup EdgeOps, NEW t \in Task,
         NEW todo \in Seq(Statement), Begin(m, op, t, todo), TodoOK(m)'
  PROVE  BaseInv'
  <1>1. /\ ~ Running(m) /\ UNCHANGED <<refusals, db, writer, draft>>
        /\ call' = [call EXCEPT ![m] = Call(op, t, todo)]
    BY DEF Begin
  <1>2. Call(op, t, todo) \in CallRec
    BY DEF Call, CallRec
  <1>3. DaoTypeOK'
    BY <1>1, <1>2 DEF BaseInv, DaoTypeOK
  <1>4. TablesSound'
    BY <1>1 DEF BaseInv, TablesSound, Sound, Respects
  <1>5. writer # m
    BY <1>1, NobodyAssumption DEF BaseInv, WriterIsFresh
  <1>6. \A n \in Member : n # m => call'[n] = call[n]
    BY <1>1 DEF BaseInv, DaoTypeOK
  <1>7. WriterIsFresh'
    BY <1>1, <1>5, <1>6 DEF BaseInv, DaoTypeOK, WriterIsFresh, Running
  <1>8. ASSUME NEW n \in Member, n # m, Running(n)' PROVE TodoOK(n)'
    <2>1. Running(n) /\ call'[n] = call[n]
      BY <1>6, <1>8 DEF Running
    <2>2. TodoOK(n)
      BY <2>1 DEF BaseInv
    <2> QED
      BY <1>1, <2>1, <2>2, CallStays
  <1> QED
    BY <1>3, <1>4, <1>7, <1>8 DEF BaseInv

LEMMA BeginFirst ==
  ASSUME BaseInv, NEW m \in Member, NEW t \in Task, NEW op, NEW todo, Begin(m, op, t, todo),
         \/ op \in RowOps /\ todo = <<RowOf(op, m, t)>>
         \/ op \in EndOps /\ todo = TerminateTask(t, TargetOf(op)),
         op = "claim"   => TB!IsValidTaskTransition(t, "claimed") /\ db.assignee[t] = NoOne,
         op = "reset"   => db.status[t] = "claimed",
         op = "approve" => TB!IsValidTaskTransition(t, "plan_approved"),
         op \in EndOps  => TB!IsValidTaskTransition(t, TargetOf(op))
  PROVE  BaseInv' /\ AtStart(m)' /\ Permitted(m)'
  <1>1. /\ ~ Running(m) /\ UNCHANGED <<refusals, db, writer, draft>>
        /\ call' = [call EXCEPT ![m] = Call(op, t, todo)]
    BY DEF Begin
  <1>2. /\ call'[m].op = op /\ call'[m].task = t /\ call'[m].todo = todo /\ ~ call'[m].stale
    BY <1>1 DEF BaseInv, DaoTypeOK, Call
  <1>3. AtStart(m)'
    BY <1>2 DEF AtStart
  <1>4. Permitted(m)'
    BY <1>1, <1>2 DEF Permitted, TB!IsValidTaskTransition, TB!Exists
  <1>5. writer' # m
    BY <1>1, NobodyAssumption DEF BaseInv, WriterIsFresh
  <1>6. TodoOK(m)'
    BY <1>2, <1>3, <1>4, <1>5 DEF TodoOK
  <1>7. todo \in Seq(Statement)
    <2>1. CASE op \in RowOps /\ todo = <<RowOf(op, m, t)>>
      <3>1. RowOf(op, m, t) \in Statement
        BY <2>1, StatementTypes
      <3> QED
        BY <2>1, <3>1
    <2>2. CASE op \in EndOps /\ todo = TerminateTask(t, TargetOf(op))
      BY <2>2, StatementTypes
    <2> QED
      BY <2>1, <2>2
  <1> QED
    BY <1>3, <1>4, <1>6, <1>7, BeginBase

LEMMA BeginsOnRows ==
  ASSUME BaseInv, NEW m \in Member, NEW t \in Task,
         \/ ClaimTask(m, t) \/ ResetTask(m, t) \/ ApprovePlanTask(m, t)
         \/ CompleteTask(m, t) \/ CancelTask(m, t)
  PROVE  /\ BaseInv' /\ AtStart(m)' /\ Permitted(m)'
         /\ \E op, todo : Begin(m, op, t, todo)
  <1>1. CASE ClaimTask(m, t)
    <2>1. Begin(m, "claim", t, <<RowOf("claim", m, t)>>)
      BY <1>1 DEF ClaimTask, RowOf
    <2> QED
      BY <1>1, <2>1, BeginFirst DEF ClaimTask, RowOps, EndOps
  <1>2. CASE ResetTask(m, t)
    <2>1. Begin(m, "reset", t, <<RowOf("reset", m, t)>>)
      BY <1>2 DEF ResetTask, RowOf
    <2> QED
      BY <1>2, <2>1, BeginFirst DEF ResetTask, RowOps, EndOps
  <1>3. CASE ApprovePlanTask(m, t)
    <2>1. Begin(m, "approve", t, <<RowOf("approve", m, t)>>)
      BY <1>3 DEF ApprovePlanTask, RowOf
    <2> QED
      BY <1>3, <2>1, BeginFirst DEF ApprovePlanTask, RowOps, EndOps
  <1>4. CASE CompleteTask(m, t)
    <2>1. TargetOf("complete") = "completed"
      BY DEF TargetOf
    <2>2. Begin(m, "complete", t, TerminateTask(t, TargetOf("complete")))
      BY <1>4, <2>1 DEF CompleteTask
    <2> QED
      BY <1>4, <2>1, <2>2, BeginFirst DEF CompleteTask, RowOps, EndOps
  <1>5. CASE CancelTask(m, t)
    <2>1. TargetOf("cancel") = "cancelled"
      BY DEF TargetOf
    <2>2. Begin(m, "cancel", t, TerminateTask(t, TargetOf("cancel")))
      BY <1>5, <2>1 DEF CancelTask
    <2> QED
      BY <1>5, <2>1, <2>2, BeginFirst DEF CancelTask, RowOps, EndOps
  <1> QED
    BY <1>1, <1>2, <1>3, <1>4, <1>5

LEMMA BeginsEdges ==
  ASSUME BaseInv, NEW m \in Member, NEW t \in Task, NEW D \in SUBSET Task, AddDependencies(m, t, D)
  PROVE  BaseInv' /\ call'[m].op = "add_edges"
  <1> DEFINE todo == <<AddEdges({t} \X D, {})>>
  <1>1. D # {} /\ Valid(db, {t} \X D) /\ Begin(m, "add_edges", t, todo)
    BY DEF AddDependencies
  <1>2. /\ ~ Running(m) /\ UNCHANGED <<refusals, db, writer, draft>>
        /\ call' = [call EXCEPT ![m] = Call("add_edges", t, todo)]
    BY <1>1 DEF Begin
  <1>3. /\ call'[m].op = "add_edges" /\ call'[m].task = t /\ call'[m].todo = todo
    BY <1>2 DEF BaseInv, DaoTypeOK, Call
  <1>4. writer' # m
    BY <1>2, NobodyAssumption DEF BaseInv, WriterIsFresh
  <1>5. Valid(db, {t} \X D)'
    BY <1>1, <1>2 DEF Valid
  <1>6. TodoOK(m)'
    BY <1>1, <1>3, <1>4, <1>5 DEF TodoOK
  <1>7. todo \in Seq(Statement)
    <2>1. {t} \X D \in SUBSET (Task \X Task)
      OBVIOUS
    <2>2. AddEdges({t} \X D, {}) \in Statement
      BY <2>1, StatementTypes
    <2> QED
      BY <2>2
  <1> HIDE DEF todo
  <1> QED
    BY <1>1, <1>3, <1>6, <1>7, BeginBase DEF EdgeOps

\* A new task: its row is inserted before anything is read.
LEMMA AddTaskBase ==
  ASSUME BaseInv, NEW m \in Member, NEW t \in Task, NEW D \in SUBSET Task, AddTask(m, t, D)
  PROVE  /\ BaseInv' /\ writer = NoOne /\ writer' = m /\ db' = db /\ refusals' = refusals
         /\ \A n \in Member : n # m => call'[n] = call[n]
         /\ ~ refusals =>
              /\ db.status[t] = "absent" /\ draft' = [db EXCEPT !.status[t] = "pending"]
              /\ call'[m].op = "add" /\ call'[m].task = t /\ call'[m].ok
              /\ call'[m].todo = <<AddEdges({t} \X D, {t})>>
  <1> DEFINE free == db.status[t] = "absent"
             staged == IF free THEN [db EXCEPT !.status[t] = "pending"] ELSE db
             ok == free /\ Valid(staged, {t} \X D)
             todo == <<AddEdges({t} \X D, {t})>>
             new == IF ok THEN Call("add", t, todo) ELSE [Call("add", t, <<>>) EXCEPT !.ok = FALSE]
  <1>1. /\ ~ Running(m) /\ writer = NoOne /\ (refusals \/ ok)
        /\ writer' = m /\ draft' = staged /\ call' = [call EXCEPT ![m] = new]
        /\ UNCHANGED <<refusals, db>>
    BY DEF AddTask
  <1>2. todo \in Seq(Statement) /\ <<>> \in Seq(Statement)
    <2>1. {t} \X D \in SUBSET (Task \X Task)
      OBVIOUS
    <2>2. AddEdges({t} \X D, {t}) \in Statement
      BY <2>1, StatementTypes
    <2> QED
      BY <2>2
  <1>3. staged \in Tables /\ Sound(staged) /\ Respects(db, staged)
    BY NewRow, RespectsItself DEF BaseInv, DaoTypeOK, TablesSound
  <1> HIDE DEF todo
  <1>12. ok => new = [op |-> "add", task |-> t, todo |-> todo, stale |-> FALSE, ok |-> TRUE]
    BY DEF Call
  <1>13. ~ ok => new = [op |-> "add", task |-> t, todo |-> <<>>, stale |-> FALSE, ok |-> FALSE]
    BY DEF Call
  <1> HIDE DEF new, ok, free
  <1>4. /\ new \in CallRec /\ new.op = "add" /\ new.task = t /\ ~ new.stale
        /\ ok => new.todo = todo /\ new.ok
        /\ ~ ok => new.todo = <<>>
    <2>1. ASSUME ok PROVE new \in CallRec /\ new.op = "add" /\ new.task = t /\ ~ new.stale /\ new.todo = todo /\ new.ok
      <3>1. new = [op |-> "add", task |-> t, todo |-> todo, stale |-> FALSE, ok |-> TRUE]
        BY <1>12, <2>1, Zenon
      <3> QED
        BY <1>2, <3>1 DEF CallRec, EdgeOps
    <2>2. ASSUME ~ ok PROVE new \in CallRec /\ new.op = "add" /\ new.task = t /\ ~ new.stale /\ new.todo = <<>>
      <3>1. new = [op |-> "add", task |-> t, todo |-> <<>>, stale |-> FALSE, ok |-> FALSE]
        BY <1>13, <2>2, Zenon
      <3> QED
        BY <1>2, <3>1 DEF CallRec, EdgeOps
    <2> QED
      BY <2>1, <2>2
  <1>5. call'[m] = new /\ \A n \in Member : n # m => call'[n] = call[n]
    BY <1>1 DEF BaseInv, DaoTypeOK
  <1>6. DaoTypeOK'
    BY <1>1, <1>3, <1>4 DEF BaseInv, DaoTypeOK
  <1>7. TablesSound'
    <2>1. Sound(db)' /\ Sound(draft)' /\ Respects(db, draft)'
      BY <1>1, <1>3 DEF BaseInv, TablesSound, Sound, Respects
    <2> QED
      BY <1>1, <2>1, NobodyAssumption DEF TablesSound
  <1>8. WriterIsFresh'
    BY <1>1, <1>4, <1>5 DEF WriterIsFresh, Running
  <1>9. TodoOK(m)'
    <2>1. CASE ok
      <3>1. Valid(draft, {t} \X D)'
        BY <1>1, <2>1 DEF Valid, ok
      <3> QED
        BY <1>1, <1>4, <1>5, <2>1, <3>1 DEF TodoOK, todo
    <2>2. CASE ~ ok
      BY <1>4, <1>5, <2>2 DEF TodoOK, EdgeOps
    <2> QED
      BY <2>1, <2>2
  <1>10. ASSUME NEW n \in Member, n # m, Running(n)' PROVE TodoOK(n)'
    <2>1. Running(n) /\ call'[n] = call[n]
      BY <1>5, <1>10 DEF Running
    <2>2. TodoOK(n) /\ writer # n /\ writer' # n
      BY <1>1, <1>10, <2>1, NobodyAssumption DEF BaseInv
    <2> QED
      BY <1>1, <2>1, <2>2, CallStays
  <1>11. BaseInv'
    BY <1>6, <1>7, <1>8, <1>9, <1>10 DEF BaseInv
  <1> QED
    BY <1>1, <1>4, <1>5, <1>11 DEF todo, ok, free

LEMMA ReturnBase ==
  ASSUME BaseInv, NEW m \in Member, Return(m)
  PROVE  /\ BaseInv'
         /\ db' = IF writer = m /\ call[m].ok THEN draft ELSE db
         /\ writer' = IF writer = m THEN NoOne ELSE writer
         /\ draft' = IF writer = m THEN db' ELSE draft
         /\ ~ Running(m)'
         /\ \A n \in Member : n # m /\ Running(n) =>
                call'[n] = IF db' # db THEN [call[n] EXCEPT !.stale = TRUE] ELSE call[n]
         /\ \A n \in Member : Running(n)' => n # m /\ Running(n)
  <1>1. /\ Running(m) /\ call[m].todo = <<>> /\ refusals' = refusals
        /\ db' = IF writer = m /\ call[m].ok THEN draft ELSE db
        /\ writer' = IF writer = m THEN NoOne ELSE writer
        /\ draft' = IF writer = m THEN db' ELSE draft
    BY DEF Return
  <1>2. call' = [n \in Member |->
                CASE n = m -> Idle
                  [] n # m /\ call[n].op # "none" /\ db' # db -> [call[n] EXCEPT !.stale = TRUE]
                  [] OTHER -> call[n]]
    BY Zenon DEF Return
  <1>3. call'[m] = Idle
    BY <1>2
  <1>4. ASSUME NEW n \in Member, n # m, Running(n), db' # db PROVE call'[n] = [call[n] EXCEPT !.stale = TRUE]
    BY <1>2, <1>4, Zenon DEF Running
  <1>5. ASSUME NEW n \in Member, n # m, ~ Running(n) \/ db' = db PROVE call'[n] = call[n]
    BY <1>2, <1>5, Zenon DEF Running
  <1>6. ~ Running(m)'
    BY <1>3 DEF Running, Idle
  <1>7. \A n \in Member : Running(n)' => n # m /\ Running(n)
    BY <1>5, <1>6 DEF Running
  <1>8. DaoTypeOK'
    <2>1. ASSUME NEW n \in Member PROVE call'[n] \in {Idle} \cup CallRec
      <3>1. CASE n = m
        BY <1>3, <3>1
      <3>2. CASE n # m /\ Running(n) /\ db' # db
        <4>1. call[n] \in CallRec
          BY <3>2, RunningCalls DEF BaseInv
        <4> QED
          BY <1>4, <3>2, <4>1 DEF CallRec
      <3>3. CASE n # m /\ (~ Running(n) \/ db' = db)
        BY <1>5, <3>3 DEF BaseInv, DaoTypeOK
      <3> QED
        BY <3>1, <3>2, <3>3
    <2>2. call' \in [Member -> {Idle} \cup CallRec]
      BY <1>2, <2>1
    <2> QED
      BY <1>1, <2>2 DEF BaseInv, DaoTypeOK
  <1>9. TablesSound'
    <2>1. CASE writer = m
      <3>1. draft' = db' /\ (db' = draft \/ db' = db) /\ db' \in Tables
        BY <1>1, <2>1, <1>8 DEF DaoTypeOK
      <3>2. Sound(db') /\ Respects(db', db')
        BY <3>1, RespectsItself DEF BaseInv, TablesSound
      <3> QED
        BY <3>1, <3>2 DEF TablesSound, Sound, Respects
    <2>2. CASE writer # m
      <3>1. UNCHANGED <<db, draft, writer>>
        BY <1>1, <2>2
      <3> QED
        BY <3>1 DEF BaseInv, TablesSound, Sound, Respects
    <2> QED
      BY <2>1, <2>2
  <1>10. writer # m => db' = db
    BY <1>1
  <1>11. WriterIsFresh'
    <2>1. CASE writer = m
      BY <1>1, <2>1 DEF WriterIsFresh
    <2>2. CASE writer # m /\ writer # NoOne
      <3>1. writer \in Member /\ writer' = writer /\ db' = db
        BY <1>1, <2>2 DEF BaseInv, DaoTypeOK
      <3>2. call'[writer] = call[writer]
        BY <1>5, <2>2, <3>1
      <3> QED
        BY <2>2, <3>1, <3>2 DEF BaseInv, WriterIsFresh, Running
    <2>3. CASE writer # m /\ writer = NoOne
      BY <1>1, <2>3 DEF WriterIsFresh
    <2> QED
      BY <2>1, <2>2, <2>3
  <1>12. ASSUME NEW n \in Member, Running(n)' PROVE TodoOK(n)'
    <2>1. n # m /\ Running(n) /\ TodoOK(n)
      BY <1>7, <1>12 DEF BaseInv
    <2>2. CASE db' = db
      <3>1. call'[n] = call[n]
        BY <1>5, <2>1, <2>2
      <3>2. writer = n => writer' = n /\ draft' = draft
        BY <1>1, <2>1
      <3>3. writer # n => writer' # n
        BY <1>1, <2>1, NobodyAssumption
      <3> QED
        BY <2>1, <2>2, <3>1, <3>2, <3>3, CallStays
    <2>3. CASE db' # db
      <3>1. writer = m /\ writer' = NoOne
        BY <1>1, <1>10, <2>3
      <3>2. call'[n] = [call[n] EXCEPT !.stale = TRUE] /\ call[n] \in CallRec
        BY <1>4, <2>1, <2>3, RunningCalls DEF BaseInv
      <3> QED
        BY <2>1, <3>1, <3>2, NobodyAssumption, CallGoesStale
    <2> QED
      BY <2>2, <2>3
  <1>13. BaseInv'
    BY <1>8, <1>9, <1>11, <1>12 DEF BaseInv
  <1> QED
    BY <1>1, <1>4, <1>5, <1>6, <1>7, <1>13

\* The empty tables, and no call under way.
LEMMA InitBase == Init => BaseInv
  <1> SUFFICES ASSUME Init PROVE BaseInv
    OBVIOUS
  <1>1. /\ refusals \in BOOLEAN /\ writer = NoOne /\ draft = db /\ call = [m \in Member |-> Idle]
        /\ db = [status |-> [t \in Task |-> "absent"], assignee |-> [t \in Task |-> NoOne],
                 deps |-> {}, resolved |-> {}]
    BY DEF Init
  <1>2. db \in Tables
    BY <1>1 DEF Tables
  <1>3. Acyclic(Task, {})
    BY DEF Acyclic
  <1>4. Sound(db)
    BY <1>1, <1>3 DEF Sound
  <1>5. \A m \in Member : ~ Running(m)
    BY <1>1 DEF Running, Idle
  <1> QED
    BY <1>1, <1>2, <1>4, <1>5, RespectsItself DEF BaseInv, DaoTypeOK, TablesSound, WriterIsFresh

LEMMA UnchangedBase == BaseInv /\ UNCHANGED vars => BaseInv'
  <1> SUFFICES ASSUME BaseInv, UNCHANGED vars PROVE BaseInv'
    OBVIOUS
  <1>1. DaoTypeOK' /\ TablesSound' /\ WriterIsFresh'
    BY DEF vars, BaseInv, DaoTypeOK, TablesSound, Sound, Respects, WriterIsFresh, Running
  <1>2. ASSUME NEW n \in Member, Running(n)' PROVE TodoOK(n)'
    <2>1. Running(n) /\ TodoOK(n)
      BY <1>2 DEF vars, Running, BaseInv
    <2> QED
      BY <2>1, CallStays DEF vars
  <1> QED
    BY <1>1, <1>2 DEF BaseInv

LEMMA StepBase == BaseInv /\ [Next]_vars => BaseInv'
  <1> SUFFICES ASSUME BaseInv, Next PROVE BaseInv'
    BY UnchangedBase
  <1> QED
    BY BeginsOnRows, BeginsEdges, AddTaskBase, UncheckedBase, CheckedBase, ReturnBase DEF Next

\* What a step may do to the committed tables: one call's commit, or nothing.
LEMMA OnlyCommitsChange ==
  ASSUME BaseInv, [Next]_vars, db' # db
  PROVE  \E m \in Member : Return(m) /\ Running(m) /\ call[m].todo = <<>>
                           /\ writer = m /\ call[m].ok /\ db' = draft
  <1>1. Next
    BY DEF vars
  <1>2. PICK m \in Member : Return(m)
    <2>1. \A m \in Member, t \in Task : \A op, todo : ~ Begin(m, op, t, todo)
      BY DEF Begin
    <2>2. \A m \in Member, t \in Task : ~ ClaimTask(m, t) /\ ~ ResetTask(m, t) /\ ~ ApprovePlanTask(m, t)
      BY <2>1 DEF ClaimTask, ResetTask, ApprovePlanTask
    <2>3. \A m \in Member, t \in Task : ~ CompleteTask(m, t) /\ ~ CancelTask(m, t)
      BY <2>1 DEF CompleteTask, CancelTask
    <2>4. \A m \in Member, t \in Task : \A D \in SUBSET Task : ~ AddDependencies(m, t, D) /\ ~ AddTask(m, t, D)
      BY <2>1 DEF AddDependencies, AddTask
    <2>5. \A m \in Member : ~ ExecuteUnchecked(m) /\ ~ ExecuteChecked(m)
      BY DEF ExecuteUnchecked, ExecuteChecked
    <2> QED
      BY <1>1, <2>2, <2>3, <2>4, <2>5 DEF Next
  <1>3. writer = m /\ call[m].ok /\ db' = draft
    BY <1>2, ReturnBase
  <1> QED
    BY <1>2, <1>3 DEF Return

LEMMA CommitRespects ==
  ASSUME BaseInv, [Next]_vars
  PROVE  Respects(db, db')
  <1>1. CASE db' = db
    BY <1>1, RespectsItself DEF BaseInv, DaoTypeOK
  <1>2. CASE db' # db
    BY <1>2, OnlyCommitsChange DEF BaseInv, TablesSound
  <1> QED
    BY <1>1, <1>2

\* The inductive invariant of sql_task_dao.go's transactions: committed and uncommitted
\* tables are sound, the writer's snapshot is fresh, and what the SELECT of a call found
\* holds until its first statement runs or its snapshot is stale.
THEOREM DaoBase == Spec => []BaseInv
  BY InitBase, StepBase, PTL DEF Spec

\* Tables, lock and calls keep their types: no statement writes a status, an assignee or
\* an edge that the schema of team_task and team_task_dependency does not know.
THEOREM DaoTypeCorrect == Spec => []DaoTypeOK
  <1>1. BaseInv => DaoTypeOK
    BY DEF BaseInv
  <1> QED
    BY DaoBase, <1>1, PTL

\* Two mutations that checkCycleAndComputeNewEdgesInTx accepts one by one do not make a
\* cycle together, because SQLite refuses the write of the one whose check is outdated.
THEOREM DaoStaysAcyclic == Spec => []StaysAcyclic
  <1>1. BaseInv => StaysAcyclic
    BY DEF BaseInv, TablesSound, Sound, StaysAcyclic, TB!DependenciesAcyclic, TB!Exists, Acyclic, TB!Acyclic
  <1> QED
    BY DaoBase, <1>1, PTL

\* A call in progress keeps its operation, and its list of statements never grows: a step
\* leaves the list alone, takes the first statement off it, or returns when it is empty.
Advances(m) ==
    \/ call[m].todo = <<>> /\ call'[m] = Idle
    \/ /\ call'[m].op = call[m].op /\ call'[m].task = call[m].task
       /\ call'[m].todo = call[m].todo \/ (call[m].todo # <<>> /\ call'[m].todo = Tail(call[m].todo))

LEMMA StepAdvances ==
  ASSUME DaoTypeOK, [Next]_vars, NEW m \in Member, Running(m)
  PROVE  Advances(m)
  <1>1. call[m] \in CallRec /\ call \in [Member -> {Idle} \cup CallRec]
    BY RunningCalls DEF DaoTypeOK
  <1>2. CASE call'[m] = call[m]
    BY <1>2 DEF Advances
  <1>3. ASSUME NEW n \in Member, NEW op, NEW t, NEW todo, Begin(n, op, t, todo)
        PROVE  call'[m] = call[m]
    BY <1>1, <1>3 DEF Begin
  <1>4. ASSUME NEW n \in Member, NEW t \in Task,
               \/ ClaimTask(n, t) \/ ResetTask(n, t) \/ ApprovePlanTask(n, t)
               \/ CompleteTask(n, t) \/ CancelTask(n, t)
        PROVE  call'[m] = call[m]
    BY <1>3, <1>4 DEF ClaimTask, ResetTask, ApprovePlanTask, CompleteTask, CancelTask
  <1>5. ASSUME NEW n \in Member, NEW t \in Task, NEW D \in SUBSET Task, AddDependencies(n, t, D)
        PROVE  call'[m] = call[m]
    BY <1>3, <1>5 DEF AddDependencies
  <1>6. ASSUME NEW n \in Member, NEW t \in Task, NEW D \in SUBSET Task, AddTask(n, t, D)
        PROVE  call'[m] = call[m]
    <2>1. n # m /\ \E c : call' = [call EXCEPT ![n] = c]
      BY <1>6, Zenon DEF AddTask
    <2> QED
      BY <1>1, <2>1
  <1>7. ASSUME NEW n \in Member, ExecuteUnchecked(n) \/ ExecuteChecked(n)
        PROVE  Advances(m)
    <2>1. Running(n) /\ call[n].todo # <<>> /\ \E ok \in BOOLEAN : Done(n, ok)
      <3>1. (Writes(n, Head(call[n].todo)) => Granted(n)) \in BOOLEAN
        OBVIOUS
      <3> QED
        BY <1>7, <3>1, Zenon DEF ExecuteUnchecked, ExecuteChecked
    <2>2. PICK ok \in BOOLEAN : Done(n, ok)
      BY <2>1
    <2>3. /\ n # m => call'[m] = call[m]
          /\ n = m => call'[m] = [op |-> call[m].op, task |-> call[m].task, todo |-> Tail(call[m].todo),
                                  stale |-> call[m].stale, ok |-> ok]
      BY <2>1, <2>2, DoneMoves
    <2>4. CASE n = m
      <3>1. PICK c : c = call[m]
        OBVIOUS
      <3>2. call'[m] = [op |-> c.op, task |-> c.task, todo |-> Tail(c.todo), stale |-> c.stale, ok |-> ok]
        BY <2>3, <2>4, <3>1, Zenon
      <3>3. call'[m].op = c.op /\ call'[m].task = c.task /\ call'[m].todo = Tail(c.todo)
        BY <3>2
      <3> QED
        BY <2>1, <2>4, <3>1, <3>3, Zenon DEF Advances
    <2> QED
      BY <1>2, <2>3, <2>4
  <1>8. ASSUME NEW n \in Member, Return(n)
        PROVE  Advances(m)
    <2>1. CASE n = m
      BY <1>8, <2>1 DEF Return, Advances
    <2>2. CASE n # m
      <3>1. call'[m] = call[m] \/ call'[m] = [call[m] EXCEPT !.stale = TRUE]
        BY <1>8, <2>2 DEF Return
      <3>2. CASE call'[m] = [call[m] EXCEPT !.stale = TRUE]
        BY <1>1, <3>2 DEF Advances, CallRec
      <3> QED
        BY <1>2, <3>1, <3>2
    <2> QED
      BY <2>1, <2>2
  <1>9. CASE UNCHANGED vars
    BY <1>2, <1>9 DEF vars
  <1> QED
    BY <1>2, <1>4, <1>5, <1>6, <1>7, <1>8, <1>9 DEF Next

\* The write lock of SQLite is never left behind: whoever holds it is inside a call, is
\* granted its next write, and is at most as many steps from COMMIT or ROLLBACK as its
\* list has statements, whatever the other members do meanwhile.
THEOREM LockIsNeverLeft ==
  Spec => /\ [](writer # NoOne => Running(writer) /\ Granted(writer))
          /\ [][\A m \in Member : Running(m) => Advances(m)]_vars
  <1>1. BaseInv => (writer # NoOne => Running(writer) /\ Granted(writer))
    BY DEF BaseInv, WriterIsFresh, Granted
  <1>2. BaseInv /\ [Next]_vars => [\A m \in Member : Running(m) => Advances(m)]_vars
    BY StepAdvances DEF BaseInv
  <1> QED
    BY <1>1, <1>2, DaoBase, PTL DEF Spec

\* The committed rows of completed and cancelled tasks never change again, and no edge or
\* resolved flag disappears, whichever statements are refused or rolled back.
THEOREM DaoKeepsEnds == Spec => TB!TerminalIsFinal
  <1>1. BaseInv /\ [Next]_vars =>
          [/\ \A t \in Task : db.status[t] \in TB!Terminal => (db.status)'[t] = db.status[t]
           /\ db.deps \subseteq (db.deps)' /\ db.resolved \subseteq (db.resolved)']_TB!vars
    BY CommitRespects DEF Respects
  <1> QED
    BY DaoBase, <1>1, PTL DEF Spec, TB!TerminalIsFinal

\* A task that is worked on keeps its owner from commit to commit, although the guard of
\* ClaimTask and its UPDATE are two statements.
THEOREM DaoKeepsOwners == Spec => TB!NoTaskIsStolen
  <1>1. BaseInv /\ [Next]_vars =>
          [\A t \in Task : (db.status[t] \in TB!InProgress /\ (db.status)'[t] \in TB!InProgress)
              => (db.assignee)'[t] = db.assignee[t]]_TB!vars
    BY CommitRespects DEF Respects
  <1> QED
    BY DaoBase, <1>1, PTL DEF Spec, TB!NoTaskIsStolen

-----------------------------------------------------------------------------
(* When no mutation is refused, a transaction is all or nothing.           *)

LEMMA ExactStays ==
  ASSUME NEW n \in Member, WriterIsExact(n), call'[n] = call[n], db' = db, draft' = draft
  PROVE  WriterIsExact(n)'
  <1>1. Permitted(n)' <=> Permitted(n)
    BY DEF Permitted, TB!IsValidTaskTransition, TB!Exists
  <1>2. ASSUME NEW E PROVE Valid(db, E)' <=> Valid(db, E)
    BY DEF Valid
  <1>3. ASSUME NEW E, NEW t
        PROVE  Valid([db EXCEPT !.status[t] = "pending"], E)' <=> Valid([db EXCEPT !.status[t] = "pending"], E)
    BY DEF Valid
  <1> QED
    BY <1>1, <1>2, <1>3, Zenon DEF WriterIsExact

LEMMA WaitStays ==
  ASSUME NEW n \in Member, OthersWait(n), call'[n] = call[n], db' = db, writer' = NoOne => writer = NoOne
  PROVE  OthersWait(n)'
  <1>1. AtStart(n)' <=> AtStart(n)
    BY DEF AtStart
  <1>2. Permitted(n)' <=> Permitted(n)
    BY DEF Permitted, TB!IsValidTaskTransition, TB!Exists
  <1> QED
    BY <1>1, <1>2 DEF OthersWait

\* A step of m that commits nothing.
LEMMA AtomicKeeps ==
  ASSUME BaseInv, AtomicInv, NEW m \in Member, db' = db,
         \A n \in Member : n # m => call'[n] = call[n],
         \/ UNCHANGED <<writer, draft>>
         \/ writer' = m /\ (writer # m => writer = NoOne),
         writer' = m => WriterIsExact(m)',
         writer' # m /\ ~ call'[m].stale => OthersWait(m)'
  PROVE  AtomicInv'
  <1> SUFFICES ASSUME NEW n \in Member, n # m, Running(n)'
               PROVE  /\ writer' = n => WriterIsExact(n)'
                      /\ writer' # n /\ ~ call'[n].stale => OthersWait(n)'
    BY DEF AtomicInv
  <1>1. call'[n] = call[n] /\ Running(n)
    BY DEF Running
  <1>2. ASSUME writer' = n PROVE WriterIsExact(n)'
    <2>1. writer = n /\ draft' = draft
      BY <1>2
    <2> QED
      BY <1>1, <2>1, ExactStays DEF AtomicInv
  <1>3. ASSUME writer' # n, ~ call'[n].stale PROVE OthersWait(n)'
    <2>1. writer # n /\ ~ call[n].stale
      BY <1>1, <1>3, NobodyAssumption
    <2>2. writer' = NoOne => writer = NoOne
      BY NobodyAssumption
    <2> QED
      BY <1>1, <2>1, <2>2, WaitStays DEF AtomicInv
  <1> QED
    BY <1>2, <1>3

LEMMA BeginAtomic ==
  ASSUME BaseInv, AtomicInv, NEW m \in Member, NEW op, NEW t, NEW todo, Begin(m, op, t, todo),
         (AtStart(m)' /\ Permitted(m)') \/ op = "add_edges"
  PROVE  AtomicInv'
  <1>1. /\ ~ Running(m) /\ UNCHANGED <<db, writer, draft>>
        /\ call' = [call EXCEPT ![m] = Call(op, t, todo)]
    BY DEF Begin
  <1>2. call'[m].op = op /\ \A n \in Member : n # m => call'[n] = call[n]
    BY <1>1 DEF BaseInv, DaoTypeOK, Call
  <1>3. writer' # m
    BY <1>1, NobodyAssumption DEF BaseInv, WriterIsFresh
  <1>4. OthersWait(m)'
    BY <1>2 DEF OthersWait, RowOps, EndOps
  <1> QED
    BY <1>1, <1>2, <1>3, <1>4, AtomicKeeps

LEMMA AddTaskAtomic ==
  ASSUME BaseInv, AtomicInv, ~ refusals, NEW m \in Member, NEW t \in Task, NEW D \in SUBSET Task,
         AddTask(m, t, D)
  PROVE  AtomicInv'
  <1>1. /\ writer = NoOne /\ writer' = m /\ db' = db
        /\ \A n \in Member : n # m => call'[n] = call[n]
        /\ db.status[t] = "absent" /\ draft' = [db EXCEPT !.status[t] = "pending"]
        /\ call'[m].op = "add" /\ call'[m].task = t /\ call'[m].ok
        /\ call'[m].todo = <<AddEdges({t} \X D, {t})>>
    BY AddTaskBase
  <1>2. call'[m].todo # <<>>
    BY <1>1, Lists
  <1>3. WriterIsExact(m)'
    BY <1>1, <1>2, Zenon DEF WriterIsExact
  <1> QED
    BY <1>1, <1>3, AtomicKeeps

\* How far the operation of a writer that has something left to do has come.
LEMMA ExactTodo ==
  ASSUME NEW m \in Member, WriterIsExact(m), call[m].op \in EndOps, NEW t, t = call[m].task,
         NEW closed, closed = Apply(db, SetStatus(t, TargetOf(call[m].op)))
  PROVE  /\ Permitted(m)
         /\ call[m].todo = <<Resolve(t), Refresh(t)>> => draft = closed
         /\ call[m].todo = <<Refresh(t)>> => draft = Apply(closed, Resolve(t))
  <1>1. call[m].op \notin RowOps /\ call[m].op # "add" /\ call[m].op # "add_edges"
    BY DEF RowOps, EndOps
  <1>2. <<Resolve(t), Refresh(t)>> # <<Refresh(t)>> /\ <<Resolve(t), Refresh(t)>> # <<>> /\ <<Refresh(t)>> # <<>>
    BY Shorter, Lists
  <1> QED
    BY <1>1, <1>2, Zenon DEF WriterIsExact

\* One who still waits with a shorter list is held up by a writer.
LEMMA NotAtStart ==
  ASSUME NEW m \in Member, call[m].op \in EndOps, NEW t, t = call[m].task,
         call[m].todo \in {<<Resolve(t), Refresh(t)>>, <<Refresh(t)>>}
  PROVE  ~ AtStart(m)
  <1>1. call[m].op \notin RowOps
    BY DEF RowOps, EndOps
  <1>2. ASSUME call[m].todo = <<SetStatus(t, TargetOf(call[m].op)), Resolve(t), Refresh(t)>> PROVE FALSE
    BY <1>2, Shorter
  <1> QED
    BY <1>1, <1>2 DEF AtStart, TerminateTask

LEMMA UncheckedAtomic ==
  ASSUME BaseInv, AtomicInv, NEW m \in Member, ExecuteUnchecked(m)
  PROVE  AtomicInv'
  <1> DEFINE op == call[m].op
             t == call[m].task
             s == Head(call[m].todo)
             closed == Apply(db, SetStatus(t, TargetOf(op)))
  <1>1. /\ Running(m) /\ call[m].todo # <<>> /\ s.kind # "edges" /\ Execute(m, s)
        /\ Done(m, TRUE) /\ UNCHANGED <<refusals, db>>
    BY DEF ExecuteUnchecked
  <1>2. /\ call'[m].op = op /\ call'[m].task = t /\ call'[m].todo = Tail(call[m].todo)
        /\ call'[m].stale = call[m].stale /\ call'[m].ok
        /\ \A n \in Member : n # m => call'[n] = call[n]
    <2>1. /\ call'[m] = [op |-> op, task |-> t, todo |-> Tail(call[m].todo), stale |-> call[m].stale, ok |-> TRUE]
          /\ \A n \in Member : n # m => call'[n] = call[n]
      BY <1>1, DoneMoves DEF BaseInv
    <2>2. call'[m].ok = TRUE
      BY <2>1
    <2> QED
      BY <2>1, <2>2
  <1>3. \/ UNCHANGED <<writer, draft>> /\ ~ (Writes(m, s) /\ Granted(m))
        \/ /\ Granted(m) /\ Writes(m, s) /\ View(m) = draft
           /\ writer' = m /\ draft' = Apply(draft, s) /\ ~ call[m].stale
           /\ writer # m => writer = NoOne /\ draft = db
    BY <1>1, ExecuteCases
  <1>4. \/ /\ op \in RowOps /\ s = RowOf(op, m, t) /\ Tail(call[m].todo) = <<>> /\ Writes(m, s)
           /\ AtStart(m) /\ writer # m /\ (~ call[m].stale => Permitted(m))
        \/ /\ op \in EndOps /\ s = SetStatus(t, TargetOf(op)) /\ Tail(call[m].todo) = <<Resolve(t), Refresh(t)>>
           /\ AtStart(m) /\ writer # m /\ (~ call[m].stale => Permitted(m)) /\ Writes(m, s)
        \/ /\ op \in EndOps /\ s = Resolve(t) /\ Tail(call[m].todo) = <<Refresh(t)>> /\ Writes(m, s)
           /\ call[m].todo = <<Resolve(t), Refresh(t)>>
        \/ /\ op \in EndOps /\ s = Refresh(t) /\ Tail(call[m].todo) = <<>>
           /\ call[m].todo = <<Refresh(t)>>
    BY <1>1, NextUnchecked
  <1>5. Permitted(m)' <=> Permitted(m)
    BY <1>1, <1>2 DEF Permitted, TB!IsValidTaskTransition, TB!Exists
  <1>6. Running(m)' /\ op \in RowOps \cup EndOps
    BY <1>1, <1>2, <1>4 DEF Running
  <1>7. WriterIsExact(m)' <=>
          /\ call'[m].ok
          /\ \/ op \in RowOps /\ Permitted(m) /\ Tail(call[m].todo) = <<>> /\ draft' = Apply(db, RowOf(op, m, t))
             \/ /\ op \in EndOps /\ Permitted(m)
                /\ \/ Tail(call[m].todo) = <<Resolve(t), Refresh(t)>> /\ draft' = closed
                   \/ Tail(call[m].todo) = <<Refresh(t)>> /\ draft' = Apply(closed, Resolve(t))
                   \/ Tail(call[m].todo) = <<>> /\ draft' = Apply(Apply(closed, Resolve(t)), Refresh(t))
    <2>1. op # "add" /\ op # "add_edges"
      BY <1>6 DEF RowOps, EndOps
    <2>2. Apply(db, RowOf(op, m, t))' = Apply(db, RowOf(op, m, t))
      BY <1>1, <1>2 DEF RowOf
    <2> QED
      BY <1>1, <1>2, <1>5, <2>1, Zenon DEF WriterIsExact
  <1>8. CASE writer' = m
    <2>1. WriterIsExact(m)'
      <3>1. CASE op \in RowOps /\ s = RowOf(op, m, t) /\ Tail(call[m].todo) = <<>> /\ writer # m
                 /\ (~ call[m].stale => Permitted(m))
        <4>1. draft' = Apply(db, s) /\ Permitted(m)
          BY <1>3, <1>8, <3>1
        <4> QED
          BY <1>2, <1>7, <3>1, <4>1
      <3>2. CASE op \in EndOps /\ s = SetStatus(t, TargetOf(op)) /\ Tail(call[m].todo) = <<Resolve(t), Refresh(t)>>
                 /\ writer # m /\ (~ call[m].stale => Permitted(m))
        <4>1. draft' = closed /\ Permitted(m)
          BY <1>3, <1>8, <3>2
        <4> QED
          BY <1>2, <1>7, <3>2, <4>1
      <3>3. CASE op \in EndOps /\ s \in {Resolve(t), Refresh(t)}
                 /\ call[m].todo \in {<<Resolve(t), Refresh(t)>>, <<Refresh(t)>>}
        <4>1. writer = m
          <5>1. SUFFICES ASSUME writer # m PROVE FALSE
            OBVIOUS
          <5>2. writer = NoOne /\ ~ call[m].stale
            BY <1>3, <1>8, <5>1
          <5>3. AtStart(m)
            BY <1>1, <3>3, <5>1, <5>2 DEF AtomicInv, OthersWait
          <5> QED
            BY <3>3, <5>3, NotAtStart
        <4>2. WriterIsExact(m)
          BY <1>1, <4>1 DEF AtomicInv
        <4>3. /\ Permitted(m)
              /\ call[m].todo = <<Resolve(t), Refresh(t)>> => draft = closed
              /\ call[m].todo = <<Refresh(t)>> => draft = Apply(closed, Resolve(t))
          BY <3>3, <4>2, ExactTodo
        <4>4. draft' = Apply(draft, s)
          <5>1. Granted(m)
            BY <4>1 DEF Granted
          <5>2. CASE Writes(m, s)
            BY <1>3, <5>1, <5>2
          <5>3. CASE ~ Writes(m, s)
            <6>1. draft' = draft
              BY <1>3, <5>3
            <6>2. Apply(View(m), s) = View(m)
              BY <5>3 DEF Writes
            <6> QED
              BY <4>1, <6>1, <6>2 DEF View
          <5> QED
            BY <5>2, <5>3
        <4>5. <<Resolve(t), Refresh(t)>> # <<Refresh(t)>>
          BY Shorter
        <4>6. CASE s = Resolve(t) /\ call[m].todo = <<Resolve(t), Refresh(t)>> /\ Tail(call[m].todo) = <<Refresh(t)>>
          BY <1>2, <1>7, <3>3, <4>3, <4>4, <4>6
        <4>7. CASE s = Refresh(t) /\ call[m].todo = <<Refresh(t)>> /\ Tail(call[m].todo) = <<>>
          BY <1>2, <1>7, <3>3, <4>3, <4>4, <4>7
        <4>8. call[m].todo = <<Resolve(t), Refresh(t)>> => s = Resolve(t) /\ Tail(call[m].todo) = <<Refresh(t)>>
          BY Lists
        <4>9. call[m].todo = <<Refresh(t)>> => s = Refresh(t) /\ Tail(call[m].todo) = <<>>
          BY Lists
        <4> QED
          BY <3>3, <4>6, <4>7, <4>8, <4>9
      <3> QED
        BY <1>4, <3>1, <3>2, <3>3
    <2> QED
      BY <1>1, <1>2, <1>3, <1>8, <2>1, AtomicKeeps
  <1>9. CASE writer' # m
    <2>1. UNCHANGED <<writer, draft>> /\ writer # m
      BY <1>3, <1>9
    <2>2. ASSUME ~ call'[m].stale PROVE OthersWait(m)'
      <3>1. OthersWait(m) /\ ~ call[m].stale
        BY <1>1, <1>2, <2>1, <2>2 DEF AtomicInv
      <3>2. writer # NoOne
        <4>1. SUFFICES ASSUME writer = NoOne PROVE FALSE
          OBVIOUS
        <4>2. Granted(m) /\ AtStart(m)
          BY <1>6, <3>1, <4>1 DEF Granted, OthersWait
        <4>3. ~ Writes(m, s)
          BY <1>3, <2>1, <4>2, <1>9
        <4> QED
          BY <1>4, <4>2, <4>3, NotAtStart
      <3> QED
        BY <1>5, <1>6, <2>1, <3>1, <3>2 DEF OthersWait
    <2> QED
      BY <1>1, <1>2, <1>9, <2>1, <2>2, AtomicKeeps
  <1> QED
    BY <1>8, <1>9

LEMMA CheckedAtomic ==
  ASSUME BaseInv, AtomicInv, NEW m \in Member, ExecuteChecked(m)
  PROVE  AtomicInv'
  <1> DEFINE op == call[m].op
             t == call[m].task
             s == Head(call[m].todo)
             ok == (Writes(m, s) => Granted(m))
             staged == [db EXCEPT !.status[t] = "pending"]
  <1>1. /\ Running(m) /\ call[m].todo # <<>> /\ s.kind = "edges" /\ Execute(m, s)
        /\ Done(m, ok) /\ ok \in BOOLEAN /\ UNCHANGED <<refusals, db>>
    BY DEF ExecuteChecked
  <1>2. /\ call'[m] = [op |-> op, task |-> t, todo |-> Tail(call[m].todo), stale |-> call[m].stale, ok |-> ok]
        /\ \A n \in Member : n # m => call'[n] = call[n]
    BY <1>1, DoneMoves DEF BaseInv
  <1>3. /\ call'[m].op = op /\ call'[m].task = t /\ call'[m].todo = Tail(call[m].todo) /\ call'[m].ok = ok
    BY <1>2
  <1>4. \/ UNCHANGED <<writer, draft>> /\ ~ (Writes(m, s) /\ Granted(m))
        \/ /\ Granted(m) /\ Writes(m, s) /\ View(m) = draft
           /\ writer' = m /\ draft' = Apply(draft, s) /\ ~ call[m].stale
           /\ writer # m => writer = NoOne /\ draft = db
    BY <1>1, ExecuteCases
  <1>5. op \in EdgeOps /\ Tail(call[m].todo) = <<>>
    BY <1>1, NextChecked
  <1>6. PICK D \in SUBSET Task :
              \/ /\ op = "add" /\ writer = m
                 /\ s = AddEdges({t} \X D, {t}) /\ Valid(draft, {t} \X D)
              \/ /\ op = "add_edges" /\ writer # m
                 /\ s = AddEdges({t} \X D, {}) /\ (~ call[m].stale => D # {} /\ Valid(db, {t} \X D))
    BY <1>1, NextChecked
  <1>7. t \in Task /\ draft \in Tables /\ db \in Tables
    BY <1>1, RunningCalls DEF BaseInv, DaoTypeOK, CallRec
  <1>8. {t} \X D \in SUBSET (Task \X Task)
    BY <1>7
  <1>9. CASE op = "add" /\ writer = m /\ s = AddEdges({t} \X D, {t}) /\ Valid(draft, {t} \X D)
    <2>1. Granted(m)
      BY <1>9 DEF Granted
    <2>2. draft' = Apply(draft, s) /\ writer' = m
      <3>1. CASE Writes(m, s)
        BY <1>4, <2>1, <3>1
      <3>2. CASE ~ Writes(m, s)
        <4>1. UNCHANGED <<writer, draft>>
          BY <1>4, <3>2
        <4>2. Apply(View(m), s) = View(m)
          BY <3>2 DEF Writes
        <4> QED
          BY <1>9, <4>1, <4>2 DEF View
      <3> QED
        BY <3>1, <3>2
    <2>3. draft' = WithEdges(draft, {t} \X D, {t})
      BY <1>7, <1>8, <1>9, <2>2, EdgesRun
    <2>4. db.status[t] = "absent" /\ draft = staged
      <3>1. WriterIsExact(m)
        BY <1>1, <1>9 DEF AtomicInv
      <3>2. op \notin RowOps /\ op \notin EndOps /\ op # "add_edges"
        BY <1>9 DEF RowOps, EndOps
      <3> QED
        BY <1>1, <3>1, <3>2, Zenon DEF WriterIsExact
    <2>5. call'[m].ok
      BY <1>3, <2>1, Zenon
    <2>6. /\ Valid(staged, {t} \X D)
          /\ draft' = WithEdges(staged, {t} \X D, {t})
      BY <1>9, <2>3, <2>4, Zenon
    <2>7. Valid(staged, {t} \X D)' /\ (WithEdges(staged, {t} \X D, {t}))' = WithEdges(staged, {t} \X D, {t})
          /\ staged' = staged
      <3>1. db' = db /\ call'[m].task = call[m].task
        BY <1>1, <1>3
      <3>2. staged' = staged
        BY <3>1, Zenon
      <3> HIDE DEF staged
      <3>3. WithEdges(staged, {t} \X D, {t})' = WithEdges(staged, {t} \X D, {t})
        BY <3>1, <3>2 DEF WithEdges, Refreshed, TB!RefreshStatus, TB!Unresolved
      <3>4. Valid(staged, {t} \X D)' <=> Valid(staged, {t} \X D)
        BY <3>1, <3>2 DEF Valid
      <3> QED
        BY <2>6, <3>2, <3>3, <3>4 DEF staged
    <2>8. call'[m].todo = <<>> /\ db'.status[call'[m].task] = "absent" /\ call'[m].op = "add"
      BY <1>1, <1>3, <1>5, <1>9, <2>4
    <2>9. WriterIsExact(m)'
      BY <1>3, <2>5, <2>6, <2>7, <2>8, Zenon DEF WriterIsExact
    <2> QED
      BY <1>1, <1>2, <2>2, <2>9, <1>9, AtomicKeeps
  <1>10. CASE /\ op = "add_edges" /\ writer # m
              /\ s = AddEdges({t} \X D, {}) /\ (~ call[m].stale => D # {} /\ Valid(db, {t} \X D))
    <2>1. OthersWait(m)'
      BY <1>3, <1>10 DEF OthersWait, RowOps, EndOps
    <2>2. ASSUME writer' = m PROVE WriterIsExact(m)'
      <3>1. /\ Granted(m) /\ Writes(m, s) /\ View(m) = db /\ draft' = Apply(db, s) /\ ~ call[m].stale
        BY <1>4, <1>10, <2>2
      <3>2. draft' # db
        BY <3>1, <1>10 DEF Writes, AddEdges
      <3>3. draft' = WithEdges(db, {t} \X D, {})
        BY <1>7, <1>8, <1>10, <3>1, EdgesRun
      <3>4. D # {} /\ Valid(db, {t} \X D)
        BY <1>10, <3>1
      <3>5. call'[m].ok
        BY <1>3, <3>1, Zenon
      <3>6. /\ call'[m].todo = <<>> /\ call'[m].op = "add_edges" /\ draft' # db' /\ call'[m].task = t /\ db' = db
        BY <1>1, <1>3, <1>5, <1>10, <3>2
      <3>7. Valid(db, {t} \X D)' /\ WithEdges(db, {t} \X D, {})' = WithEdges(db, {t} \X D, {})
        BY <3>4, <3>6 DEF Valid, WithEdges, Refreshed, TB!RefreshStatus, TB!Unresolved
      <3> QED
        BY <3>3, <3>4, <3>5, <3>6, <3>7, Zenon DEF WriterIsExact
    <2> QED
      BY <1>1, <1>2, <1>4, <2>1, <2>2, AtomicKeeps
  <1> QED
    BY <1>6, <1>9, <1>10

\* The tables a commit leaves are not those it found.
LEMMA ExactChanges ==
  ASSUME BaseInv, NEW m \in Member, Running(m), WriterIsExact(m), call[m].todo = <<>>
  PROVE  draft # db
  <1> DEFINE op == call[m].op
             t == call[m].task
             closed == Apply(db, SetStatus(t, TargetOf(op)))
             staged == [db EXCEPT !.status[t] = "pending"]
  <1>1. call[m] \in CallRec /\ t \in Task /\ db \in Tables /\ Sound(db)
    BY RunningCalls DEF BaseInv, DaoTypeOK, TablesSound, CallRec
  <1>2. <<Resolve(t), Refresh(t)>> # <<>> /\ <<Refresh(t)>> # <<>>
    BY Lists
  <1>3. \/ op \in RowOps /\ Permitted(m) /\ draft = Apply(db, RowOf(op, m, t))
        \/ op \in EndOps /\ Permitted(m) /\ draft = Apply(Apply(closed, Resolve(t)), Refresh(t))
        \/ draft # db
        \/ /\ db.status[t] = "absent"
           /\ \E D \in SUBSET Task : /\ Valid(staged, {t} \X D)
                                     /\ draft = WithEdges(staged, {t} \X D, {t})
    BY <1>2, Zenon DEF WriterIsExact
  <1>4. CASE op \in RowOps /\ Permitted(m) /\ draft = Apply(db, RowOf(op, m, t))
    BY <1>1, <1>4, RowStatement
  <1>5. CASE op \in EndOps /\ Permitted(m) /\ draft = Apply(Apply(closed, Resolve(t)), Refresh(t))
    <2>1. /\ closed \in Tables /\ closed.status[t] \in TB!Terminal
          /\ db.status[t] \notin TB!Terminal
      BY <1>1, <1>5, EndStatement
    <2> HIDE DEF closed
    <2>2. PICK U \in Tables : U = Apply(closed, Resolve(t)) /\ Quiet(closed, U)
      BY <1>1, <2>1, ResolveIsQuiet
    <2>3. Quiet(U, draft)
      BY <1>1, <1>5, <2>2, RefreshIsQuiet
    <2>4. draft.status[t] = closed.status[t]
      BY <1>1, <2>1, <2>2, <2>3 DEF Quiet, TB!Terminal, TB!Waiting
    <2> QED
      BY <2>1, <2>4
  <1>6. CASE /\ db.status[t] = "absent"
             /\ \E D \in SUBSET Task : /\ Valid(staged, {t} \X D)
                                       /\ draft = WithEdges(staged, {t} \X D, {t})
    <2>1. PICK D \in SUBSET Task : Valid(staged, {t} \X D) /\ draft = WithEdges(staged, {t} \X D, {t})
      BY <1>6
    <2>2. /\ staged \in Tables /\ Sound(staged)
          /\ staged = [status |-> [db.status EXCEPT ![t] = "pending"], assignee |-> db.assignee,
                       deps |-> db.deps, resolved |-> db.resolved]
      BY <1>1, <1>6, NewRow
    <2>3. staged.status[t] = "pending"
      BY <1>1, <2>2 DEF Tables
    <2> HIDE DEF staged
    <2>4. {t} \X D \in SUBSET (Task \X Task) /\ {t} \in SUBSET Task
      BY <1>1
    <2>5. draft = Apply(staged, AddEdges({t} \X D, {t}))
      BY <2>1, <2>2, <2>4, EdgesRun
    <2>6. Quiet(staged, draft)
      BY <2>1, <2>2, <2>4, <2>5, EdgesAreQuiet
    <2>7. draft.status[t] \in TB!Waiting
      BY <1>1, <2>3, <2>6 DEF Quiet, TB!Waiting
    <2> QED
      BY <1>6, <2>7 DEF TB!Waiting
  <1> QED
    BY <1>3, <1>4, <1>5, <1>6

LEMMA ReturnAtomic ==
  ASSUME BaseInv, AtomicInv, NEW m \in Member, Return(m)
  PROVE  AtomicInv'
  <1>1. /\ db' = IF writer = m /\ call[m].ok THEN draft ELSE db
        /\ writer' = IF writer = m THEN NoOne ELSE writer
        /\ draft' = IF writer = m THEN db' ELSE draft
        /\ \A n \in Member : n # m /\ Running(n) =>
               call'[n] = IF db' # db THEN [call[n] EXCEPT !.stale = TRUE] ELSE call[n]
        /\ \A n \in Member : Running(n)' => n # m /\ Running(n)
    BY ReturnBase
  <1>2. Running(m) /\ call[m].todo = <<>>
    BY DEF Return
  <1> SUFFICES ASSUME NEW n \in Member, Running(n)'
               PROVE  /\ writer' = n => WriterIsExact(n)'
                      /\ writer' # n /\ ~ call'[n].stale => OthersWait(n)'
    BY DEF AtomicInv
  <1>3. n # m /\ Running(n)
    BY <1>1
  <1>4. CASE writer = m
    <2>1. WriterIsExact(m)
      BY <1>2, <1>4 DEF AtomicInv
    <2>2. call[m].ok
      BY <2>1, Zenon DEF WriterIsExact
    <2>3. db' = draft /\ draft # db /\ writer' = NoOne
      BY <1>1, <1>2, <1>4, <2>1, <2>2, ExactChanges
    <2>4. call[n] \in CallRec /\ call'[n] = [call[n] EXCEPT !.stale = TRUE]
      BY <1>1, <1>3, <2>3, RunningCalls DEF BaseInv
    <2>5. call'[n].stale
      BY <2>4 DEF CallRec
    <2> QED
      BY <2>3, <2>5, NobodyAssumption
  <1>5. CASE writer # m
    <2>1. UNCHANGED <<db, writer, draft>> /\ call'[n] = call[n]
      BY <1>1, <1>3, <1>5
    <2> QED
      BY <1>3, <2>1, ExactStays, WaitStays DEF AtomicInv
  <1> QED
    BY <1>4, <1>5

\* Whether mutations are refused is decided once.
LEMMA RefusalsFixed ==
  ASSUME [Next]_vars
  PROVE  refusals' = refusals
  <1>1. CASE Next
    <2>1. ASSUME NEW m \in Member, NEW op, NEW t \in Task, NEW todo, Begin(m, op, t, todo)
          PROVE  refusals' = refusals
      BY <2>1 DEF Begin
    <2>2. ASSUME NEW m \in Member, NEW t \in Task,
                 \/ ClaimTask(m, t) \/ ResetTask(m, t) \/ ApprovePlanTask(m, t)
                 \/ CompleteTask(m, t) \/ CancelTask(m, t)
          PROVE  refusals' = refusals
      BY <2>1, <2>2 DEF ClaimTask, ResetTask, ApprovePlanTask, CompleteTask, CancelTask
    <2>3. ASSUME NEW m \in Member, NEW t \in Task, NEW D \in SUBSET Task,
                 AddDependencies(m, t, D) \/ AddTask(m, t, D)
          PROVE  refusals' = refusals
      BY <2>1, <2>3 DEF AddDependencies, AddTask
    <2>4. ASSUME NEW m \in Member, ExecuteUnchecked(m) \/ ExecuteChecked(m) \/ Return(m)
          PROVE  refusals' = refusals
      BY <2>4 DEF ExecuteUnchecked, ExecuteChecked, Return
    <2> QED
      BY <1>1, <2>2, <2>3, <2>4 DEF Next
  <1>2. CASE UNCHANGED vars
    BY <1>2 DEF vars
  <1> QED
    BY <1>1, <1>2

\* Every step keeps both invariants.
LEMMA StepAtomic ==
  ASSUME DaoInv, [Next]_vars
  PROVE  DaoInv'
  <1>1. BaseInv'
    BY StepBase DEF DaoInv
  <1>2. refusals' = refusals
    BY RefusalsFixed
  <1>3. ASSUME ~ refusals PROVE AtomicInv'
    <2>1. BaseInv /\ AtomicInv
      BY <1>3 DEF DaoInv
    <2>2. CASE UNCHANGED vars
      <3>1. \A n \in Member : Running(n)' => Running(n)
        BY <2>2 DEF vars, Running
      <3>2. UNCHANGED <<db, writer, draft, call>>
        BY <2>2 DEF vars
      <3>3. ASSUME NEW n \in Member, Running(n)'
            PROVE  /\ writer' = n => WriterIsExact(n)'
                   /\ writer' # n /\ ~ call'[n].stale => OthersWait(n)'
        BY <2>1, <3>1, <3>2, <3>3, ExactStays, WaitStays DEF AtomicInv
      <3> QED
        BY <3>3 DEF AtomicInv
    <2>3. ASSUME NEW m \in Member, NEW t \in Task,
                 \/ ClaimTask(m, t) \/ ResetTask(m, t) \/ ApprovePlanTask(m, t)
                 \/ CompleteTask(m, t) \/ CancelTask(m, t)
          PROVE  AtomicInv'
      <3>1. AtStart(m)' /\ Permitted(m)' /\ \E op, todo : Begin(m, op, t, todo)
        BY <2>1, <2>3, BeginsOnRows
      <3> QED
        BY <2>1, <3>1, BeginAtomic
    <2>4. ASSUME NEW m \in Member, NEW t \in Task, NEW D \in SUBSET Task, AddDependencies(m, t, D)
          PROVE  AtomicInv'
      BY <2>1, <2>4, BeginAtomic DEF AddDependencies
    <2>5. ASSUME NEW m \in Member, NEW t \in Task, NEW D \in SUBSET Task, AddTask(m, t, D)
          PROVE  AtomicInv'
      BY <1>3, <2>1, <2>5, AddTaskAtomic
    <2>6. ASSUME NEW m \in Member, ExecuteUnchecked(m) \/ ExecuteChecked(m) \/ Return(m)
          PROVE  AtomicInv'
      BY <2>1, <2>6, UncheckedAtomic, CheckedAtomic, ReturnAtomic
    <2> QED
      BY <2>2, <2>3, <2>4, <2>5, <2>6 DEF Next
  <1> QED
    BY <1>1, <1>2, <1>3 DEF DaoInv

LEMMA InitAtomic == Init => DaoInv
  <1>1. ASSUME Init PROVE AtomicInv
    BY <1>1 DEF Init, AtomicInv, Running, Idle
  <1> QED
    BY <1>1, InitBase DEF DaoInv

\* As long as no mutation is rolled back, the writer's tables are exactly the committed
\* ones after the statements of its operation that it has executed, and no others have run.
THEOREM DaoInvariant == Spec => []DaoInv
  BY InitAtomic, StepAtomic, PTL DEF Spec

-----------------------------------------------------------------------------
(* A commit is an operation of the board.                                  *)

LEMMA RowCommit ==
  ASSUME BaseInv, NEW m \in Member, Running(m), call[m].op \in RowOps, Permitted(m),
         db' = Apply(db, RowOf(call[m].op, m, call[m].task))
  PROVE  \E t \in Task : TB!ClaimTask(t, m) \/ TB!ResetTask(t) \/ TB!ApprovePlanTask(t)
  <1> DEFINE t == call[m].task
  <1>1. t \in Task /\ db \in Tables
    BY RunningCalls DEF BaseInv, DaoTypeOK, CallRec
  <1>2. CASE call[m].op = "claim"
    <2>1. db' = [status |-> [db.status EXCEPT ![t] = "claimed"], assignee |-> [db.assignee EXCEPT ![t] = m],
                 deps |-> db.deps, resolved |-> db.resolved]
      BY <1>1, <1>2, RowApply DEF RowOf
    <2>2. TB!ClaimTask(t, m)
      BY <1>2, <2>1 DEF Permitted, TB!ClaimTask
    <2> QED
      BY <1>1, <2>2
  <1>3. CASE call[m].op = "reset"
    <2>1. db' = [status |-> [db.status EXCEPT ![t] = "pending"], assignee |-> [db.assignee EXCEPT ![t] = NoOne],
                 deps |-> db.deps, resolved |-> db.resolved]
      BY <1>1, <1>3, RowApply DEF RowOf
    <2>2. db.status[t] = "claimed"
      BY <1>3 DEF Permitted
    <2>3. TB!ResetTask(t)
      BY <2>1, <2>2 DEF TB!ResetTask, TB!IsValidTaskTransition, TB!Exists, TB!TaskTransitions
    <2> QED
      BY <1>1, <2>3
  <1>4. CASE call[m].op = "approve"
    <2>1. db' = [status |-> [db.status EXCEPT ![t] = "plan_approved"], assignee |-> db.assignee,
                 deps |-> db.deps, resolved |-> db.resolved]
      BY <1>1, <1>4, StatusApply DEF RowOf
    <2>2. TB!ApprovePlanTask(t)
      BY <1>4, <2>1 DEF Permitted, TB!ApprovePlanTask
    <2> QED
      BY <1>1, <2>2
  <1> QED
    BY <1>2, <1>3, <1>4 DEF RowOps

\* The three statements of terminateTaskInTx: the second gives these tables, the third
\* refreshes the tasks downstream.
IsRefreshOf(W, T, ids) ==
    W = [status |-> TB!RefreshStatus(T.status, T.deps, T.resolved, ids),
         assignee |-> T.assignee, deps |-> T.deps, resolved |-> T.resolved]

LEMMA EndApply ==
  ASSUME NEW T \in Tables, NEW t \in Task, NEW target \in TB!Terminal,
         NEW W, W = Apply(Apply(Apply(T, SetStatus(t, target)), Resolve(t)), Refresh(t))
  PROVE  \E U \in Tables :
           /\ U = [status |-> [T.status EXCEPT ![t] = target], assignee |-> T.assignee, deps |-> T.deps,
                   resolved |-> T.resolved \cup {e \in T.deps : e[2] = t}]
           /\ IsRefreshOf(W, U, Downstream(Task, U.deps, {t}))
  <1>1. PICK S, U : S = Apply(T, SetStatus(t, target)) /\ U = Apply(S, Resolve(t))
    OBVIOUS
  <1>2. S = [status |-> [T.status EXCEPT ![t] = target], assignee |-> T.assignee,
             deps |-> T.deps, resolved |-> T.resolved] /\ S \in Tables
    <2>1. S = [status |-> [T.status EXCEPT ![t] = target], assignee |-> T.assignee,
               deps |-> T.deps, resolved |-> T.resolved]
      BY <1>1, StatusApply
    <2> QED
      BY <2>1 DEF Tables, TB!Terminal, TB!TaskStatus
  <1>3. U \in Tables
    BY <1>1, <1>2, ResolveIsQuiet
  <1>4. U = [status |-> S.status, assignee |-> S.assignee, deps |-> S.deps,
             resolved |-> S.resolved \cup {e \in S.deps : e[2] = t}]
    BY <1>1, <1>2, ResolveApply
  <1>5. S.status = [T.status EXCEPT ![t] = target] /\ S.assignee = T.assignee
        /\ S.deps = T.deps /\ S.resolved = T.resolved
    BY <1>2
  <1>6. U = [status |-> [T.status EXCEPT ![t] = target], assignee |-> T.assignee, deps |-> T.deps,
             resolved |-> T.resolved \cup {e \in T.deps : e[2] = t}]
    BY <1>4, <1>5, Zenon
  <1>7. W = Apply(U, Refresh(t))
    BY <1>1, Zenon
  <1>8. IsRefreshOf(W, U, Downstream(Task, U.deps, {t}))
    BY <1>3, <1>7, RefreshApply, Zenon DEF IsRefreshOf
  <1> QED
    BY <1>3, <1>6, <1>8, Zenon

LEMMA EndCommit ==
  ASSUME BaseInv, NEW m \in Member, Running(m), call[m].op \in EndOps, Permitted(m),
         db' = LET t == call[m].task
               IN  Apply(Apply(Apply(db, SetStatus(t, TargetOf(call[m].op))), Resolve(t)), Refresh(t))
  PROVE  \E t \in Task : TB!CompleteTask(t) \/ TB!CancelTask(t)
  <1> DEFINE t == call[m].task
             target == TargetOf(call[m].op)
             st == [db.status EXCEPT ![t] = target]
             r == db.resolved \cup {e \in db.deps : e[2] = t}
  <1>1. t \in Task /\ db \in Tables /\ call[m] \in CallRec /\ Sound(db)
    BY RunningCalls DEF BaseInv, DaoTypeOK, TablesSound, CallRec
  <1>2. target \in TB!Terminal
    BY DEF TargetOf, TB!Terminal
  <1>3. PICK U \in Tables :
          /\ U = [status |-> st, assignee |-> db.assignee, deps |-> db.deps, resolved |-> r]
          /\ IsRefreshOf(db', U, Downstream(Task, U.deps, {t}))
    <2>1. db' = Apply(Apply(Apply(db, SetStatus(t, target)), Resolve(t)), Refresh(t))
      OBVIOUS
    <2> HIDE DEF target
    <2> QED
      BY <1>1, <1>2, <2>1, EndApply
  <1>4. db' = [status |-> TB!RefreshStatus(st, db.deps, r, Downstream(Task, db.deps, {t})),
               assignee |-> db.assignee, deps |-> db.deps, resolved |-> r]
    <2> HIDE DEF st, r
    <2>1. U.status = st /\ U.deps = db.deps /\ U.resolved = r /\ U.assignee = db.assignee
      BY <1>3
    <2> QED
      BY <1>3, <2>1 DEF IsRefreshOf
  <1>5. [x \in Task |-> IF x \in {t} THEN target ELSE db.status[x]] = st
    BY <1>1 DEF Tables
  <1>6. db.resolved \cup {e \in db.deps : e[2] \in {t}} = r
    OBVIOUS
  <1>7. TB!Downstream(Task, db.deps, {t}) = Downstream(Task, db.deps, {t})
    BY DEF TB!Downstream, Downstream
  <1>8. TB!TerminateTasks({t}, target)
    <2> HIDE DEF st, r, t, target
    <2>1. /\ db'.resolved = r
          /\ db'.status = TB!RefreshStatus(st, db.deps, r, Downstream(Task, db.deps, {t}))
          /\ db'.assignee = db.assignee /\ db'.deps = db.deps
      BY <1>4
    <2> QED
      BY <1>5, <1>6, <1>7, <2>1 DEF TB!TerminateTasks
  <1>9. TB!IsValidTaskTransition(t, target)
    BY DEF Permitted
  <1>10. CASE call[m].op = "complete"
    <2>1. target = "completed"
      BY <1>10 DEF TargetOf
    <2>2. TB!CompleteTask(t)
      BY <1>8, <1>9, <2>1 DEF TB!CompleteTask
    <2> QED
      BY <1>1, <2>2
  <1>11. CASE call[m].op = "cancel"
    <2>1. target = "cancelled"
      BY <1>11 DEF TargetOf
    <2>2. TB!CancelTask(t)
      BY <1>8, <1>9, <2>1 DEF TB!CancelTask
    <2> QED
      BY <1>1, <2>2
  <1> QED
    BY <1>10, <1>11 DEF EndOps

\* The mutation of the graph, as the board states it.
LEMMA EdgesCommit ==
  ASSUME db \in Tables, NEW new \in SUBSET Task, \A t \in new : db.status[t] = "absent",
         NEW staged \in Tables,
         staged = [status |-> [t \in Task |-> IF t \in new THEN "pending" ELSE db.status[t]],
                   assignee |-> db.assignee, deps |-> db.deps, resolved |-> db.resolved],
         NEW E \in SUBSET (Task \X Task), Valid(staged, E), db' = WithEdges(staged, E, new)
  PROVE  TB!MutateDependencyGraph(new, "pending", E)
  <1> DEFINE st == [t \in Task |-> IF t \in new THEN "pending" ELSE db.status[t]]
             d == db.deps \cup (E \ db.deps)
             r == db.resolved \cup {e \in E \ db.deps : st[e[2]] \in TB!Terminal}
  <1>1. staged.status = st /\ staged.assignee = db.assignee /\ staged.deps = db.deps /\ staged.resolved = db.resolved
    OBVIOUS
  <1>2. /\ db'.assignee = db.assignee /\ db'.deps = d
        /\ db'.status = TB!RefreshStatus(st, db'.deps, db'.resolved, new \cup Sources(Task, E \ db.deps))
        /\ db'.resolved = db.resolved \cup {e \in E \ db.deps : st[e[2]] \in TB!Terminal}
    <2>1. EdgesInserted(staged, E, new, db')
      BY EdgesApply, Zenon
    <2>2. Closed(staged, E) = {e \in E \ db.deps : st[e[2]] \in TB!Terminal}
      BY <1>1, Zenon DEF Closed
    <2> HIDE DEF st
    <2> QED
      BY <1>1, <2>1, <2>2, Zenon DEF EdgesInserted
  <1>3. db'.resolved = r
    BY <1>2
  <1>4. \A t \in new : ~ TB!Exists(t)
    BY DEF TB!Exists
  <1>5. /\ \A e \in E : TB!AcceptsDependencies(st[e[1]]) /\ st[e[2]] # "absent"
        /\ TB!Acyclic(Task, TB!CheckedEdges(E))
    <2> HIDE DEF st
    <2> QED
      BY <1>1 DEF Valid, TB!AcceptsDependencies, TB!CheckedEdges, TB!Acyclic, Acyclic
  <1>6. TB!Sources(Task, E \ db.deps) = Sources(Task, E \ db.deps)
    BY DEF TB!Sources, Sources
  <1>7. {e \in E \ db.deps : TB!InitialResolved(st[e[2]])} = {e \in E \ db.deps : st[e[2]] \in TB!Terminal}
    BY DEF TB!InitialResolved
  <1>8. /\ db'.deps = d /\ db'.resolved = r /\ db'.assignee = db.assignee
        /\ db'.status = TB!RefreshStatus(st, d, r, new \cup Sources(Task, E \ db.deps))
    <2> HIDE DEF st, d, r
    <2> QED
      BY <1>2, <1>3
  <1> QED
    BY <1>4, <1>5, <1>6, <1>7, <1>8 DEF TB!MutateDependencyGraph

LEMMA NoEdges ==
  ASSUME NEW T \in Tables, NEW t \in Task
  PROVE  WithEdges(T, {}, {t}) =
           [status |-> TB!RefreshStatus(T.status, T.deps, T.resolved, {t}),
            assignee |-> T.assignee, deps |-> T.deps, resolved |-> T.resolved]
  <1>1. PICK E, new, W : E = {} /\ new = {t} /\ W = WithEdges(T, E, new)
    OBVIOUS
  <1>2. W = WithEdges(T, E, new) /\ E \in SUBSET (Task \X Task)
    BY <1>1
  <1>3. EdgesInserted(T, E, new, W)
    BY <1>2, EdgesApply, Zenon
  <1>4. /\ W.assignee = T.assignee /\ W.deps = T.deps \cup (E \ T.deps) /\ W.resolved = T.resolved \cup Closed(T, E)
        /\ W.status = TB!RefreshStatus(T.status, W.deps, W.resolved, new \cup Sources(Task, E \ T.deps))
        /\ W = [status |-> W.status, assignee |-> W.assignee, deps |-> W.deps, resolved |-> W.resolved]
    BY <1>3, Zenon DEF EdgesInserted
  <1>5. /\ T.deps \cup (E \ T.deps) = T.deps /\ T.resolved \cup Closed(T, E) = T.resolved
        /\ new \cup Sources(Task, E \ T.deps) = {t}
    BY <1>1 DEF Sources, Closed
  <1> QED
    BY <1>1, <1>4, <1>5, Zenon

\* A new task without dependencies has nothing to wait for.
LEMMA LoneCommit ==
  ASSUME db \in Tables, Sound(db), NEW t \in Task, db.status[t] = "absent",
         db' = WithEdges([db EXCEPT !.status[t] = "pending"], {}, {t})
  PROVE  TB!CreateTask(t)
  <1> DEFINE staged == [db EXCEPT !.status[t] = "pending"]
             st == [db.status EXCEPT ![t] = "pending"]
  <1>1. staged = [status |-> st, assignee |-> db.assignee, deps |-> db.deps, resolved |-> db.resolved]
        /\ staged \in Tables
    BY NewRow
  <1> HIDE DEF staged
  <1>2. db' = WithEdges(staged, {}, {t}) /\ staged \in Tables
    BY <1>1 DEF staged
  <1>3. db' = [status |-> TB!RefreshStatus(staged.status, staged.deps, staged.resolved, {t}),
               assignee |-> staged.assignee, deps |-> staged.deps, resolved |-> staged.resolved]
    BY <1>2, NoEdges, Zenon
  <1>4. TB!RefreshStatus(st, db.deps, db.resolved, {t}) = st
    <2>1. \A u \in Task : <<t, u>> \notin db.deps
      BY DEF Sound
    <2>2. TB!Unresolved(db.deps, db.resolved, t) = {}
      BY <2>1 DEF TB!Unresolved, TB!Upstream
    <2>3. st \in [Task -> TB!TaskStatus \cup {"absent"}] /\ st[t] = "pending"
      BY <1>1 DEF Tables, TB!TaskStatus
    <2> HIDE DEF st
    <2> QED
      BY <2>2, <2>3 DEF TB!RefreshStatus
  <1>5. db' = [status |-> st, assignee |-> db.assignee, deps |-> db.deps, resolved |-> db.resolved]
    <2> HIDE DEF st
    <2>1. staged.status = st /\ staged.assignee = db.assignee /\ staged.deps = db.deps /\ staged.resolved = db.resolved
      BY <1>1
    <2> QED
      BY <1>3, <1>4, <2>1
  <1> QED
    BY <1>5 DEF TB!CreateTask, TB!Exists

LEMMA CommitIsBoardStep ==
  ASSUME BaseInv, NEW m \in Member, Running(m), WriterIsExact(m), call[m].todo = <<>>, db' = draft
  PROVE  TB!Next
  <1> DEFINE op == call[m].op
             t == call[m].task
             closed == Apply(db, SetStatus(t, TargetOf(op)))
             staged == [db EXCEPT !.status[t] = "pending"]
  <1>1. t \in Task /\ db \in Tables /\ Sound(db)
    BY RunningCalls DEF BaseInv, DaoTypeOK, TablesSound, CallRec
  <1>2. <<Resolve(t), Refresh(t)>> # <<>> /\ <<Refresh(t)>> # <<>>
    BY Lists
  <1>3. \/ op \in RowOps /\ Permitted(m) /\ draft = Apply(db, RowOf(op, m, t))
        \/ op \in EndOps /\ Permitted(m) /\ draft = Apply(Apply(closed, Resolve(t)), Refresh(t))
        \/ \E D \in SUBSET Task : /\ D # {} /\ Valid(db, {t} \X D)
                                  /\ draft = WithEdges(db, {t} \X D, {})
        \/ /\ db.status[t] = "absent"
           /\ \E D \in SUBSET Task : /\ Valid(staged, {t} \X D)
                                     /\ draft = WithEdges(staged, {t} \X D, {t})
    BY <1>2, Zenon DEF WriterIsExact
  <1>4. CASE op \in RowOps /\ Permitted(m) /\ draft = Apply(db, RowOf(op, m, t))
    BY <1>4, RowCommit DEF TB!Next
  <1>5. CASE op \in EndOps /\ Permitted(m) /\ draft = Apply(Apply(closed, Resolve(t)), Refresh(t))
    BY <1>5, EndCommit DEF TB!Next
  <1>6. ASSUME NEW D \in SUBSET Task, D # {}, Valid(db, {t} \X D), db' = WithEdges(db, {t} \X D, {})
        PROVE  TB!Next
    <2>1. db = [status |-> [x \in Task |-> IF x \in {} THEN "pending" ELSE db.status[x]],
                assignee |-> db.assignee, deps |-> db.deps, resolved |-> db.resolved]
      BY <1>1 DEF Tables
    <2>2. {t} \X D \in SUBSET (Task \X Task)
      BY <1>1
    <2>3. TB!MutateDependencyGraph({}, "pending", {t} \X D)
      BY <1>1, <1>6, <2>1, <2>2, EdgesCommit
    <2>4. TB!AddDependencies(t, D)
      BY <1>6, <2>3 DEF TB!AddDependencies
    <2> QED
      BY <1>1, <2>4 DEF TB!Next
  <1>7. ASSUME db.status[t] = "absent",
               NEW D \in SUBSET Task, Valid(staged, {t} \X D), db' = WithEdges(staged, {t} \X D, {t})
        PROVE  TB!Next
    <2>1. TB!Add(t, D)
      <3>1. CASE D = {}
        <4>1. {t} \X D = {}
          BY <3>1
        <4>2. TB!CreateTask(t)
          BY <1>1, <1>7, <4>1, LoneCommit
        <4> QED
          BY <3>1, <4>2 DEF TB!Add
      <3>2. CASE D # {}
        <4>1. staged = [status |-> [x \in Task |-> IF x \in {t} THEN "pending" ELSE db.status[x]],
                        assignee |-> db.assignee, deps |-> db.deps, resolved |-> db.resolved]
              /\ staged \in Tables
          <5>1. staged = [status |-> [db.status EXCEPT ![t] = "pending"], assignee |-> db.assignee,
                          deps |-> db.deps, resolved |-> db.resolved] /\ staged \in Tables
            BY <1>1, <1>7, NewRow
          <5>2. [db.status EXCEPT ![t] = "pending"] = [x \in Task |-> IF x \in {t} THEN "pending" ELSE db.status[x]]
            BY <1>1 DEF Tables
          <5> QED
            BY <5>1, <5>2
        <4>2. {t} \X D \in SUBSET (Task \X Task) /\ {t} \in SUBSET Task
          BY <1>1
        <4> HIDE DEF staged
        <4>3. TB!MutateDependencyGraph({t}, "pending", {t} \X D)
          BY <1>1, <1>7, <4>1, <4>2, EdgesCommit
        <4> QED
          BY <3>2, <4>3 DEF TB!Add
      <3> QED
        BY <3>1, <3>2
    <2> QED
      BY <1>1, <2>1 DEF TB!Next
  <1> QED
    BY <1>3, <1>4, <1>5, <1>6, <1>7

\* As long as no mutation is rolled back, the database implements the atomic operations of
\* TaskBoard: each commit of sql_task_dao.go is one of them, and all else changes nothing.
THEOREM DaoImplementsBoard == Spec => ImplementsBoard
  <1>1. Init => TB!Init
    BY DEF Init, TB!Init
  <1>2. DaoInv /\ [Next]_vars => [refusals \/ TB!Next]_db
    <2> SUFFICES ASSUME DaoInv, [Next]_vars, ~ refusals, db' # db
                 PROVE  TB!Next
      OBVIOUS
    <2>1. PICK m \in Member : /\ Running(m) /\ call[m].todo = <<>>
                              /\ writer = m /\ call[m].ok /\ db' = draft
      BY OnlyCommitsChange DEF DaoInv
    <2>2. WriterIsExact(m)
      BY <2>1 DEF DaoInv, AtomicInv
    <2> QED
      BY <2>1, <2>2, CommitIsBoardStep DEF DaoInv
  <1> QED
    BY DaoInvariant, <1>1, <1>2, PTL DEF Spec, ImplementsBoard

-----------------------------------------------------------------------------
(* The invariants of the board, of the committed tables themselves.        *)

\* Each column of the tables is right about the others: the flag of an edge about the
\* status of its upstream task, work and ends about the dependencies, the assignee and
\* the status "blocked" about the row itself.
FlagsRight(T) ==
    T.resolved \subseteq T.deps
    /\ \A e \in T.deps : e \in T.resolved <=> T.status[e[2]] \in TB!Terminal

WorkRight(T) ==
    \A e \in T.deps : T.status[e[1]] \in TB!InProgress \cup {"completed"}
        => T.status[e[2]] \in TB!Terminal

OwnerRight(T, t) ==
    /\ T.status[t] \in TB!InProgress \cup {"completed"} => T.assignee[t] # NoOne
    /\ T.status[t] \in TB!Waiting \cup {"absent"} => T.assignee[t] = NoOne

BlockedRight(T, t) ==
    T.status[t] \in TB!Waiting =>
        (T.status[t] = "blocked" <=> \E u \in Task : <<t, u>> \in T.deps /\ <<t, u>> \notin T.resolved)

\* Before the refresh at its end a transaction may have tasks that are wrongly blocked or
\* wrongly pending: those it is about to refresh.
RightExcept(T, ids) ==
    /\ FlagsRight(T) /\ WorkRight(T)
    /\ \A t \in Task : OwnerRight(T, t)
    /\ \A t \in Task : t \notin ids => BlockedRight(T, t)

BoardRight(T) == RightExcept(T, {})

\* A task it is asked for gets the status its unresolved edges call for.
IsRefreshed(new, d, r, t) ==
    new[t] = "blocked" <=> \E u \in Task : <<t, u>> \in d /\ <<t, u>> \notin r

LEMMA RefreshedStatus ==
  ASSUME NEW st \in [Task -> TB!TaskStatus \cup {"absent"}], NEW d, NEW r, NEW ids,
         NEW new, new = TB!RefreshStatus(st, d, r, ids), NEW t \in Task
  PROVE  /\ t \notin ids => new[t] = st[t]
         /\ t \in ids /\ st[t] \in TB!Waiting => IsRefreshed(new, d, r, t)
  BY DEF IsRefreshed, TB!RefreshStatus, TB!Unresolved, TB!Upstream, TB!Waiting

\* refreshStatusInTx puts the statuses it is asked for right and spoils nothing else.
LEMMA RefreshRight ==
  ASSUME NEW T \in Tables, NEW W, NEW ids, RightExcept(T, ids), IsRefreshOf(W, T, ids)
  PROVE  BoardRight(W)
  <1>1. PICK new : new = TB!RefreshStatus(T.status, T.deps, T.resolved, ids)
    OBVIOUS
  <1>2. W.status = new /\ W.assignee = T.assignee /\ W.deps = T.deps /\ W.resolved = T.resolved
    BY <1>1 DEF IsRefreshOf
  <1>3. T.status \in [Task -> TB!TaskStatus \cup {"absent"}] /\ \A e \in T.deps : e[1] \in Task /\ e[2] \in Task
    BY DEF Tables
  <1>4. /\ \A t \in Task : T.status[t] \notin TB!Waiting => new[t] = T.status[t]
        /\ \A t \in Task : T.status[t] \in TB!Waiting => new[t] \in TB!Waiting
    BY <1>1, <1>3, RefreshedIsQuiet
  <1>5. FlagsRight(W)
    <2>1. \A t \in Task : new[t] \in TB!Terminal <=> T.status[t] \in TB!Terminal
      BY <1>4 DEF TB!Waiting, TB!Terminal
    <2> QED
      BY <1>2, <1>3, <2>1 DEF RightExcept, FlagsRight
  <1>6. WorkRight(W)
    BY <1>2, <1>3, <1>4 DEF RightExcept, WorkRight, TB!Waiting, TB!Terminal, TB!InProgress
  <1>7. ASSUME NEW t \in Task PROVE OwnerRight(W, t)
    <2>1. OwnerRight(T, t)
      BY DEF RightExcept
    <2> QED
      BY <1>2, <1>4, <2>1 DEF OwnerRight, TB!Waiting, TB!InProgress
  <1>8. ASSUME NEW t \in Task, W.status[t] \in TB!Waiting PROVE BlockedRight(W, t)
    <2>1. T.status[t] \in TB!Waiting
      BY <1>2, <1>4, <1>8
    <2>2. CASE t \in ids
      <3>1. IsRefreshed(new, T.deps, T.resolved, t)
        BY <1>1, <1>3, <2>1, <2>2, RefreshedStatus
      <3> QED
        BY <1>2, <3>1 DEF BlockedRight, IsRefreshed
    <2>3. CASE t \notin ids
      <3>1. new[t] = T.status[t]
        BY <1>1, <1>3, <2>3, RefreshedStatus
      <3>2. BlockedRight(T, t)
        BY <2>3 DEF RightExcept
      <3> QED
        BY <1>2, <3>1, <3>2 DEF BlockedRight
    <2> QED
      BY <2>2, <2>3
  <1>9. \A t \in Task : BlockedRight(W, t)
    BY <1>8 DEF BlockedRight
  <1> QED
    BY <1>5, <1>6, <1>7, <1>9 DEF BoardRight, RightExcept

\* The tables T with another status and owner in one row.
IsRowOf(W, T, t, target, owner) ==
    W = [status |-> [T.status EXCEPT ![t] = target], assignee |-> [T.assignee EXCEPT ![t] = owner],
         deps |-> T.deps, resolved |-> T.resolved]

\* A claim, a reset and an approval: the row of a task without open upstream tasks.
LEMMA RowRight ==
  ASSUME NEW T \in Tables, NEW W, BoardRight(T), NEW t \in Task, NEW owner,
         NEW target \in {"pending", "claimed", "plan_approved"},
         T.status[t] \in {"pending", "claimed", "plan_approved"},
         owner = NoOne <=> target = "pending", IsRowOf(W, T, t, target, owner)
  PROVE  BoardRight(W)
  <1>1. /\ W.deps = T.deps /\ W.resolved = T.resolved
        /\ W.status[t] = target /\ W.assignee[t] = owner
        /\ \A x \in Task : x # t => W.status[x] = T.status[x] /\ W.assignee[x] = T.assignee[x]
    BY DEF IsRowOf, Tables
  <1>2. \A e \in T.deps : e[1] \in Task /\ e[2] \in Task /\ e = <<e[1], e[2]>>
    BY DEF Tables
  <1>3. \A x \in Task : W.status[x] \in TB!Terminal <=> T.status[x] \in TB!Terminal
    BY <1>1 DEF TB!Terminal
  <1>4. FlagsRight(T) /\ WorkRight(T) /\ BlockedRight(T, t)
    BY DEF BoardRight, RightExcept
  <1>5. \A u \in Task : <<t, u>> \in T.deps => <<t, u>> \in T.resolved
    <2>1. CASE T.status[t] = "pending"
      BY <1>4, <2>1 DEF BlockedRight, TB!Waiting
    <2>2. CASE T.status[t] \in {"claimed", "plan_approved"}
      BY <1>4, <2>2 DEF FlagsRight, WorkRight, TB!InProgress
    <2> QED
      BY <2>1, <2>2
  <1>6. FlagsRight(W)
    BY <1>1, <1>2, <1>3, <1>4 DEF FlagsRight
  <1>7. ASSUME NEW e \in W.deps, W.status[e[1]] \in TB!InProgress \cup {"completed"}
        PROVE  W.status[e[2]] \in TB!Terminal
    <2>1. T.status[e[2]] \in TB!Terminal
      <3>1. CASE e[1] = t
        BY <1>1, <1>2, <1>4, <1>5, <3>1 DEF FlagsRight
      <3>2. CASE e[1] # t
        BY <1>1, <1>2, <1>4, <1>7, <3>2 DEF WorkRight
      <3> QED
        BY <3>1, <3>2
    <2> QED
      BY <1>1, <1>2, <1>3, <2>1
  <1>8. ASSUME NEW x \in Task PROVE OwnerRight(W, x)
    <2>1. OwnerRight(T, x)
      BY DEF BoardRight, RightExcept
    <2> QED
      BY <1>1, <2>1 DEF OwnerRight, TB!Waiting, TB!InProgress
  <1>9. ASSUME NEW x \in Task PROVE BlockedRight(W, x)
    <2>1. BlockedRight(T, x)
      BY DEF BoardRight, RightExcept
    <2> QED
      BY <1>1, <1>5, <2>1 DEF BlockedRight
  <1> QED
    BY <1>6, <1>7, <1>8, <1>9 DEF BoardRight, RightExcept, WorkRight

\* terminateTaskInTx, its three statements together.
LEMMA EndRight ==
  ASSUME NEW T \in Tables, BoardRight(T), NEW t \in Task, NEW target \in TB!Terminal, NEW W,
         T.status[t] \in TB!Waiting \cup TB!InProgress,
         target = "completed" => T.status[t] \in TB!InProgress,
         W = Apply(Apply(Apply(T, SetStatus(t, target)), Resolve(t)), Refresh(t))
  PROVE  BoardRight(W)
  <1>1. PICK U \in Tables :
          /\ U = [status |-> [T.status EXCEPT ![t] = target], assignee |-> T.assignee, deps |-> T.deps,
                  resolved |-> T.resolved \cup {e \in T.deps : e[2] = t}]
          /\ IsRefreshOf(W, U, Downstream(Task, U.deps, {t}))
    BY EndApply
  <1>2. /\ U.status[t] = target /\ U.assignee = T.assignee /\ U.deps = T.deps
        /\ \A x \in Task : x # t => U.status[x] = T.status[x]
    BY <1>1 DEF Tables
  <1>3. \A e \in T.deps : /\ e[1] \in Task /\ e[2] \in Task
                          /\ e \in U.resolved <=> e \in T.resolved \/ e[2] = t
    BY <1>1 DEF Tables
  <1>4. FlagsRight(T) /\ WorkRight(T) /\ \A x \in Task : OwnerRight(T, x) /\ BlockedRight(T, x)
    BY DEF BoardRight, RightExcept
  <1>5. \A x \in Task : U.status[x] \in TB!Terminal <=> x = t \/ T.status[x] \in TB!Terminal
    BY <1>2
  <1>6. FlagsRight(U)
    <2>1. U.resolved \subseteq U.deps
      BY <1>1, <1>4 DEF FlagsRight
    <2>2. \A e \in T.deps : e \in U.resolved <=> U.status[e[2]] \in TB!Terminal
      BY <1>3, <1>4, <1>5 DEF FlagsRight
    <2> QED
      BY <1>2, <2>1, <2>2 DEF FlagsRight
  <1>7. ASSUME NEW e \in U.deps, U.status[e[1]] \in TB!InProgress \cup {"completed"}
        PROVE  U.status[e[2]] \in TB!Terminal
    <2>1. T.status[e[1]] \in TB!InProgress \cup {"completed"}
      BY <1>2, <1>3, <1>7 DEF TB!Terminal, TB!InProgress
    <2> QED
      BY <1>2, <1>3, <1>4, <1>5, <2>1 DEF WorkRight
  <1>8. ASSUME NEW x \in Task PROVE OwnerRight(U, x)
    BY <1>2, <1>4 DEF OwnerRight, TB!Terminal, TB!Waiting, TB!InProgress
  <1>9. ASSUME NEW x \in Task, x \notin Downstream(Task, U.deps, {t}) PROVE BlockedRight(U, x)
    <2>1. \A u \in Task : <<x, u>> \in T.deps => u # t
      BY <1>2, <1>9 DEF Downstream
    <2>2. \A u \in Task : <<x, u>> \in T.deps => (<<x, u>> \in U.resolved <=> <<x, u>> \in T.resolved)
      BY <1>3, <2>1
    <2>3. CASE x = t
      BY <1>2, <2>3 DEF BlockedRight, TB!Terminal, TB!Waiting
    <2>4. CASE x # t
      BY <1>2, <1>4, <2>2, <2>4 DEF BlockedRight
    <2> QED
      BY <2>3, <2>4
  <1>10. RightExcept(U, Downstream(Task, U.deps, {t}))
    BY <1>6, <1>7, <1>8, <1>9 DEF RightExcept, WorkRight
  <1> QED
    BY <1>1, <1>10, RefreshRight

\* The row of a new task, which no edge names yet.
LEMMA NewRowRight ==
  ASSUME NEW T \in Tables, Sound(T), BoardRight(T), NEW t \in Task, T.status[t] = "absent", NEW U,
         U = [T EXCEPT !.status[t] = "pending"]
  PROVE  BoardRight(U)
  <1>1. U = [status |-> [T.status EXCEPT ![t] = "pending"], assignee |-> T.assignee,
             deps |-> T.deps, resolved |-> T.resolved]
    BY NewRow
  <1>2. /\ U.status[t] = "pending" /\ U.assignee = T.assignee /\ U.deps = T.deps /\ U.resolved = T.resolved
        /\ \A x \in Task : x # t => U.status[x] = T.status[x]
    BY <1>1 DEF Tables
  <1>3. \A e \in T.deps : e[1] \in Task /\ e[2] \in Task /\ e[1] # t /\ e[2] # t
    BY DEF Tables, Sound
  <1>4. \A u \in Task : <<t, u>> \notin T.deps
    BY DEF Sound
  <1>5. FlagsRight(T) /\ WorkRight(T) /\ \A x \in Task : OwnerRight(T, x) /\ BlockedRight(T, x)
    BY DEF BoardRight, RightExcept
  <1>6. FlagsRight(U) /\ WorkRight(U)
    BY <1>2, <1>3, <1>5 DEF FlagsRight, WorkRight
  <1>7. ASSUME NEW x \in Task PROVE OwnerRight(U, x)
    BY <1>2, <1>5 DEF OwnerRight, TB!Waiting, TB!InProgress
  <1>8. ASSUME NEW x \in Task PROVE BlockedRight(U, x)
    BY <1>2, <1>4, <1>5 DEF BlockedRight
  <1> QED
    BY <1>6, <1>7, <1>8 DEF BoardRight, RightExcept

\* New edges that the validation accepted, and the refresh of those who got one.
LEMMA EdgesRight ==
  ASSUME NEW T \in Tables, BoardRight(T), NEW new \in SUBSET Task, NEW E \in SUBSET (Task \X Task),
         Valid(T, E), NEW W, W = WithEdges(T, E, new)
  PROVE  BoardRight(W)
  <1>1. PICK ids, d, r : /\ ids = new \cup Sources(Task, E \ T.deps)
                         /\ d = T.deps \cup (E \ T.deps) /\ r = T.resolved \cup Closed(T, E)
    OBVIOUS
  <1>2. PICK U : U = [status |-> T.status, assignee |-> T.assignee, deps |-> d, resolved |-> r]
    OBVIOUS
  <1>3. /\ U \in Tables
        /\ U.status = T.status /\ U.assignee = T.assignee /\ U.deps = d /\ U.resolved = r
    BY <1>1, <1>2 DEF Tables, Closed
  <1>4. IsRefreshOf(W, U, ids)
    <2>1. EdgesInserted(T, E, new, W)
      BY EdgesApply, Zenon
    <2>2. /\ W.assignee = T.assignee /\ W.deps = d /\ W.resolved = r
          /\ W.status = TB!RefreshStatus(T.status, W.deps, W.resolved, ids)
          /\ W = [status |-> W.status, assignee |-> W.assignee, deps |-> W.deps, resolved |-> W.resolved]
      BY <1>1, <2>1, Zenon DEF EdgesInserted
    <2> QED
      BY <1>3, <2>2, Zenon DEF IsRefreshOf
  <1>5. FlagsRight(T) /\ WorkRight(T) /\ \A x \in Task : OwnerRight(T, x) /\ BlockedRight(T, x)
    BY DEF BoardRight, RightExcept
  <1>6. ASSUME NEW e \in E \ T.deps
        PROVE  /\ T.status[e[1]] \in TB!Waiting
               /\ e \in r <=> T.status[e[2]] \in TB!Terminal
    BY <1>1, <1>5, <1>6 DEF Valid, FlagsRight, Closed
  <1>7. ASSUME NEW e \in T.deps
        PROVE  e \in r <=> e \in T.resolved
    BY <1>1, <1>7 DEF Closed
  <1>8. FlagsRight(U)
    <2>1. r \subseteq d
      BY <1>1, <1>5 DEF FlagsRight, Closed
    <2>2. \A e \in d : e \in r <=> T.status[e[2]] \in TB!Terminal
      BY <1>1, <1>5, <1>6, <1>7 DEF FlagsRight
    <2> QED
      BY <1>3, <2>1, <2>2 DEF FlagsRight
  <1>9. WorkRight(U)
    <2>1. \A e \in E \ T.deps : T.status[e[1]] \notin TB!InProgress \cup {"completed"}
      BY <1>6 DEF TB!Waiting, TB!InProgress
    <2> QED
      BY <1>1, <1>3, <1>5, <2>1 DEF WorkRight
  <1>10. ASSUME NEW x \in Task PROVE OwnerRight(U, x)
    BY <1>3, <1>5 DEF OwnerRight
  <1>11. ASSUME NEW x \in Task, x \notin ids PROVE BlockedRight(U, x)
    <2>1. \A u \in Task : <<x, u>> \notin E \ T.deps
      BY <1>1, <1>11 DEF Sources
    <2>2. \A u \in Task : /\ <<x, u>> \in d <=> <<x, u>> \in T.deps
                          /\ <<x, u>> \in T.deps => (<<x, u>> \in r <=> <<x, u>> \in T.resolved)
      BY <1>1, <1>7, <2>1
    <2> QED
      BY <1>3, <1>5, <2>2 DEF BlockedRight
  <1>12. RightExcept(U, ids)
    BY <1>8, <1>9, <1>10, <1>11 DEF RightExcept
  <1> QED
    BY <1>3, <1>4, <1>12, RefreshRight

\* Every commit keeps the columns right: it is one of the operations above.
LEMMA CommitRight ==
  ASSUME BaseInv, NEW m \in Member, Running(m), WriterIsExact(m), call[m].todo = <<>>, BoardRight(db)
  PROVE  BoardRight(draft)
  <1> DEFINE op == call[m].op
             t == call[m].task
             closed == Apply(db, SetStatus(t, TargetOf(op)))
             staged == [db EXCEPT !.status[t] = "pending"]
  <1>1. t \in Task /\ db \in Tables /\ Sound(db)
    BY RunningCalls DEF BaseInv, DaoTypeOK, TablesSound, CallRec
  <1>2. <<Resolve(t), Refresh(t)>> # <<>> /\ <<Refresh(t)>> # <<>>
    BY Lists
  <1>3. \/ op \in RowOps /\ Permitted(m) /\ draft = Apply(db, RowOf(op, m, t))
        \/ op \in EndOps /\ Permitted(m) /\ draft = Apply(Apply(closed, Resolve(t)), Refresh(t))
        \/ \E D \in SUBSET Task : /\ D # {} /\ Valid(db, {t} \X D)
                                  /\ draft = WithEdges(db, {t} \X D, {})
        \/ /\ db.status[t] = "absent"
           /\ \E D \in SUBSET Task : /\ Valid(staged, {t} \X D)
                                     /\ draft = WithEdges(staged, {t} \X D, {t})
    BY <1>2, Zenon DEF WriterIsExact
  <1>4. ASSUME NEW target, TB!IsValidTaskTransition(t, target)
        PROVE  /\ target = "claimed" => db.status[t] = "pending"
               /\ target = "plan_approved" => db.status[t] = "claimed"
               /\ target = "completed" => db.status[t] \in TB!InProgress
               /\ target = "cancelled" => db.status[t] \in TB!Waiting \cup TB!InProgress
    <2>1. db.status[t] \in TB!TaskStatus \cup {"absent"}
      BY <1>1 DEF Tables
    <2> QED
      BY <1>4, <2>1 DEF TB!IsValidTaskTransition, TB!Exists, TB!TaskTransitions, TB!TaskStatus,
                        TB!InProgress, TB!Waiting
  <1>5. CASE op \in RowOps /\ Permitted(m) /\ draft = Apply(db, RowOf(op, m, t))
    <2>1. CASE op = "claim"
      <3>1. IsRowOf(draft, db, t, "claimed", m)
        BY <1>1, <1>5, <2>1, RowApply DEF RowOf, IsRowOf
      <3>2. db.status[t] = "pending" /\ m # NoOne
        BY <1>4, <1>5, <2>1, NobodyAssumption DEF Permitted
      <3> QED
        BY <1>1, <3>1, <3>2, RowRight
    <2>2. CASE op = "reset"
      <3>1. IsRowOf(draft, db, t, "pending", NoOne)
        BY <1>1, <1>5, <2>2, RowApply DEF RowOf, IsRowOf
      <3>2. db.status[t] = "claimed"
        BY <1>5, <2>2 DEF Permitted
      <3> QED
        BY <1>1, <3>1, <3>2, RowRight
    <2>3. CASE op = "approve"
      <3>1. draft = [status |-> [db.status EXCEPT ![t] = "plan_approved"], assignee |-> db.assignee,
                     deps |-> db.deps, resolved |-> db.resolved]
        BY <1>1, <1>5, <2>3, StatusApply DEF RowOf
      <3>2. db.status[t] = "claimed"
        BY <1>4, <1>5, <2>3 DEF Permitted
      <3>3. PICK owner : owner = db.assignee[t]
        OBVIOUS
      <3>4. owner # NoOne /\ [db.assignee EXCEPT ![t] = owner] = db.assignee
        BY <1>1, <3>2, <3>3 DEF BoardRight, RightExcept, OwnerRight, TB!InProgress, Tables
      <3>5. IsRowOf(draft, db, t, "plan_approved", owner)
        BY <3>1, <3>4, Zenon DEF IsRowOf
      <3> QED
        BY <1>1, <3>2, <3>4, <3>5, RowRight
    <2> QED
      BY <1>5, <2>1, <2>2, <2>3 DEF RowOps
  <1>6. CASE op \in EndOps /\ Permitted(m) /\ draft = Apply(Apply(closed, Resolve(t)), Refresh(t))
    <2>1. PICK target : target = TargetOf(op)
      OBVIOUS
    <2>2. draft = Apply(Apply(Apply(db, SetStatus(t, target)), Resolve(t)), Refresh(t))
      BY <1>6, <2>1, Zenon
    <2>3. TB!IsValidTaskTransition(t, target) /\ target \in {"completed", "cancelled"}
      BY <1>6, <2>1 DEF Permitted, TargetOf
    <2>4. /\ target \in TB!Terminal /\ db.status[t] \in TB!Waiting \cup TB!InProgress
          /\ target = "completed" => db.status[t] \in TB!InProgress
      BY <1>4, <2>3 DEF TB!Terminal
    <2> QED
      BY <1>1, <2>2, <2>4, EndRight
  <1>7. ASSUME NEW D \in SUBSET Task, Valid(db, {t} \X D), draft = WithEdges(db, {t} \X D, {})
        PROVE  BoardRight(draft)
    <2>1. {t} \X D \in SUBSET (Task \X Task) /\ {} \in SUBSET Task
      BY <1>1
    <2> QED
      BY <1>1, <1>7, <2>1, EdgesRight
  <1>8. ASSUME db.status[t] = "absent",
               NEW D \in SUBSET Task, Valid(staged, {t} \X D), draft = WithEdges(staged, {t} \X D, {t})
        PROVE  BoardRight(draft)
    <2>1. {t} \X D \in SUBSET (Task \X Task) /\ {t} \in SUBSET Task
      BY <1>1
    <2>2. staged \in Tables
      BY <1>1, <1>8, NewRow
    <2>3. BoardRight(staged)
      BY <1>1, <1>8, NewRowRight
    <2> HIDE DEF staged
    <2> QED
      BY <1>8, <2>1, <2>2, <2>3, EdgesRight
  <1> QED
    BY <1>3, <1>5, <1>6, <1>7, <1>8

\* What right columns say, in the words of the board.
LEMMA RightIsBoard ==
  ASSUME BaseInv, BoardRight(db)
  PROVE  /\ TB!TypeOK /\ TB!ResolvedIffUpstreamTerminal /\ TB!BlockedIffUpstreamOpen
         /\ TB!WorkFollowsDependencies /\ TB!OwnedIffStarted /\ TB!DependenciesAcyclic
         /\ TB!NeverAllBlocked
  <1>1. db \in Tables /\ Sound(db)
    BY DEF BaseInv, DaoTypeOK, TablesSound
  <1>2. FlagsRight(db) /\ WorkRight(db) /\ \A t \in Task : OwnerRight(db, t) /\ BlockedRight(db, t)
    BY DEF BoardRight, RightExcept
  <1>3. TB!TypeOK
    BY <1>1, <1>2 DEF Tables, FlagsRight, TB!TypeOK
  <1>4. TB!ResolvedIffUpstreamTerminal
    BY <1>2 DEF FlagsRight, TB!ResolvedIffUpstreamTerminal
  <1>5. ASSUME NEW t \in Task, db.status[t] \in TB!Waiting
        PROVE  db.status[t] = "blocked" <=> \E u \in Task : <<t, u>> \in db.deps /\ db.status[u] \notin TB!Terminal
    <2>1. \A u \in Task : <<t, u>> \in db.deps => (<<t, u>> \in db.resolved <=> db.status[u] \in TB!Terminal)
      BY <1>2 DEF FlagsRight
    <2> QED
      BY <1>2, <1>5, <2>1 DEF BlockedRight
  <1>6. TB!BlockedIffUpstreamOpen
    BY <1>5 DEF TB!BlockedIffUpstreamOpen, TB!Upstream
  <1>7. TB!WorkFollowsDependencies
    BY <1>2 DEF WorkRight, TB!WorkFollowsDependencies, TB!Upstream
  <1>8. TB!OwnedIffStarted
    BY <1>2 DEF OwnerRight, TB!OwnedIffStarted
  <1>9. TB!DependenciesAcyclic
    BY <1>1 DEF Sound, TB!DependenciesAcyclic, TB!Exists, Acyclic, TB!Acyclic
  <1>10. TB!NeverAllBlocked
    <2> DEFINE S == {t \in Task : db.status[t] # "absent" /\ db.status[t] \notin TB!Terminal}
    <2> SUFFICES ASSUME S # {}
                 PROVE  \E t \in Task : db.status[t] \in {"pending"} \cup TB!InProgress
      BY DEF TB!NeverAllBlocked, TB!Exists
    <2>1. PICK t \in S : \A u \in S : <<t, u>> \notin db.deps
      BY <1>1 DEF Sound, Acyclic
    <2>2. \A u \in Task : <<t, u>> \in db.deps => db.status[u] \in TB!Terminal
      BY <1>1, <2>1 DEF Sound
    <2>3. db.status[t] # "blocked"
      BY <1>5, <2>1, <2>2 DEF TB!Waiting
    <2>4. db.status[t] \in TB!TaskStatus
      BY <1>1, <2>1 DEF Tables
    <2> QED
      BY <2>1, <2>3, <2>4 DEF TB!TaskStatus, TB!Terminal, TB!InProgress
  <1> QED
    BY <1>3, <1>4, <1>6, <1>7, <1>8, <1>9, <1>10

\* As long as no mutation is rolled back, the committed columns are right about each other.
LEMMA RightStep ==
  ASSUME DaoInv, [Next]_vars, ~ refusals => BoardRight(db)
  PROVE  ~ refusals' => BoardRight(db')
  <1>1. refusals' = refusals
    BY RefusalsFixed
  <1> SUFFICES ASSUME ~ refusals PROVE BoardRight(db')
    BY <1>1
  <1>2. CASE db' = db
    BY <1>2
  <1>3. CASE db' # db
    <2>1. PICK m \in Member : /\ Running(m) /\ call[m].todo = <<>>
                              /\ writer = m /\ call[m].ok /\ db' = draft
      BY <1>3, OnlyCommitsChange DEF DaoInv
    <2>2. WriterIsExact(m)
      BY <2>1 DEF DaoInv, AtomicInv
    <2>3. BoardRight(draft)
      BY <2>1, <2>2, CommitRight DEF DaoInv
    <2> QED
      BY <2>1, <2>3
  <1> QED
    BY <1>2, <1>3

LEMMA RightInit == Init => BoardRight(db)
  <1> SUFFICES ASSUME Init PROVE BoardRight(db)
    OBVIOUS
  <1>1. /\ db.deps = {} /\ db.resolved = {}
        /\ \A t \in Task : db.status[t] = "absent" /\ db.assignee[t] = NoOne
    BY DEF Init
  <1> QED
    BY <1>1 DEF BoardRight, RightExcept, FlagsRight, WorkRight, OwnerRight, BlockedRight,
                TB!Waiting, TB!InProgress

LEMMA RightAlways == Spec => [](~ refusals => BoardRight(db))
  <1> DEFINE Right == ~ refusals => BoardRight(db)
  <1>1. Init => Right
    BY RightInit
  <1>2. DaoInv /\ Right /\ [Next]_vars => Right'
    BY RightStep
  <1> HIDE DEF Right
  <1>3. Spec => []Right
    BY <1>1, <1>2, DaoInvariant, PTL DEF Spec
  <1> QED
    BY <1>3 DEF Right

\* What the board promises is true of the committed rows of the two tables, although each
\* operation is several statements and SQLite may refuse any of them: no task is blocked
\* or free without reason (refreshStatusInTx), no flag of an edge is wrong
\* (terminateTaskInTx), work follows the dependencies, the assignee fits the status, and
\* some open task can always be worked on.
THEOREM DaoKeepsBoard ==
  Spec => [](~ refusals =>
               /\ TB!TypeOK /\ TB!ResolvedIffUpstreamTerminal /\ TB!BlockedIffUpstreamOpen
               /\ TB!WorkFollowsDependencies /\ TB!OwnedIffStarted /\ TB!DependenciesAcyclic
               /\ TB!NeverAllBlocked)
  BY DaoBase, RightAlways, RightIsBoard, PTL

\* A claimable row turns blocked only in a commit that gives it an edge onto an open task,
\* never because of what other transactions end or refresh.
THEOREM DaoBlocksForNewEdges ==
  Spec => [][~ refusals =>
               \A t \in Task : (db.status[t] = "pending" /\ (db.status)'[t] = "blocked")
                 => \E u \in Task : <<t, u>> \in (db.deps)' \ db.deps
                                    /\ (db.status)'[u] \notin TB!Terminal]_vars
  <1>1. ASSUME BaseInv, [Next]_vars, BoardRight(db), BoardRight(db'),
               NEW t \in Task, db.status[t] = "pending", db'.status[t] = "blocked"
        PROVE  \E u \in Task : <<t, u>> \in db'.deps \ db.deps /\ db'.status[u] \notin TB!Terminal
    <2>1. FlagsRight(db) /\ BlockedRight(db, t) /\ FlagsRight(db') /\ BlockedRight(db', t)
      BY <1>1 DEF BoardRight, RightExcept
    <2>2. Respects(db, db')
      BY <1>1, CommitRespects
    <2>3. PICK u \in Task : <<t, u>> \in db'.deps /\ <<t, u>> \notin db'.resolved
      BY <1>1, <2>1 DEF BlockedRight, TB!Waiting
    <2>4. db'.status[u] \notin TB!Terminal
      BY <2>1, <2>3 DEF FlagsRight
    <2>5. <<t, u>> \notin db.deps
      <3>1. <<t, u>> \in db.deps => db.status[u] \in TB!Terminal
        BY <1>1, <2>1 DEF BlockedRight, FlagsRight, TB!Waiting
      <3> QED
        BY <2>2, <2>4, <3>1 DEF Respects
    <2> QED
      BY <2>3, <2>4, <2>5
  <1> DEFINE Right == ~ refusals => BoardRight(db)
  <1>2. BaseInv /\ Right /\ Right' /\ [Next]_vars =>
          [~ refusals =>
             \A t \in Task : (db.status[t] = "pending" /\ (db.status)'[t] = "blocked")
               => \E u \in Task : <<t, u>> \in (db.deps)' \ db.deps
                                  /\ (db.status)'[u] \notin TB!Terminal]_vars
    BY <1>1, RefusalsFixed
  <1>3. Spec => []Right
    BY RightAlways
  <1> HIDE DEF Right
  <1> QED
    BY <1>2, <1>3, DaoBase, PTL DEF Spec

-----------------------------------------------------------------------------
(* A member that is alone with its database.                               *)

Alone == \A m, n \in Member : m = n

\* A running call has a fresh snapshot, and a claim has written its row or can.
AloneInv ==
    \A m \in Member : Running(m) =>
        /\ ~ call[m].stale
        /\ call[m].op = "claim" =>
              \/ AtStart(m)
              \/ /\ call[m].todo = <<>> /\ writer = m
                 /\ draft.status[call[m].task] = "claimed" /\ draft.assignee[call[m].task] = m

LEMMA AloneBegins ==
  ASSUME BaseInv, NEW m \in Member, NEW t, NEW op, NEW todo, Begin(m, op, t, todo)
  PROVE  call'[m].op = op /\ ~ call'[m].stale
  BY DEF BaseInv, DaoTypeOK, Begin, Call

LEMMA AloneStep ==
  ASSUME Alone, BaseInv, AloneInv, [Next]_vars
  PROVE  AloneInv'
  <1>1. CASE UNCHANGED vars
    <2>1. \A m \in Member : AtStart(m)' <=> AtStart(m)
      BY <1>1 DEF vars, AtStart
    <2> QED
      BY <1>1, <2>1 DEF vars, AloneInv, Running
  <1>2. ASSUME NEW m \in Member, Next, Running(m)',
               call'[m].stale
                 \/ ~ (call'[m].op = "claim" =>
                         \/ AtStart(m)'
                         \/ /\ call'[m].todo = <<>> /\ writer' = m
                            /\ draft'.status[call'[m].task] = "claimed"
                            /\ draft'.assignee[call'[m].task] = m)
        PROVE  FALSE
    <2>1. \A n \in Member : n = m
      BY DEF Alone
    <2>2. ASSUME NEW t \in Task,
                 \/ ClaimTask(m, t) \/ ResetTask(m, t) \/ ApprovePlanTask(m, t)
                 \/ CompleteTask(m, t) \/ CancelTask(m, t)
          PROVE  FALSE
      <3>1. AtStart(m)' /\ \E op, todo : Begin(m, op, t, todo)
        BY <2>2, BeginsOnRows
      <3> QED
        BY <1>2, <3>1, AloneBegins
    <2>3. ASSUME NEW t \in Task, NEW D \in SUBSET Task, AddDependencies(m, t, D) PROVE FALSE
      <3>1. call'[m].op = "add_edges" /\ ~ call'[m].stale
        BY <2>3, AloneBegins DEF AddDependencies
      <3> QED
        BY <1>2, <3>1
    <2>4. ASSUME NEW t \in Task, NEW D \in SUBSET Task, AddTask(m, t, D) PROVE FALSE
      <3>1. BaseInv' /\ writer' = m
        BY <2>4, AddTaskBase
      <3>2. ~ call'[m].stale
        BY <3>1, NobodyAssumption DEF BaseInv, WriterIsFresh
      <3>3. call'[m].op = "add"
        <4>1. PICK new : call' = [call EXCEPT ![m] = new] /\
                \/ new = Call("add", t, <<AddEdges({t} \X D, {t})>>)
                \/ new = [Call("add", t, <<>>) EXCEPT !.ok = FALSE]
          BY <2>4, Zenon DEF AddTask
        <4>2. call'[m] = new
          BY <4>1 DEF BaseInv, DaoTypeOK
        <4>3. new.op = "add"
          BY <4>1 DEF Call
        <4> QED
          BY <4>2, <4>3
      <3> QED
        BY <1>2, <3>2, <3>3
    <2>5. ASSUME ExecuteUnchecked(m) \/ ExecuteChecked(m) PROVE FALSE
      <3> DEFINE s == Head(call[m].todo)
                 t == call[m].task
      <3>1. PICK ok \in BOOLEAN : /\ Running(m) /\ call[m].todo # <<>> /\ Execute(m, s) /\ Done(m, ok)
                                  /\ ExecuteUnchecked(m) <=> s.kind # "edges"
        BY <2>5 DEF ExecuteUnchecked, ExecuteChecked
      <3>2. call'[m] = [op |-> call[m].op, task |-> t, todo |-> Tail(call[m].todo),
                        stale |-> call[m].stale, ok |-> ok]
        BY <3>1, DoneMoves DEF BaseInv
      <3>3. call[m].op = "claim" /\ call'[m].task = t /\ call'[m].todo = Tail(call[m].todo)
        BY <1>2, <3>1, <3>2 DEF AloneInv
      <3>4. AtStart(m) /\ s.kind # "edges"
        <4>1. s.kind # "edges"
          BY <3>1, <3>3, NextChecked DEF EdgeOps
        <4> QED
          BY <3>1, <3>3, <4>1 DEF AloneInv
      <3>5. s = RowOf("claim", m, t) /\ Tail(call[m].todo) = <<>> /\ Writes(m, s) /\ writer # m
        BY <3>1, <3>3, <3>4, NextUnchecked DEF RowOps, EndOps
      <3>6. Granted(m)
        BY <2>1, <3>1, <3>5 DEF AloneInv, BaseInv, DaoTypeOK, Granted
      <3>7. writer' = m /\ draft' = Apply(db, SetRow(t, "claimed", m))
        BY <3>1, <3>5, <3>6, ExecuteCases DEF RowOf
      <3>8. t \in Task /\ db \in Tables
        BY <3>1, RunningCalls DEF BaseInv, DaoTypeOK, CallRec
      <3>9. draft'.status[t] = "claimed" /\ draft'.assignee[t] = m
        BY <3>7, <3>8, RowApply DEF Tables
      <3> QED
        BY <1>2, <3>1, <3>2, <3>3, <3>5, <3>7, <3>9 DEF AloneInv
    <2>6. ASSUME Return(m) PROVE FALSE
      BY <1>2, <2>6, ReturnBase
    <2> QED
      BY <1>2, <2>1, <2>2, <2>3, <2>4, <2>5, <2>6 DEF Next
  <1> QED
    BY <1>1, <1>2 DEF AloneInv

\* For a member that shares its database with nobody, ClaimTask answers true only if the row
\* is its own; the error it ignores takes a second connection.
THEOREM LoneClaimIsHonest == ASSUME Alone PROVE Spec => ClaimReplyIsHonest
  <1>1. Init => AloneInv
    BY DEF Init, AloneInv, Running, Idle
  <1>2. BaseInv /\ AloneInv /\ [Next]_vars => AloneInv'
    BY AloneStep
  <1>3. BaseInv /\ AloneInv /\ [Next]_vars =>
          [\A m \in Member : call[m].op = "claim" /\ call[m].ok /\ call'[m] = Idle =>
              /\ db'.status[call[m].task] = "claimed"
              /\ db'.assignee[call[m].task] = m]_vars
    <2> SUFFICES ASSUME BaseInv, AloneInv, Next, NEW m \in Member,
                        call[m].op = "claim", call[m].ok, call'[m] = Idle
                 PROVE  /\ db'.status[call[m].task] = "claimed"
                        /\ db'.assignee[call[m].task] = m
      BY Zenon
    <2>1. Running(m) /\ ~ Running(m)'
      BY DEF Running, Idle
    <2>2. Return(m)
      <3>1. \A n \in Member : n = m
        BY DEF Alone
      <3>2. ASSUME NEW op, NEW t, NEW todo PROVE ~ Begin(m, op, t, todo)
        BY <2>1 DEF Begin
      <3>3. ASSUME NEW t \in Task, NEW D \in SUBSET Task PROVE ~ AddTask(m, t, D)
        BY <2>1 DEF AddTask
      <3>4. ~ ExecuteUnchecked(m) /\ ~ ExecuteChecked(m)
        <4>1. ASSUME NEW ok \in BOOLEAN, call[m].todo # <<>>, Done(m, ok) PROVE FALSE
          <5>1. call'[m] \in CallRec
            BY <2>1, <4>1, DoneMoves DEF BaseInv
          <5> QED
            BY <2>1, <5>1 DEF Running, CallRec, RowOps, EndOps, EdgeOps
        <4> QED
          BY <4>1 DEF ExecuteUnchecked, ExecuteChecked
      <3> QED
        BY <3>1, <3>2, <3>3, <3>4 DEF Next, ClaimTask, ResetTask, ApprovePlanTask, CompleteTask, CancelTask,
           AddDependencies
    <2>3. call[m].todo = <<>> /\ writer = m
          /\ draft.status[call[m].task] = "claimed" /\ draft.assignee[call[m].task] = m
      <3>1. call[m].todo = <<>>
        BY <2>2 DEF Return
      <3>2. ~ AtStart(m)
        BY <3>1, Lists DEF AtStart, RowOps, EndOps
      <3> QED
        BY <2>1, <3>2 DEF AloneInv
    <2>4. db' = draft
      BY <2>2, <2>3, ReturnBase
    <2> QED
      BY <2>3, <2>4
  <1> QED
    BY DaoBase, <1>1, <1>2, <1>3, PTL DEF Spec, ClaimReplyIsHonest

=============================================================================
