------------------------------ MODULE DagLayout ------------------------------
(***************************************************************************)
(* The layered drawing of the agent graph: a rank per agent by longest     *)
(* path, the agents of a cycle and those below one on a row of their own,  *)
(* and the places of each row.  A pure function of the agents, in the      *)
(* order they are served, and of the edges that are served with them.      *)
(***************************************************************************)
EXTENDS Integers, Sequences, FiniteSets, SequencesExt

\* isPlaceableEdge: an edge is drawn when both its ends are.
Placeable(nodes, edges) == {e \in edges : {e[1], e[2]} \subseteq ToSet(nodes)}

Children(nodes, drawn, p) == SelectSeq(nodes, LAMBDA c : <<p, c>> \in drawn)
InDegree(drawn, c) == Cardinality({e \in drawn : e[2] = c})

\* The topological pass.  "left" counts the parents still to come, and an agent
\* joins the queue with its last one.
Kahn(nodes, drawn) ==
  LET Start ==
        [queue |-> SelectSeq(nodes, LAMBDA n : InDegree(drawn, n) = 0),
         left  |-> [n \in ToSet(nodes) |-> InDegree(drawn, n)],
         depth |-> [n \in ToSet(nodes) |-> 0]]
      Down(at, p, c) ==
        [queue |-> IF at.left[c] = 1 THEN Append(at.queue, c) ELSE at.queue,
         left  |-> [at.left EXCEPT ![c] = @ - 1],
         depth |-> [at.depth EXCEPT ![c] = IF @ > at.depth[p] THEN @ ELSE at.depth[p] + 1]]
      Take(at, head) ==
        IF head > Len(at.queue) THEN at
        ELSE FoldLeft(LAMBDA s, c : Down(s, at.queue[head], c), at,
                      Children(nodes, drawn, at.queue[head]))
  IN FoldLeft(Take, Start, [i \in DOMAIN nodes |-> i])

\* cycleMembers: Tarjan's strongly connected components of the agents that got
\* no rank.  "low" is the oldest agent on the stack that was reached.
Least(a, b) == IF a < b THEN a ELSE b
Walks(ids) ==
  [index : [ids -> Int], low : [ids -> Int], next : Nat, stack : Seq(ids), members : SUBSET ids]

Unseen == -1

Connect(nodes, drawn) ==
  LET connect[walk \in Walks(ToSet(nodes)), id \in ToSet(nodes)] ==
        LET out == Children(nodes, drawn, id)
            entered == [walk EXCEPT !.index[id] = walk.next, !.low[id] = walk.next,
                                    !.next = @ + 1, !.stack = Append(@, id)]
            Visit(w, c) ==
              IF w.index[c] = Unseen
              THEN LET v == connect[w, c]
                   IN [v EXCEPT !.low[id] = Least(@, v.low[c])]
              ELSE IF c \in ToSet(w.stack) THEN [w EXCEPT !.low[id] = Least(@, w.index[c])]
              ELSE w
            left == FoldLeft(Visit, entered, out)
            at == CHOOSE i \in DOMAIN left.stack : left.stack[i] = id
            component == ToSet(SubSeq(left.stack, at, Len(left.stack)))
        IN IF left.low[id] # left.index[id] THEN left
           ELSE [left EXCEPT
                   !.stack = SubSeq(@, 1, at - 1),
                   !.members = IF Cardinality(component) > 1 \/ id \in ToSet(out)
                               THEN @ \cup component ELSE @]
  IN connect

AllUnranked(nodes, drawn, unranked) == ToSet(unranked) \* a mutant

CycleMembers(nodes, drawn, unranked) ==
  LET none == [id \in ToSet(nodes) |-> Unseen]
  IN FoldLeft(LAMBDA w, id : IF w.index[id] = Unseen THEN Connect(nodes, drawn)[w, id] ELSE w,
              [index |-> none, low |-> none, next |-> 0, stack |-> << >>, members |-> {}],
              unranked).members

\* A child goes under the middle of its parents on the rows above it, in the
\* order served where that does not tell two agents apart.
Places(nodes, drawn, depth) ==
  LET Rank(n) == CHOOSE i \in DOMAIN nodes : nodes[i] = n
      Above(n) == {p \in ToSet(nodes) : <<p, n>> \in drawn /\ depth[p] < depth[n]}
      Row(x, d) ==
        LET layer == {n \in ToSet(nodes) : depth[n] = d}
            above == [n \in layer |-> Cardinality(Above(n))]
            sum == [n \in layer |-> FoldSet(LAMBDA p, s : s + x[p], 0, Above(n))]
            Lefter(m, n) ==
              /\ above[m] # 0
              /\ above[n] = 0 \/ sum[m] * above[n] < sum[n] * above[m]
            Before(m, n) == Lefter(m, n) \/ (~Lefter(n, m) /\ Rank(m) < Rank(n))
        IN [n \in layer |-> Cardinality({m \in layer : Before(m, n)})] @@ x
  IN FoldLeft(Row, << >>, [i \in DOMAIN nodes |-> i - 1])

\* computeLayeredLayout
Layout(nodes, edges) ==
  LET drawn == Placeable(nodes, edges)
      kahn == Kahn(nodes, drawn)
      ranked == ToSet(kahn.queue)
      unranked == SelectSeq(nodes, LAMBDA n : n \notin ranked)
      deepest == Max({0} \cup {kahn.depth[n] : n \in ranked})
      fallback == IF ranked # {} /\ unranked # << >> THEN deepest + 1 ELSE 0
      depth == [n \in ToSet(nodes) |-> IF n \in ranked THEN kahn.depth[n] ELSE fallback]
      cyclic == CycleMembers(nodes, drawn, unranked)
  IN [depth |-> depth, x |-> Places(nodes, drawn, depth), drawn |-> drawn,
      droppedEdges |-> Cardinality(edges \ drawn), cyclic |-> cyclic,
      belowCycle |-> ToSet(unranked) \ cyclic]
=============================================================================
