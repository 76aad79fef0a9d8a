-------------------------------- MODULE DAG --------------------------------
(***************************************************************************)
(* The workflow DAG of pkg/workflow/dag.go: building it with AddNode and   *)
(* AddEdge, the depth-first cycle check, the execution levels and the      *)
(* topological order.                                                      *)
(*                                                                         *)
(* Node ids are numbers, in the order of their strings.  Edges[n] is a     *)
(* slice, with its order and its duplicates: both reach the algorithms.    *)
(* A Go map is ranged over in any order, so the cycle check takes the      *)
(* order of the nodes as an argument.                                      *)
(***************************************************************************)
EXTENDS Naturals, FiniteSets, SequencesExt

CONSTANTS N,         \* node ids are 1..N
          MaxEdges   \* bound on edges added

VARIABLES nodes,     \* keys of d.Nodes
          edges      \* d.Edges

\* The orders in which Go may range over a map with the given keys.
Orders == [S \in SUBSET (1..N) |-> SetToSeqs(S)]

EdgeCount(e) == FoldSet(LAMBDA n, acc : Len(e[n]) + acc, 0, DOMAIN e)

-----------------------------------------------------------------------------
(* The cycle check.                                                        *)

RECURSIVE hasCycleDFSForgets(_, _, _, _)
\* Mutant: every visited neighbour counts as a cycle, as if recStack were
\* never cleared.
hasCycleDFSForgets(e, n, visited, recStack) ==
  FoldLeft(LAMBDA acc, m :
             IF acc.found THEN acc
             ELSE IF m \notin acc.visited THEN hasCycleDFSForgets(e, m, acc.visited, recStack \cup {n})
             ELSE [acc EXCEPT !.found = TRUE],
           [found |-> FALSE, visited |-> visited \cup {n}], e[n])

RECURSIVE hasCycleDFS(_, _, _, _)
\* The search below n: has it found a cycle, and what has it visited?
\* recStack is the path that leads to n: an entry is cleared on return.
hasCycleDFS(e, n, visited, recStack) ==
  FoldLeft(LAMBDA acc, m :
             IF acc.found THEN acc
             ELSE IF m \notin acc.visited THEN hasCycleDFS(e, m, acc.visited, recStack \cup {n})
             ELSE [acc EXCEPT !.found = m \in recStack \cup {n}],
           [found |-> FALSE, visited |-> visited \cup {n}], e[n])

\* The nodes are ranged over in the given order.
hasCycle(e, order) ==
  FoldLeft(LAMBDA acc, n : IF acc.found \/ n \in acc.visited THEN acc
                           ELSE hasCycleDFS(e, n, acc.visited, {}),
           [found |-> FALSE, visited |-> {}], order).found

-----------------------------------------------------------------------------
(* Orders of execution.                                                    *)

\* inDegree once the edges of the nodes in done are taken off.
inDegree(e, done, m) ==
  FoldSet(LAMBDA n, acc : Cardinality({i \in DOMAIN e[n] : e[n][i] = m}) + acc, 0,
          DOMAIN e \ done)

\* Mutant: duplicate edges count once going in, but each comes off.
FreeDistinct(e, done) ==
  {n \in DOMAIN e \ done :
     Cardinality({m \in DOMAIN e : n \in ToSet(e[m])}) + inDegree(e, done, n) = inDegree(e, {}, n)}

\* The nodes that are free once those in done are processed.
Free(e, done) == {n \in DOMAIN e \ done : inDegree(e, done, n) = 0}

RECURSIVE LevelsFrom(_, _)
\* The levels of what is not in done; a cycle ends them early.
LevelsFrom(e, done) ==
  IF Free(e, done) = {} THEN <<>>
  ELSE <<Free(e, done)>> \o LevelsFrom(e, done \cup Free(e, done))

GetExecutionLevels(e) == LevelsFrom(e, {})

RECURSIVE OrderFrom(_, _)
\* The sorted queue holds the free nodes, so the least of them is next.
OrderFrom(e, done) ==
  IF Free(e, done) = {} THEN <<>>
  ELSE <<Min(Free(e, done))>> \o OrderFrom(e, done \cup {Min(Free(e, done))})

\* Mutant: the nodes level by level.
TopologicalOrderByLevel(e) ==
  FlattenSeq([l \in DOMAIN GetExecutionLevels(e) |-> SetToSortSeq(GetExecutionLevels(e)[l], <)])

TopologicalOrder(e) == OrderFrom(e, {})

\* The nodes that d.Edges names as dependencies of n.
GetNodeDependencies(e, n) == ToSet(e[n])

GetRoots(e) == {n \in DOMAIN e : \A m \in DOMAIN e : n \notin ToSet(e[m])}
GetLeaves(e) == {n \in DOMAIN e : e[n] = <<>>}

-----------------------------------------------------------------------------
(* Building a DAG.                                                         *)

DagInit == nodes = {} /\ edges = <<>>

\* An id that exists is refused.
AddNode(n) ==
  /\ n \notin nodes
  /\ nodes' = nodes \cup {n}
  /\ edges' = [m \in nodes' |-> IF m = n THEN <<>> ELSE edges[m]]

\* The edge is added, and taken off again if it closes a cycle.
AddEdge(from, to) ==
  /\ {from, to} \subseteq nodes /\ EdgeCount(edges) < MaxEdges
  /\ \E order \in Orders[nodes] :
       LET added == [edges EXCEPT ![from] = Append(@, to)]
       IN  edges' = IF hasCycle(added, order)
                    THEN [added EXCEPT ![from] = RemoveFirst(@, to)]
                    ELSE added
  /\ UNCHANGED nodes

\* TopologicalSort sorts the slices of the DAG itself.
TopologicalSort ==
  /\ edges' = [n \in nodes |-> SortSeq(edges[n], <)]
  /\ UNCHANGED nodes

DagNext == \/ \E n \in 1..N : AddNode(n)
           \/ \E from, to \in 1..N : AddEdge(from, to)
           \/ TopologicalSort

-----------------------------------------------------------------------------
(* Properties.                                                             *)

\* Every edge of e goes up in rank.
Respects(e, rank) == \A n \in DOMAIN e : \A m \in ToSet(e[n]) : rank[n] < rank[m]

\* Reference: a graph is acyclic when its nodes can be ranked.
Acyclic(e) == \E rank \in [DOMAIN e -> 1..N] : Respects(e, rank)

\* The level GetExecutionLevels gives to n.
LevelOf(e, n) == CHOOSE l \in DOMAIN GetExecutionLevels(e) : n \in GetExecutionLevels(e)[l]

\* AddEdge never leaves a cycle behind, and refuses an edge only when the edge
\* would close one: the cycle check is exact, whatever the order in which the
\* map of nodes is ranged over.
AddEdgeExact ==
  \A from, to \in nodes :
    LET added == [edges EXCEPT ![from] = Append(@, to)]
        acyclic == Acyclic(added)
    IN  \A order \in Orders[nodes] : hasCycle(added, order) <=> ~acyclic

\* A node is run on the first level where everything with an edge to it is
\* over, and every node is on exactly one level: the levels are complete,
\* disjoint and as early as possible, duplicate edges or not.
LevelsEarliest ==
  LET levels == GetExecutionLevels(edges)
      before(n) == {m \in nodes : n \in ToSet(edges[m])}
  IN  /\ UNION ToSet(levels) = nodes
      /\ \A n \in nodes : \E l \in DOMAIN levels :
           /\ \A k \in DOMAIN levels : n \in levels[k] <=> k = l
           /\ l = 1 + Max({0} \cup {LevelOf(edges, m) : m \in before(n)})

\* s comes before t in dictionary order.
LexLess(s, t) ==
  \E i \in DOMAIN s : s[i] < t[i] /\ \A j \in 1..(i - 1) : s[j] = t[j]

\* TopologicalSort returns the least of all the orders that respect the
\* edges, so the result is the same on every run.
OrderIsLeast ==
  LET order == TopologicalOrder(edges)
      good(s) == \A i, j \in DOMAIN s : s[j] \in ToSet(edges[s[i]]) => i < j
  IN  /\ order \in Orders[nodes] /\ good(order)
      /\ \A s \in Orders[nodes] : good(s) => s = order \/ LexLess(order, s)
=============================================================================
