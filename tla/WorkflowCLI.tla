---------------------------- MODULE WorkflowCLI ----------------------------
(***************************************************************************)
(* unagnt workflow run, validate and visualize (cmd/unagnt/workflow.go): a  *)
(* workflow file is read, its steps become the nodes of a DAG, and the      *)
(* dependencies become edges.  The nodes are added in the order of the      *)
(* file, but the edges while ranging over the map of nodes, in any order,   *)
(* and the first edge that is refused ends the command.                     *)
(***************************************************************************)
EXTENDS DAG

CONSTANTS WorkflowFiles   \* sequences of steps [name, deps]; name 0: no name given

VARIABLES wfFile,         \* the steps of the file that is being built
          wfPC,           \* "idle", "link", "built", "failed"
          toLink,         \* nodes the range over the map has still to visit
          plan            \* what validate prints: [levels, roots, leaves]

cliVars == <<nodes, edges, wfFile, wfPC, toLink, plan>>

NoPlan == [levels |-> <<>>, roots |-> {}, leaves |-> {}]

ASSUME FilesAssumption ==
  \A f \in WorkflowFiles : \A i \in DOMAIN f : f[i].name \in 0 .. N /\ f[i].deps \in Seq(1 .. N)

CliInit == DagInit /\ wfFile = <<>> /\ wfPC = "idle" /\ toLink = {} /\ plan = NoPlan

\* The named steps of a file: one without a name is passed over.
Steps(f) == SelectSeq(f, LAMBDA s : s.name # 0)

\* Adding a name a second time is an error.
Distinct(f) == \A i, j \in DOMAIN Steps(f) : Steps(f)[i].name = Steps(f)[j].name => i = j

\* The dependencies a node was given.
DepsOf(f, n) == Steps(f)[CHOOSE i \in DOMAIN Steps(f) : Steps(f)[i].name = n].deps

\* The file is read and its nodes are added.
ReadWorkflow(f) ==
  /\ wfPC = "idle" /\ nodes = {} /\ wfFile' = f
  /\ IF Distinct(f)
     THEN /\ nodes' = {Steps(f)[i].name : i \in DOMAIN Steps(f)}
          /\ edges' = [n \in nodes' |-> <<>>]
          /\ wfPC' = "link" /\ toLink' = nodes'
     ELSE wfPC' = "failed" /\ UNCHANGED <<nodes, edges, toLink>>
  /\ UNCHANGED plan

\* Mutant: an edge that is refused is passed over.
LinkedAnyway(acc, dep, n) ==
  LET added == [acc.edges EXCEPT ![dep] = Append(@, n)]
  IN IF dep \notin nodes \/ hasCycle(added, SetToSeq(nodes)) THEN acc
     ELSE [acc EXCEPT !.edges = added]

\* One call of AddEdge(dep, n), unless an earlier one failed.
Linked(acc, dep, n) ==
  IF ~acc.ok THEN acc
  ELSE IF dep \notin nodes THEN [acc EXCEPT !.ok = FALSE]
  ELSE LET added == [acc.edges EXCEPT ![dep] = Append(@, n)]
       IN IF hasCycle(added, SetToSeq(nodes)) THEN [acc EXCEPT !.ok = FALSE]
          ELSE [acc EXCEPT !.edges = added]

\* The range reaches node n and links it to its dependencies, in their order.
LinkNode(n) ==
  /\ wfPC = "link" /\ n \in toLink
  /\ LET r == FoldLeft(LAMBDA acc, dep : Linked(acc, dep, n), [ok |-> TRUE, edges |-> edges],
                       DepsOf(wfFile, n))
     IN /\ edges' = r.edges
        /\ wfPC' = IF ~r.ok THEN "failed" ELSE IF toLink = {n} THEN "built" ELSE "link"
  /\ toLink' = toLink \ {n} /\ UNCHANGED <<nodes, wfFile, plan>>

\* A file without steps builds an empty DAG.
NothingToLink ==
  /\ wfPC = "link" /\ toLink = {} /\ wfPC' = "built"
  /\ UNCHANGED <<nodes, edges, wfFile, toLink, plan>>

\* DAG.Validate on what was built.
Validates == nodes # {} /\ \A order \in Orders[nodes] : ~hasCycle(edges, order)

\* validate and visualize print the levels, roots and leaves of a DAG that validates.
ValidateWorkflow ==
  /\ wfPC = "built" /\ Validates /\ plan = NoPlan
  /\ plan' = [levels |-> GetExecutionLevels(edges), roots |-> GetRoots(edges),
              leaves |-> GetLeaves(edges)]
  /\ UNCHANGED <<nodes, edges, wfFile, wfPC, toLink>>

\* The DAG as a library, built by other callers.
DagAlone == wfPC = "idle" /\ DagNext /\ UNCHANGED <<wfFile, wfPC, toLink, plan>>

CliNext ==
  \/ DagAlone
  \/ \E f \in WorkflowFiles : ReadWorkflow(f)
  \/ \E n \in 1 .. N : LinkNode(n)
  \/ NothingToLink
  \/ ValidateWorkflow

-----------------------------------------------------------------------------
\* Whether a workflow file is accepted depends on the file and not on the order in which
\* the map of nodes happens to be ranged over: it is built exactly when no name repeats,
\* every dependency names a step and the dependencies can be ordered.
BuildIsOrderFree ==
  LET named == {Steps(wfFile)[i].name : i \in DOMAIN Steps(wfFile)}
      known == \A n \in named : ToSet(DepsOf(wfFile, n)) \subseteq named
      ordered == \E rank \in [named -> 1 .. N] :
                   \A n \in named : \A d \in ToSet(DepsOf(wfFile, n)) : rank[d] < rank[n]
  IN wfPC \in {"built", "failed"} => (wfPC = "built" <=> Distinct(wfFile) /\ known /\ ordered)

\* What validate prints is a schedule of the file: each step on the first level after
\* the levels of its dependencies, the roots on the first and the leaves without
\* dependents.
PlanMatchesFile ==
  plan # NoPlan =>
    LET level(n) == CHOOSE l \in DOMAIN plan.levels : n \in plan.levels[l]
    IN /\ UNION ToSet(plan.levels) = nodes /\ plan.roots = plan.levels[1]
       /\ \A n \in nodes :
            level(n) = 1 + Max({0} \cup {level(d) : d \in ToSet(DepsOf(wfFile, n))})
       /\ plan.leaves = {n \in nodes : \A m \in nodes : n \notin ToSet(DepsOf(wfFile, m))}

\* The workflow graph from file to plan (cmd/unagnt/workflow.go, pkg/workflow/dag.go): in
\* a graph built call by call the cycle check is exact and levels and order are the ones
\* the edges define; which files are accepted does not depend on the map's order, and
\* the plan printed is a schedule of the file.
PlanFollowsFile ==
  /\ wfPC = "idle" => AddEdgeExact /\ LevelsEarliest /\ OrderIsLeast
  /\ BuildIsOrderFree /\ PlanMatchesFile
=============================================================================
