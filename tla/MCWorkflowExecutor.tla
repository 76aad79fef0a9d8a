------------------------- MODULE MCWorkflowExecutor -------------------------
(* A workflow for TLC: nodes 1 and 2 feed 3, which feeds 4.  Its levels are *)
(* those that DAG.GetExecutionLevels computes.                              *)
EXTENDS WorkflowExecutor, Sequences

JoinEdges == << <<3>>, <<3>>, <<4>>, <<>> >>

D == INSTANCE DAG WITH N <- 4, MaxEdges <- 3, nodes <- 1..4, edges <- JoinEdges

JoinDeps  == << {}, {}, {1, 2}, {3} >>
JoinLevel == << 1, 1, 2, 3 >>

ASSUME JoinAssumption ==
  \A n \in 1..4 : /\ JoinDeps[n] = {m \in 1..4 : n \in D!GetNodeDependencies(JoinEdges, m)}
                  /\ JoinLevel[n] = D!LevelOf(JoinEdges, n)
=============================================================================
