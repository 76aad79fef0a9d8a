----------------------------- MODULE MCEdgeSync -----------------------------
\* Two edge nodes and a server; one run is executed on an edge node, one on the server.
EXTENDS EdgeSync

HomeOfMC == [r \in {"r1", "r2"} |-> IF r = "r1" THEN "e1" ELSE "server"]
=============================================================================
