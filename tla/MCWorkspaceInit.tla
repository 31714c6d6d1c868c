---------------------------- MODULE MCWorkspaceInit ----------------------------
(* A small instance of WorkspaceInit for TLC.                                *)
EXTENDS WorkspaceInit

CONSTANTS i1, i2, d1, d2, w1

Used == {w \in Workspaces : row[w] # "none"}

\* Calls of one sort differ only in their names, and so do workspaces: it is enough
\* that the first is the first to be used.  (Symmetry sets are unsound for the
\* liveness that is checked.)
InOrder ==
    /\ pc[i1] = "idle" => pc[i2] = "idle"
    /\ pc[d1] = "idle" => pc[d2] = "idle"
    /\ Used # {} => w1 \in Used

\* A restart or a removal that failed half-way with one workspace, the lock between two
\* workspaces without either.
Upset == (IF restarts = 0 THEN 0 ELSE 1) + Cardinality(lost)
Focus == InOrder /\ Upset <= 1 /\ (Upset = 0 \/ Cardinality(Used) <= 1)
=============================================================================
