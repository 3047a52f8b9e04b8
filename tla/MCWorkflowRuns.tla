--------------------------- MODULE MCWorkflowRuns ---------------------------
(***************************************************************************)
(* WorkflowRuns with at most one run of each executor.  The sync run and   *)
(* the job share a workflow, the stream has its own.                       *)
(***************************************************************************)
EXTENDS WorkflowRuns

CONSTANTS s1, t1, j1, w1, w2

MCWorkflows == {w1, w2}
MCKindOf == [r \in Runs |-> CASE r = s1 -> "sync" [] r = t1 -> "stream" [] r = j1 -> "scheduled"]
MCWfOf == [r \in Runs |-> IF r = t1 THEN w2 ELSE w1]
=============================================================================
