---------------------------- MODULE RunLifecycle ----------------------------
(***************************************************************************)
(* What the table of workflow runs promises whoever reads it (list_runs,   *)
(* get_run, the next run's average of steps): a run is recorded either as  *)
(* running or with its outcome, an outcome is final, and only the deletion *)
(* of its workflow takes a record away.                                    *)
(***************************************************************************)
CONSTANT Runs
VARIABLE status   \* the committed status of each run

Outcomes == {"completed", "failed"}
Recorded == {"running"} \union Outcomes

Init == status = [r \in Runs |-> "none"]

Start(r) ==
    /\ status[r] = "none"
    /\ status' = [status EXCEPT ![r] = "running"]

\* A run whose only commit carries its outcome, or the end of a running one.
End(r) ==
    /\ status[r] \in {"none", "running"}
    /\ \E o \in Outcomes : status' = [status EXCEPT ![r] = o]

\* The workflow of the runs S is deleted, and they with it.
Purge(S) ==
    status' = [r \in Runs |-> IF r \in S /\ status[r] # "none" THEN "gone" ELSE status[r]]

Next ==
    \/ \E r \in Runs : Start(r) \/ End(r)
    \/ \E S \in SUBSET Runs : Purge(S)

Spec == Init /\ [][Next]_status
=============================================================================
