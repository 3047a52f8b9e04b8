------------------------- MODULE MCWorkflowSchedule -------------------------
(***************************************************************************)
(* WorkflowSchedule on small instances.  The alphabets below choose which  *)
(* requests the clients send; each .cfg picks one of them.                 *)
(***************************************************************************)
EXTENDS WorkflowSchedule, TLC

CONSTANTS c1, c2, cbad, a1, a2, t1, t2, v1,
          Clients   \* which alphabet: "api" or "nulls"

Symmetry == Permutations(Requests)

MCCrons == {c1, c2, cbad}
MCBadCrons == {cbad}
MCAgents == {a1, a2}
MCTmpls == {t1, t2}
MCVars == {v1}

Fresh(cron, skills) ==
    [cron |-> cron, agent |-> a1, tmpl |-> t1, vars |-> NoVars, skills |-> skills]

Put(cron, agent, tmpl, vs) ==
    [cron |-> cron, agent |-> agent, tmpl |-> tmpl, vars |-> vs]

MCCreateBodies ==
    IF Clients = "nulls" THEN {Fresh(c1, FALSE)}
    ELSE {Fresh(c1, TRUE), Fresh(c1, FALSE), Fresh(NoCron, FALSE)}

\* An export file may carry any cron; the agent is left to be chosen later.
MCImportBodies ==
    IF Clients = "nulls" THEN {} ELSE {[Fresh(cbad, FALSE) EXCEPT !.agent = NoAgent]}

\* "nulls": the explicit null.  "api": every kind of body, one field changed at
\* a time and some combined.
MCUpdateBodies ==
    IF Clients = "nulls" THEN {Put(Null, Absent, Absent, Absent)}
    ELSE {Put(c2, Absent, t2, NoVars),
          Put(cbad, Absent, t2, Absent), Put(Blank, Absent, Absent, Absent),
          Put(Null, Absent, Absent, Absent), Put(Absent, a2, Absent, Absent),
          Put(Absent, Absent, t2, Absent), Put(Absent, Absent, Absent, v1)}
=============================================================================
