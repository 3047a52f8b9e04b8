-------------------------- MODULE WorkflowSchedule --------------------------
(***************************************************************************)
(* The schedule of a workflow lives in two stores.  The workflows table    *)
(* (row) is written by the request's transaction and becomes visible when  *)
(* get_db commits, after the handler returned.  The APScheduler job store  *)
(* (job) is written through an engine of its own, so every add_job and     *)
(* remove_job is committed on the spot, whatever becomes of the request.   *)
(*                                                                         *)
(* A request is one asyncio task.  Its steps are the stretches of code     *)
(* between two awaits: another request may run between two of them.  loop  *)
(* names the task that is between two job store writes without an await in *)
(* between; only a crash of the process can fall there.                    *)
(***************************************************************************)
EXTENDS Naturals

CONSTANTS
    Workflows,    \* workflow ids (uuid4: an id is inserted at most once)
    Requests,     \* slots for requests that are in flight
    Crons,        \* cron expressions a client sends
    BadCrons,     \* those of Crons that schedule_workflow rejects (ValueError)
    Agents,       \* Letta agent ids
    Tmpls,        \* prompt templates
    Vars,         \* non-empty dictionaries of default variables
    NoCron, NoAgent, NoVars,     \* column values: NULL or ''
    Absent, Null, Blank,         \* body field missing, null, empty string
    NoRow, Gone, NoJob, NoWf,    \* never inserted, deleted, no job, no workflow
    Free,                        \* no task is between two job store writes
    CreateBodies,                \* rows that create_workflow may be asked for
    ImportBodies,                \* rows that an import may ask for
    UpdateBodies,                \* bodies of PUT /workflows/{id}
    Faults,                      \* which of "jobstore", "validation", "commit" may fail
    MaxCrashes                   \* bound on the number of crashes

VARIABLES
    row,      \* the committed workflows table
    job,      \* the job store: job id is "workflow_" + workflow id
    pc,       \* where each request's handler is
    ctx,      \* the handler's locals: operation, workflow id, body, row as read
    loop,     \* the task between two job store writes, or Free
    crashes,  \* number of crashes so far (bounded by MaxCrashes)
    torn      \* history: the workflows whose two stores may have come apart

vars == <<row, job, pc, ctx, loop, crashes, torn>>

Row == [cron : Crons \union {NoCron}, agent : Agents \union {NoAgent},
        tmpl : Tmpls, vars : Vars \union {NoVars}, skills : BOOLEAN]
Job == [cron : Crons, agent : Agents \union {NoAgent},
        tmpl : Tmpls, vars : Vars \union {NoVars}]
Body == [cron : Crons \union {Absent, Null, Blank}, agent : Agents \union {Absent},
         tmpl : Tmpls \union {Absent}, vars : Vars \union {NoVars, Absent}]
NoBody == [cron |-> Absent, agent |-> Absent, tmpl |-> Absent, vars |-> Absent]
NoCtx == [op |-> "none", wf |-> NoWf, body |-> NoBody, snap |-> NoRow]

ASSUME CronAssumption ==
    /\ BadCrons \subseteq Crons
    /\ {NoCron, Absent, Null, Blank} \intersect Crons = {}
    /\ NoCron \notin {Absent, Null, Blank}
    /\ Null # Blank /\ Absent # Null /\ Absent # Blank
ASSUME ValueAssumption ==
    /\ Absent \notin Agents /\ Absent \notin Tmpls
    /\ Absent \notin Vars \union {NoVars} /\ NoVars \notin Vars
ASSUME RowAssumption == NoRow \notin Row /\ Gone \notin Row /\ NoRow # Gone
ASSUME JobAssumption == NoJob \notin Job
ASSUME LoopAssumption == Free \notin Requests /\ NoWf \notin Workflows
\* WorkflowCreate validates its cron, ExportWorkflow and WorkflowUpdate do not.
ASSUME BodyAssumption ==
    /\ CreateBodies \subseteq Row
    /\ \A b \in CreateBodies : b.cron \notin BadCrons
    /\ ImportBodies \subseteq Row
    /\ UpdateBodies \subseteq Body
ASSUME BoundAssumption == MaxCrashes \in Nat

Exists(w) == row[w] \notin {NoRow, Gone}

-----------------------------------------------------------------------------
\* What update_workflow computes from the body b and the row s it read.

Given(new, old) == IF new = Absent THEN old ELSE new

\* The cron is sent (not null), or a scheduled workflow has its cron nulled or
\* its template or its variables sent.
NeedsReschedule(b, s) ==
    \/ b.cron \in Crons \union {Blank}
    \/ s.cron # NoCron /\ (b.cron = Null \/ b.tmpl # Absent \/ b.vars # Absent)

\* Variant that a property must catch: the null of the body used as a cron.
EffectiveCronNull(b, s) == IF b.cron # Absent THEN b.cron ELSE s.cron

\* A null falls back to the row's cron, as an absent field does.
EffectiveCron(b, s) ==
    IF b.cron \in Crons THEN b.cron ELSE IF b.cron = Blank THEN NoCron ELSE s.cron

\* A dictionary from the body goes to json.loads unless it is empty: TypeError.
VarsRaise(b) == b.vars \in Vars

JobFor(b, s) ==
    [cron |-> EffectiveCron(b, s), agent |-> s.agent,
     tmpl |-> Given(b.tmpl, s.tmpl), vars |-> Given(b.vars, s.vars)]

JobOf(s) == [cron |-> s.cron, agent |-> s.agent, tmpl |-> s.tmpl, vars |-> s.vars]

\* The attributes of the ORM object when the handler flushes.
Updated(b, s) ==
    [cron |-> IF ~NeedsReschedule(b, s) THEN s.cron
              ELSE IF b.cron \in Crons THEN b.cron ELSE NoCron,
     agent |-> Given(b.agent, s.agent), tmpl |-> Given(b.tmpl, s.tmpl),
     vars |-> Given(b.vars, s.vars), skills |-> s.skills]

\* The UPDATE statement names only the columns whose value differs from what
\* the session loaded; the others keep what other transactions committed.
Merge(committed, s, new) ==
    [f \in DOMAIN committed |-> IF new[f] = s[f] THEN committed[f] ELSE new[f]]

-----------------------------------------------------------------------------
Init ==
    /\ row = [w \in Workflows |-> NoRow]
    /\ job = [w \in Workflows |-> NoJob]
    /\ pc = [r \in Requests |-> "idle"]
    /\ ctx = [r \in Requests |-> NoCtx]
    /\ loop = Free
    /\ crashes = 0
    /\ torn = {}

MayRun(r) == loop \in {Free, r}

\* uuid4 draws an id that no row has and no other request is inserting.
FreshId(w) ==
    /\ row[w] = NoRow
    /\ \A r \in Requests : ctx[r].wf # w

\* History: two requests at the same workflow, or one that the schedule code
\* was not written for (odd), tear its stores apart.
Tears(w, odd) ==
    torn' = IF odd \/ \E q \in Requests : ctx[q].wf = w THEN torn \union {w} ELSE torn

Begin(r, at, operation, w, b, s) ==
    /\ pc[r] = "idle" /\ MayRun(r)
    /\ pc' = [pc EXCEPT ![r] = at]
    /\ ctx' = [ctx EXCEPT ![r] = [op |-> operation, wf |-> w, body |-> b, snap |-> s]]
    /\ UNCHANGED <<row, job, loop, crashes>>

Goto(r, at) == pc' = [pc EXCEPT ![r] = at]

\* The handler returned or raised: get_db closes the session.
Finish(r) ==
    /\ Goto(r, "idle")
    /\ ctx' = [ctx EXCEPT ![r] = NoCtx]

\* The handler raised where it was.  The job store keeps what it was told:
\* only the handlers that had not come to it leave the stores as they were.
HasWritten(r) ==
    CASE ctx[r].op = "create" -> pc[r] = "commit"
      [] ctx[r].op = "update" -> pc[r] # "unschedule" /\ NeedsReschedule(ctx[r].body, ctx[r].snap)
      [] ctx[r].op = "delete" -> pc[r] = "commit"
      [] OTHER -> FALSE

Abandon(r) ==
    /\ Finish(r)
    /\ torn' = IF HasWritten(r) THEN torn \union {ctx[r].wf} ELSE torn

\* create_workflow up to its flush: the checks passed, the INSERT is in the
\* transaction, the job is not written yet.
BeginCreate(r, w, s) ==
    /\ FreshId(w)
    /\ Begin(r, IF s.cron # NoCron THEN "schedule" ELSE "commit", "create", w, NoBody, s)
    /\ Tears(w, FALSE)

\* _import_workflows: the row with its cron and no agent; nothing is scheduled.
BeginImport(r, w, s) ==
    /\ FreshId(w)
    /\ Begin(r, "commit", "import", w, NoBody, s)
    /\ Tears(w, s.cron # NoCron)

\* Bodies whose job and row do not fit: an agent for a workflow that stays
\* scheduled, a reschedule without a cron in the body.
OddUpdate(b, s) ==
    \/ b.agent \notin {Absent, s.agent} /\ EffectiveCron(b, s) # NoCron
    \/ s.cron # NoCron /\ NeedsReschedule(b, s) /\ b.cron \in {Absent, Null}

\* get_owned_or_404 answered with the committed row.
BeginUpdate(r, w, b) ==
    /\ Exists(w)
    /\ Begin(r, IF NeedsReschedule(b, row[w]) THEN "unschedule" ELSE "rest",
             "update", w, b, row[w])
    /\ Tears(w, OddUpdate(b, row[w]))

BeginDelete(r, w) ==
    /\ Exists(w)
    /\ Begin(r, "unschedule", "delete", w, NoBody, row[w])
    /\ Tears(w, FALSE)

\* Variant: delete_workflow and update_workflow leave the old job.
KeepJob(r) == UNCHANGED job

\* unschedule_workflow: only when the row as read has a cron; a missing job
\* (JobLookupError) is ignored.
RemoveJob(r) ==
    LET c == ctx[r] IN
    IF c.snap.cron # NoCron THEN job' = [job EXCEPT ![c.wf] = NoJob] ELSE UNCHANGED job

\* json.loads is given the body's dictionary: the old job is removed, the new
\* one is not added, and the uncaught TypeError rolls the transaction back.
RaisesOnVars(c) ==
    c.op = "update" /\ EffectiveCron(c.body, c.snap) # NoCron /\ VarsRaise(c.body)

AfterUnschedule(c) ==
    IF c.op = "delete" THEN "commit"
    ELSE IF EffectiveCron(c.body, c.snap) = NoCron THEN "rest" ELSE "schedule"

\* The skills of the workflow, when it has some, are fetched between the two
\* job store writes; without skills the task keeps the event loop.
Unschedule(r) ==
    LET c == ctx[r] IN
    /\ pc[r] = "unschedule" /\ MayRun(r)
    /\ ~RaisesOnVars(c)
    /\ RemoveJob(r)
    /\ Goto(r, AfterUnschedule(c))
    /\ loop' = IF AfterUnschedule(c) = "schedule" /\ ~c.snap.skills THEN r ELSE Free
    /\ UNCHANGED <<row, ctx, crashes, torn>>

UnscheduleRaises(r) ==
    /\ pc[r] = "unschedule" /\ MayRun(r)
    /\ RaisesOnVars(ctx[r])
    /\ RemoveJob(r)
    /\ Finish(r)
    /\ torn' = torn \union {ctx[r].wf}
    /\ UNCHANGED <<row, loop, crashes>>

NewJob(c) == IF c.op = "create" THEN JobOf(c.snap) ELSE JobFor(c.body, c.snap)

\* add_job with replace_existing: the job of that id, if any, is replaced.
Schedule(r) ==
    LET c == ctx[r] IN
    /\ pc[r] = "schedule" /\ MayRun(r)
    /\ NewJob(c).cron \notin BadCrons
    /\ job' = [job EXCEPT ![c.wf] = NewJob(c)]
    /\ Goto(r, IF c.op = "create" THEN "commit" ELSE "rest")
    /\ loop' = Free
    /\ UNCHANGED <<row, ctx, crashes, torn>>

\* Variant: the ValueError is caught and the handler goes on.
ScheduleSwallows(r) ==
    /\ pc[r] = "schedule" /\ MayRun(r)
    /\ NewJob(ctx[r]).cron \in BadCrons
    /\ Goto(r, "rest")
    /\ loop' = Free
    /\ UNCHANGED <<row, job, ctx, crashes, torn>>

\* The ValueError of schedule_workflow is not caught: the transaction is
\* rolled back, what happened to the job store stays.
ScheduleRejects(r) ==
    /\ pc[r] = "schedule" /\ MayRun(r)
    /\ NewJob(ctx[r]).cron \in BadCrons
    /\ Abandon(r)
    /\ loop' = Free
    /\ UNCHANGED <<row, job, crashes>>

\* The job store's database raises: 400 or 500, rollback.
JobStoreFails(r) ==
    /\ "jobstore" \in Faults
    /\ MayRun(r)
    /\ \/ pc[r] = "schedule"
       \/ pc[r] = "unschedule" /\ ctx[r].snap.cron # NoCron
    /\ Abandon(r)
    /\ loop' = Free
    /\ UNCHANGED <<row, job, crashes>>

\* The rest of update_workflow: the name is free, tools, skills and the new
\* agent belong to the user.
Validate(r) ==
    /\ pc[r] = "rest" /\ MayRun(r)
    /\ Goto(r, "commit")
    /\ UNCHANGED <<row, job, ctx, loop, crashes, torn>>

\* 409 for the name, 400 or 404 for tools, skills and agent: only now, after
\* the job store was written.
ValidateRejects(r) ==
    /\ "validation" \in Faults
    /\ pc[r] = "rest" /\ MayRun(r)
    /\ Abandon(r)
    /\ UNCHANGED <<row, job, loop, crashes>>

\* Variant: the UPDATE does not notice that its row is gone.
CommittedUpsert(c) ==
    CASE c.op = "delete" -> Gone
      [] c.op \in {"create", "import"} -> c.snap
      [] c.op = "update" -> Updated(c.body, c.snap)

\* Variant: an update writes every column back as its session holds it.
CommittedWholeRow(c) ==
    CASE c.op = "delete" -> Gone
      [] c.op \in {"create", "import"} -> c.snap
      [] c.op = "update" -> IF ~Exists(c.wf) THEN row[c.wf] ELSE Updated(c.body, c.snap)

\* flush and the commit of get_db.  An UPDATE that finds no row is a
\* StaleDataError, a DELETE that finds none is not; without a changed
\* column there is no UPDATE.
Committed(c) ==
    LET new == Updated(c.body, c.snap) IN
    CASE c.op = "delete" -> Gone
      [] c.op \in {"create", "import"} -> c.snap
      [] c.op = "update" -> IF ~Exists(c.wf) THEN row[c.wf]
                            ELSE Merge(row[c.wf], c.snap, new)

Commit(r) ==
    /\ pc[r] = "commit" /\ MayRun(r)
    /\ row' = [row EXCEPT ![ctx[r].wf] = Committed(ctx[r])]
    /\ Finish(r)
    /\ UNCHANGED <<job, loop, crashes, torn>>

CommitFails(r) ==
    /\ "commit" \in Faults
    /\ pc[r] = "commit" /\ MayRun(r)
    /\ Abandon(r)
    /\ UNCHANGED <<row, job, loop, crashes>>

\* The process dies: open transactions vanish, the job store is kept, and
\* start_scheduler loads it as it is (nothing compares it with the table).
Crash ==
    /\ crashes < MaxCrashes
    /\ crashes' = crashes + 1
    /\ pc' = [r \in Requests |-> "idle"]
    /\ ctx' = [r \in Requests |-> NoCtx]
    /\ loop' = Free
    /\ torn' = torn \union {ctx[r].wf : r \in {q \in Requests : HasWritten(q)}}
    /\ UNCHANGED <<row, job>>

Arrive(r) ==
    \E w \in Workflows :
        \/ \E s \in CreateBodies : BeginCreate(r, w, s)
        \/ \E s \in ImportBodies : BeginImport(r, w, s)
        \/ \E b \in UpdateBodies : BeginUpdate(r, w, b)
        \/ BeginDelete(r, w)

Advance(r) ==
    \/ Unschedule(r)
    \/ UnscheduleRaises(r)
    \/ Schedule(r)
    \/ ScheduleRejects(r)
    \/ JobStoreFails(r)
    \/ Validate(r)
    \/ ValidateRejects(r)
    \/ Commit(r)
    \/ CommitFails(r)

Next ==
    \/ \E r \in Requests : Arrive(r) \/ Advance(r)
    \/ Crash

Spec == Init /\ [][Next]_vars

-----------------------------------------------------------------------------
Ctx == [op : {"none", "create", "import", "update", "delete"}, wf : Workflows \union {NoWf},
        body : Body, snap : Row \union {NoRow}]

\* The stores, the handlers' locals and the event loop hold what their code
\* declares (models.Workflow, scheduler.schedule_workflow, WorkflowUpdate).
TypeOK ==
    /\ row \in [Workflows -> Row \union {NoRow, Gone}]
    /\ job \in [Workflows -> Job \union {NoJob}]
    /\ pc \in [Requests -> {"idle", "unschedule", "schedule", "rest", "commit"}]
    /\ ctx \in [Requests -> Ctx]
    /\ loop \in Requests \union {Free}
    /\ crashes \in 0..MaxCrashes
    /\ torn \subseteq Workflows

\* An update that read the row before a concurrent delete committed cannot
\* bring the workflow back: its UPDATE finds no row (update_workflow's flush).
DeletedStaysDeleted ==
    [][\A w \in Workflows : row[w] = Gone => row'[w] = Gone]_vars

\* WorkflowUpdate has no cron validator, yet a cron that the scheduler rejects
\* never reaches the table through an update, whatever other requests, crashes
\* and failures come between: schedule_workflow raises before the column is set.
UpdateKeepsCronValid ==
    [][\A w \in Workflows :
          row[w] \in Row /\ row'[w] \in Row /\ row'[w].cron \in BadCrons
              => row[w].cron \in BadCrons]_vars

\* What a body without schedule_cron does to the column as committed: nothing,
\* or it clears it.  Naming the template or the variables of a workflow that
\* was read as scheduled assigns the cron that is not in the body.
CronLeftOrCleared(c) ==
    \/ row'[c.wf].cron = row[c.wf].cron
    \/ /\ row'[c.wf].cron = NoCron
       /\ c.snap.cron # NoCron
       /\ c.body.tmpl # Absent \/ c.body.vars # Absent

\* What a concurrent update committed after this one read the row survives in
\* every column that this one's body does not name, schedule_cron excepted: it
\* is cleared by a body that names the template or the variables of a scheduled
\* workflow, and by no other body that does not name it (update_workflow).
UntouchedColumnsSurvive ==
    [][\A r \in Requests :
          LET c == ctx[r] IN
          pc[r] = "commit" /\ pc'[r] = "idle" /\ c.op = "update" /\ Exists(c.wf) =>
              /\ c.body.tmpl = Absent => row'[c.wf].tmpl = row[c.wf].tmpl
              /\ c.body.vars = Absent => row'[c.wf].vars = row[c.wf].vars
              /\ c.body.agent = Absent => row'[c.wf].agent = row[c.wf].agent
              /\ c.body.cron = Absent => CronLeftOrCleared(c)]_vars

\* While no request is at a workflow, the job store agrees with the table: it
\* has a job exactly when its row has a cron, and the job runs that cron with
\* the row's agent, template and variables.  Only three things tear the two
\* apart (torn): requests that meet at one workflow, bodies whose job and row
\* do not fit, and a failure or a crash after the job store was written.
SchedulesAgree ==
    \A w \in Workflows \ torn :
        (\A r \in Requests : ctx[r].wf # w) =>
            job[w] = IF Exists(w) /\ row[w].cron # NoCron THEN JobOf(row[w]) ELSE NoJob

\* "PUT with explicit schedule_cron: null removes the APScheduler job"
\* (tests/test_workflow_routes.py), "field explicitly null (remove the existing
\* schedule)" (workflows/routes.py).
ExplicitNullRemovesJob ==
    [][\A r \in Requests :
          pc[r] = "commit" /\ pc'[r] = "idle" /\ ctx[r].op = "update"
            /\ ctx[r].body.cron = Null => job'[ctx[r].wf] = NoJob]_vars
=============================================================================
