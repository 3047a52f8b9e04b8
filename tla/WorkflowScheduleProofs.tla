----------------------- MODULE WorkflowScheduleProofs -----------------------
(***************************************************************************)
(* What the requests on workflows keep for every number of workflows and   *)
(* requests, every alphabet of bodies, every failure and any number of     *)
(* crashes.                                                                *)
(***************************************************************************)
EXTENDS WorkflowSchedule, TLAPS

Inserting == {"create", "import"}

\* What a handler knows at each of its awaits.
HandlerOK(r) ==
    LET c == ctx[r] IN
    /\ pc[r] = "idle" <=> c.op = "none"
    /\ c.op = "none" => c.wf = NoWf
    /\ c.op # "none" => c.wf \in Workflows /\ c.snap \in Row
    /\ c.op \in Inserting => pc[r] \in {"schedule", "commit"} /\ row[c.wf] = NoRow
    /\ c.op \in {"update", "delete"} => row[c.wf] # NoRow
    /\ c.op = "delete" => pc[r] \in {"unschedule", "commit"}
    /\ pc[r] = "unschedule" => c.op \in {"update", "delete"}
    /\ pc[r] = "schedule" => c.op \in {"create", "update"} /\ NewJob(c) \in Job
    /\ c.op = "update" /\ pc[r] \in {"rest", "commit"} => c.body.cron \notin BadCrons

\* Two requests never insert the same id.
InsertsApart ==
    \A r1, r2 \in Requests :
        r1 # r2 /\ ctx[r1].op \in Inserting => ctx[r1].wf # ctx[r2].wf

IInv == TypeOK /\ (\A r \in Requests : HandlerOK(r)) /\ InsertsApart

-----------------------------------------------------------------------------
\* The UPDATE of changed columns yields a row, and each of its columns is the
\* committed one or the session's (Merge, the ORM's unit of work).
LEMMA MergeIsRow ==
    ASSUME NEW a \in Row, NEW s \in Row, NEW n \in Row
    PROVE  /\ Merge(a, s, n) \in Row
           /\ Merge(a, s, n).cron = IF n.cron = s.cron THEN a.cron ELSE n.cron
  BY DEF Merge, Row

\* The attributes that update_workflow assigns make a row.
LEMMA UpdatedIsRow ==
    ASSUME NEW b \in Body, NEW s \in Row
    PROVE  /\ Updated(b, s) \in Row
           /\ Updated(b, s).cron \in {s.cron, b.cron, NoCron}
  BY ValueAssumption, CronAssumption DEF Updated, Given, Row, Body, NeedsReschedule

\* The job that update_workflow schedules is well formed once a cron is left.
LEMMA JobForIsJob ==
    ASSUME NEW b \in Body, NEW s \in Row, EffectiveCron(b, s) # NoCron
    PROVE  JobFor(b, s) \in Job
  BY ValueAssumption, CronAssumption DEF JobFor, EffectiveCron, Given, Row, Body, Job

-----------------------------------------------------------------------------
LEMMA InitIInv == Init => IInv
  <1> SUFFICES ASSUME Init PROVE IInv
    OBVIOUS
  <1>1. NoBody \in Body
    BY DEF NoBody, Body
  <1>2. NoCtx \in Ctx
    BY <1>1 DEF NoCtx, Ctx
  <1>3. TypeOK
    BY <1>2, BoundAssumption DEF Init, TypeOK
  <1>4. \A r \in Requests : HandlerOK(r)
    BY DEF Init, HandlerOK, NoCtx, Inserting
  <1>5. InsertsApart
    BY DEF Init, InsertsApart, NoCtx, Inserting
  <1>. QED
    BY <1>3, <1>4, <1>5 DEF IInv

\* The history variable only ever holds workflows.
LEMMA TearsTyped ==
    ASSUME IInv, NEW w \in Workflows, NEW odd, Tears(w, odd)
    PROVE  torn' \subseteq Workflows
  BY DEF IInv, TypeOK, Tears

LEMMA HasWrittenTyped ==
    ASSUME IInv, NEW r \in Requests
    PROVE  /\ HasWritten(r) => ctx[r].wf \in Workflows
           /\ Abandon(r) => torn' \subseteq Workflows
  BY DEF IInv, TypeOK, HandlerOK, HasWritten, Abandon

\* A request that begins keeps the invariant, given what its handler knows.
LEMMA BeginIInv ==
    ASSUME IInv, NEW r \in Requests, NEW w \in Workflows, NEW s \in Row,
           NEW b \in Body, NEW at, NEW operation,
           Begin(r, at, operation, w, b, s), torn' \subseteq Workflows,
           \/ /\ operation \in Inserting /\ FreshId(w)
              /\ at \in {"schedule", "commit"}
              /\ at = "schedule" => operation = "create" /\ JobOf(s) \in Job
           \/ /\ operation = "update" /\ Exists(w)
              /\ at \in {"unschedule", "rest"}
              /\ at = "rest" => b.cron \notin BadCrons
           \/ operation = "delete" /\ Exists(w) /\ at = "unschedule"
    PROVE  IInv'
  <1>. USE DEF Inserting
  <1>1. TypeOK'
    <2>1. [op |-> operation, wf |-> w, body |-> b, snap |-> s] \in Ctx
      BY DEF Ctx
    <2>. QED
      BY <2>1 DEF IInv, TypeOK, Begin
  <1>2. ASSUME NEW q \in Requests PROVE HandlerOK(q)'
    <2>1. CASE q # r
      BY <2>1 DEF IInv, TypeOK, Begin, HandlerOK, NewJob
    <2>2. CASE q = r
      BY <2>2, LoopAssumption
      DEF IInv, TypeOK, Begin, HandlerOK, NewJob, Exists, FreshId
    <2>. QED
      BY <2>1, <2>2
  <1>3. InsertsApart'
    BY LoopAssumption
    DEF IInv, TypeOK, Begin, HandlerOK, InsertsApart, FreshId, Exists
  <1>. QED
    BY <1>1, <1>2, <1>3 DEF IInv

\* A request that ends without touching the table keeps the invariant.
LEMMA FinishIInv ==
    ASSUME IInv, NEW r \in Requests, Finish(r), UNCHANGED <<row, crashes>>,
           torn' \subseteq Workflows, loop' \in Requests \union {Free}, job' \in [Workflows -> Job \union {NoJob}]
    PROVE  IInv'
  <1>1. NoCtx \in Ctx
    BY DEF NoCtx, Ctx, NoBody, Body
  <1>2. TypeOK'
    BY <1>1 DEF IInv, TypeOK, Finish, Goto
  <1>3. ASSUME NEW q \in Requests PROVE HandlerOK(q)'
    BY DEF IInv, TypeOK, Finish, Goto, HandlerOK, NewJob, NoCtx, Inserting
  <1>4. InsertsApart'
    BY LoopAssumption
    DEF IInv, TypeOK, Finish, Goto, HandlerOK, InsertsApart, NoCtx, Inserting
  <1>. QED
    BY <1>2, <1>3, <1>4 DEF IInv

\* A request that moves on without touching the table keeps the invariant,
\* when the place it moves to is one its handler may be at.
LEMMA GotoIInv ==
    ASSUME IInv, NEW r \in Requests, NEW at, Goto(r, at), UNCHANGED <<row, ctx, crashes, torn>>,
           ctx[r].op \in {"create", "update", "delete"},
           loop' \in Requests \union {Free}, job' \in [Workflows -> Job \union {NoJob}],
           \/ at = "commit"
           \/ ctx[r].op = "update" /\ at = "rest"
           \/ ctx[r].op = "update" /\ at = "schedule" /\ NewJob(ctx[r]) \in Job,
           ctx[r].op = "update" /\ at \in {"rest", "commit"} => ctx[r].body.cron \notin BadCrons
    PROVE  IInv'
  <1>. USE DEF Inserting
  <1>1. TypeOK'
    BY DEF IInv, TypeOK, Goto
  <1>2. ASSUME NEW q \in Requests PROVE HandlerOK(q)'
    <2>1. pc'[q] = (IF q = r THEN at ELSE pc[q]) /\ NewJob(ctx'[q]) = NewJob(ctx[q])
      BY DEF IInv, TypeOK, Goto
    <2>. QED
      BY <2>1 DEF IInv, HandlerOK
  <1>3. InsertsApart'
    BY DEF IInv, InsertsApart
  <1>. QED
    BY <1>1, <1>2, <1>3 DEF IInv

LEMMA ArriveIInv ==
    ASSUME IInv, NEW r \in Requests, Arrive(r)
    PROVE  IInv'
  <1>. USE DEF Inserting
  <1>0. NoBody \in Body
    BY DEF NoBody, Body
  <1>1. PICK w \in Workflows :
          \/ \E s \in CreateBodies : BeginCreate(r, w, s)
          \/ \E s \in ImportBodies : BeginImport(r, w, s)
          \/ \E b \in UpdateBodies : BeginUpdate(r, w, b)
          \/ BeginDelete(r, w)
    BY DEF Arrive
  <1>2. ASSUME NEW s \in CreateBodies, BeginCreate(r, w, s) PROVE IInv'
    <2>1. s \in Row
      BY BodyAssumption
    <2>2. s.cron # NoCron => JobOf(s) \in Job
      BY <2>1 DEF JobOf, Job, Row
    <2>. QED
      BY <1>0, <1>2, <2>1, <2>2, TearsTyped, BeginIInv DEF BeginCreate
  <1>3. ASSUME NEW s \in ImportBodies, BeginImport(r, w, s) PROVE IInv'
    <2>1. s \in Row
      BY BodyAssumption
    <2>. QED
      BY <1>0, <1>3, <2>1, TearsTyped, BeginIInv DEF BeginImport
  <1>4. ASSUME NEW b \in UpdateBodies, BeginUpdate(r, w, b) PROVE IInv'
    <2>1. b \in Body /\ row[w] \in Row
      BY <1>4, BodyAssumption DEF IInv, TypeOK, BeginUpdate, Exists
    <2>2. ~NeedsReschedule(b, row[w]) => b.cron \notin BadCrons
      BY CronAssumption DEF NeedsReschedule
    <2>. QED
      BY <1>4, <2>1, <2>2, TearsTyped, BeginIInv DEF BeginUpdate
  <1>5. ASSUME BeginDelete(r, w) PROVE IInv'
    <2>1. row[w] \in Row
      BY <1>5 DEF IInv, TypeOK, BeginDelete, Exists
    <2>. QED
      BY <1>0, <1>5, <2>1, TearsTyped, BeginIInv DEF BeginDelete
  <1>. QED
    BY <1>1, <1>2, <1>3, <1>4, <1>5

\* What Committed writes, per operation.
LEMMA CommittedValue ==
    ASSUME IInv, NEW r \in Requests, pc[r] = "commit"
    PROVE  LET c == ctx[r] IN
           /\ c.wf \in Workflows
           /\ Committed(c) \in Row \union {Gone}
           /\ row[c.wf] = Gone => Committed(c) = Gone
           /\ c.op = "update" /\ Exists(c.wf) =>
                 Committed(c).cron \in {row[c.wf].cron, NoCron} \union (Crons \ BadCrons)
  <1>. DEFINE c == ctx[r]
  <1>1. c \in Ctx /\ HandlerOK(r)
    BY DEF IInv, TypeOK
  <1>2. c.wf \in Workflows /\ c.snap \in Row /\ c.body \in Body
        /\ c.op \in {"create", "import", "update", "delete"}
    BY <1>1 DEF HandlerOK, Ctx
  <1>3. CASE c.op = "update" /\ Exists(c.wf)
    <2>. DEFINE new == Updated(c.body, c.snap)
    <2>1. row[c.wf] \in Row
      BY <1>2, <1>3 DEF IInv, TypeOK, Exists
    <2>2. new \in Row /\ new.cron \in {c.snap.cron, c.body.cron, NoCron}
      BY <1>2, UpdatedIsRow
    <2>3. Committed(c) = Merge(row[c.wf], c.snap, new)
      BY <1>3 DEF Committed
    <2>4. Merge(row[c.wf], c.snap, new) \in Row
          /\ Merge(row[c.wf], c.snap, new).cron
               = IF new.cron = c.snap.cron THEN row[c.wf].cron ELSE new.cron
      BY <1>2, <2>1, <2>2, MergeIsRow
    <2>5. c.body.cron \notin BadCrons
      BY <1>1, <1>3 DEF HandlerOK
    <2>6. new.cron \in Crons \union {NoCron}
      BY <2>2 DEF Row
    <2>7. new.cron # c.snap.cron => new.cron \in {NoCron} \union (Crons \ BadCrons)
      BY <2>2, <2>5, <2>6
    <2>. QED
      BY <1>2, <1>3, <2>1, <2>3, <2>4, <2>7 DEF Exists
  <1>4. CASE c.op = "update" /\ ~Exists(c.wf)
    <2>1. row[c.wf] = Gone
      BY <1>1, <1>4 DEF HandlerOK, Exists
    <2>. QED
      BY <1>2, <1>4, <2>1 DEF Committed
  <1>5. CASE c.op \in Inserting
    BY <1>1, <1>2, <1>5, RowAssumption DEF HandlerOK, Committed, Inserting
  <1>6. CASE c.op = "delete"
    BY <1>1, <1>2, <1>6 DEF Committed
  <1>. QED
    BY <1>2, <1>3, <1>4, <1>5, <1>6 DEF Inserting

LEMMA CommitIInv ==
    ASSUME IInv, NEW r \in Requests, Commit(r)
    PROVE  IInv'
  <1>. DEFINE c == ctx[r]
  <1>. USE DEF Inserting
  <1>0. NoCtx \in Ctx
    BY DEF NoCtx, Ctx, NoBody, Body
  <1>1. c.wf \in Workflows /\ Committed(c) \in Row \union {Gone}
    BY CommittedValue DEF Commit
  <1>2. row' = [row EXCEPT ![c.wf] = Committed(c)]
        /\ pc' = [pc EXCEPT ![r] = "idle"] /\ ctx' = [ctx EXCEPT ![r] = NoCtx]
        /\ UNCHANGED <<job, loop, crashes, torn>>
    BY DEF Commit, Finish, Goto
  <1>3. TypeOK'
    BY <1>0, <1>1, <1>2 DEF IInv, TypeOK
  <1>4. Committed(c) # NoRow
    BY <1>1, RowAssumption
  <1>5. ASSUME NEW q \in Requests PROVE HandlerOK(q)'
    <2>1. CASE q = r
      BY <1>2, <2>1 DEF IInv, TypeOK, HandlerOK, NoCtx
    <2>2. CASE q # r
      <3>1. ctx'[q] = ctx[q] /\ pc'[q] = pc[q] /\ NewJob(ctx'[q]) = NewJob(ctx[q])
        BY <1>2, <2>2 DEF IInv, TypeOK
      <3>2. HandlerOK(q)
        BY DEF IInv
      <3>3. ctx[q].op \in Inserting => row'[ctx[q].wf] = row[ctx[q].wf]
        BY <1>2, <2>2 DEF IInv, InsertsApart
      <3>4. ctx[q].op \in {"update", "delete"} => row'[ctx[q].wf] # NoRow
        BY <1>2, <1>4, <3>2, <1>1 DEF IInv, TypeOK, HandlerOK
      <3>. QED
        BY <3>1, <3>2, <3>3, <3>4 DEF HandlerOK
    <2>. QED
      BY <2>1, <2>2
  <1>6. InsertsApart'
    BY <1>2, LoopAssumption DEF IInv, TypeOK, HandlerOK, InsertsApart, NoCtx
  <1>. QED
    BY <1>3, <1>5, <1>6 DEF IInv

\* What an update may schedule once its old job is removed.
LEMMA UnscheduleLeads ==
    ASSUME IInv, NEW r \in Requests, pc[r] = "unschedule"
    PROVE  LET c == ctx[r] IN
           /\ c.op \in {"update", "delete"}
           /\ c.op = "update" /\ AfterUnschedule(c) = "schedule" => NewJob(c) \in Job
           /\ c.op = "update" /\ AfterUnschedule(c) = "rest" => c.body.cron \notin BadCrons
           /\ c.op = "update" => AfterUnschedule(c) \in {"rest", "schedule"}
           /\ c.op = "delete" => AfterUnschedule(c) = "commit"
  <1>. DEFINE c == ctx[r]
  <1>1. c \in Ctx /\ HandlerOK(r)
    BY DEF IInv, TypeOK
  <1>2. c.op \in {"update", "delete"} /\ c.snap \in Row /\ c.body \in Body
    BY <1>1 DEF HandlerOK, Ctx
  <1>3. EffectiveCron(c.body, c.snap) # NoCron => JobFor(c.body, c.snap) \in Job
    BY <1>2, JobForIsJob
  <1>4. EffectiveCron(c.body, c.snap) = NoCron => c.body.cron \notin BadCrons
    BY CronAssumption DEF EffectiveCron
  <1>. QED
    BY <1>2, <1>3, <1>4 DEF AfterUnschedule, NewJob

\* A job that passed schedule_workflow's checks came with a cron it accepts.
LEMMA ScheduledCronValid ==
    ASSUME IInv, NEW r \in Requests, pc[r] = "schedule", NewJob(ctx[r]).cron \notin BadCrons
    PROVE  ctx[r].op = "update" => ctx[r].body.cron \notin BadCrons
  BY CronAssumption DEF NewJob, JobFor, EffectiveCron

LEMMA AdvanceIInv ==
    ASSUME IInv, NEW r \in Requests, Advance(r)
    PROVE  IInv'
  <1>0. job \in [Workflows -> Job \union {NoJob}] /\ loop \in Requests \union {Free}
        /\ ctx[r] \in Ctx /\ HandlerOK(r)
    BY DEF IInv, TypeOK
  <1>a. ctx[r].op # "none" => [job EXCEPT ![ctx[r].wf] = NoJob] \in [Workflows -> Job \union {NoJob}]
    BY <1>0 DEF HandlerOK
  <1>1. CASE Unschedule(r)
    <2>1. job' \in [Workflows -> Job \union {NoJob}] /\ loop' \in Requests \union {Free}
      BY <1>0, <1>a, <1>1, UnscheduleLeads DEF Unschedule, RemoveJob
    <2>2. Goto(r, AfterUnschedule(ctx[r])) /\ UNCHANGED <<row, ctx, crashes, torn>>
      BY <1>1 DEF Unschedule
    <2>. QED
      BY <1>1, <2>1, <2>2, UnscheduleLeads, GotoIInv DEF Unschedule
  <1>2. CASE UnscheduleRaises(r)
    <2>1. job' \in [Workflows -> Job \union {NoJob}]
      BY <1>0, <1>a, <1>2, UnscheduleLeads DEF UnscheduleRaises, RemoveJob
    <2>2. torn' \subseteq Workflows
      BY <1>0, <1>2, UnscheduleLeads DEF UnscheduleRaises, HandlerOK, IInv, TypeOK
    <2>. QED
      BY <1>0, <1>2, <2>1, <2>2, FinishIInv DEF UnscheduleRaises
  <1>3. CASE Schedule(r)
    <2>1. ctx[r].op \in {"create", "update"} /\ NewJob(ctx[r]) \in Job
      BY <1>0, <1>3 DEF Schedule, HandlerOK
    <2>2. job' \in [Workflows -> Job \union {NoJob}]
      BY <1>0, <1>3, <2>1 DEF Schedule
    <2>3. ctx[r].op = "update" => ctx[r].body.cron \notin BadCrons
      BY <1>3, ScheduledCronValid DEF Schedule
    <2>. QED
      BY <1>3, <2>1, <2>2, <2>3, GotoIInv DEF Schedule
  <1>4. CASE ScheduleRejects(r)
    BY <1>0, <1>4, HasWrittenTyped, FinishIInv DEF ScheduleRejects, Abandon
  <1>5. CASE JobStoreFails(r)
    BY <1>0, <1>5, HasWrittenTyped, FinishIInv DEF JobStoreFails, Abandon
  <1>6. CASE Validate(r)
    <2>1. ctx[r].op = "update" /\ ctx[r].body.cron \notin BadCrons
      BY <1>0, <1>6 DEF Validate, HandlerOK, Ctx, Inserting
    <2>. QED
      BY <1>0, <1>6, <2>1, GotoIInv DEF Validate
  <1>7. CASE ValidateRejects(r)
    BY <1>0, <1>7, HasWrittenTyped, FinishIInv DEF ValidateRejects, Abandon
  <1>8. CASE Commit(r)
    BY <1>8, CommitIInv
  <1>9. CASE CommitFails(r)
    BY <1>0, <1>9, HasWrittenTyped, FinishIInv DEF CommitFails, Abandon
  <1>. QED
    BY <1>1, <1>2, <1>3, <1>4, <1>5, <1>6, <1>7, <1>8, <1>9 DEF Advance

LEMMA CrashIInv == ASSUME IInv, Crash PROVE IInv'
  <1>1. NoCtx \in Ctx
    BY DEF NoCtx, Ctx, NoBody, Body
  <1>2. TypeOK'
    BY <1>1, BoundAssumption, HasWrittenTyped DEF IInv, TypeOK, Crash
  <1>3. ASSUME NEW q \in Requests PROVE HandlerOK(q)'
    BY DEF Crash, HandlerOK, NoCtx, Inserting
  <1>4. InsertsApart'
    BY DEF Crash, InsertsApart, NoCtx, Inserting
  <1>. QED
    BY <1>2, <1>3, <1>4 DEF IInv

LEMMA NextIInv == IInv /\ [Next]_vars => IInv'
  <1> SUFFICES ASSUME IInv, [Next]_vars PROVE IInv'
    OBVIOUS
  <1>1. ASSUME NEW r \in Requests, Arrive(r) PROVE IInv'
    BY <1>1, ArriveIInv
  <1>2. ASSUME NEW r \in Requests, Advance(r) PROVE IInv'
    BY <1>2, AdvanceIInv
  <1>3. CASE Crash
    BY <1>3, CrashIInv
  <1>4. CASE UNCHANGED vars
    <2>1. \A q \in Requests : HandlerOK(q)'
      BY <1>4 DEF vars, IInv, HandlerOK, NewJob
    <2>. QED
      BY <1>4, <2>1 DEF vars, IInv, TypeOK, InsertsApart
  <1>. QED
    BY <1>1, <1>2, <1>3, <1>4 DEF Next

\* The invariant of the handlers holds throughout.
THEOREM SpecIInv == Spec => []IInv
  BY InitIInv, NextIInv, PTL DEF Spec

\* The two stores and the handlers' locals keep their types (models.Workflow,
\* scheduler.schedule_workflow), whatever races, failures and crashes do.
THEOREM SpecTypeOK == Spec => []TypeOK
  <1>1. IInv => TypeOK
    BY DEF IInv
  <1>. QED
    BY <1>1, SpecIInv, PTL

-----------------------------------------------------------------------------
\* Only Commit writes the table.
LEMMA RowSteps ==
    ASSUME [Next]_vars
    PROVE  row' = row \/ \E r \in Requests : Commit(r)
  BY DEF Next, vars, Arrive, Advance, Begin, BeginCreate, BeginImport, BeginUpdate,
         BeginDelete, Unschedule, UnscheduleRaises, Schedule, ScheduleRejects,
         JobStoreFails, Validate, ValidateRejects, CommitFails, Crash

\* Deleting a workflow is final: no update in flight brings its row back
\* (update_workflow's flush, delete_workflow).
THEOREM DeletionIsFinal == Spec => DeletedStaysDeleted
  <1>1. IInv /\ [Next]_vars =>
          (\A w \in Workflows : row[w] = Gone => row'[w] = Gone)
    <2> SUFFICES ASSUME IInv, [Next]_vars, NEW w \in Workflows, row[w] = Gone
                 PROVE  row'[w] = Gone
      OBVIOUS
    <2>1. ASSUME NEW r \in Requests, Commit(r) PROVE row'[w] = Gone
      BY <2>1, CommittedValue DEF Commit, IInv, TypeOK
    <2>. QED
      BY <2>1, RowSteps
  <1>. QED
    BY <1>1, SpecIInv, PTL DEF Spec, DeletedStaysDeleted

\* A request that is about to commit ends by its commit, or without one.
LEMMA CommitSteps ==
    ASSUME IInv, [Next]_vars, NEW r \in Requests, pc[r] = "commit", pc'[r] = "idle"
    PROVE  row' = row \/ Commit(r)
  <1>1. ASSUME NEW q \in Requests, Commit(q) PROVE q = r
    <2>1. pc' = [pc EXCEPT ![q] = "idle"] /\ DOMAIN pc = Requests
      BY <1>1 DEF Commit, Finish, Goto, IInv, TypeOK
    <2>. QED
      BY <2>1
  <1>. QED
    BY <1>1, RowSteps

\* A column that the body does not name keeps the value of the row as read, so
\* the UPDATE leaves it as it is committed (Merge).
LEMMA UnnamedColumns ==
    ASSUME NEW b \in Body, NEW s \in Row, NEW a \in Row
    PROVE  LET n == Merge(a, s, Updated(b, s)) IN
           /\ b.tmpl = Absent => n.tmpl = a.tmpl
           /\ b.vars = Absent => n.vars = a.vars
           /\ b.agent = Absent => n.agent = a.agent
           /\ b.cron = Absent => n.cron = a.cron \/ (n.cron = NoCron /\ s.cron # NoCron
                                    /\ (b.tmpl # Absent \/ b.vars # Absent))
  <1>1. b.cron = Absent => Updated(b, s).cron = s.cron \/ (Updated(b, s).cron = NoCron
           /\ s.cron # NoCron /\ (b.tmpl # Absent \/ b.vars # Absent))
    BY CronAssumption DEF Updated, NeedsReschedule
  <1>. QED
    BY <1>1 DEF Merge, Updated, Given, Row

\* Two updates of one workflow that overlap do not undo each other's columns:
\* each commits those its body names and, over a cron it read, the NULL that
\* update_workflow assigns when the body names the template or the variables.
THEOREM UpdatesLeaveTheRest == Spec => UntouchedColumnsSurvive
  <1>. DEFINE Survive(r) ==
         LET c == ctx[r] IN
         pc[r] = "commit" /\ pc'[r] = "idle" /\ c.op = "update" /\ Exists(c.wf) =>
             /\ c.body.tmpl = Absent => row'[c.wf].tmpl = row[c.wf].tmpl
             /\ c.body.vars = Absent => row'[c.wf].vars = row[c.wf].vars
             /\ c.body.agent = Absent => row'[c.wf].agent = row[c.wf].agent
             /\ c.body.cron = Absent => CronLeftOrCleared(c)
  <1>1. IInv /\ [Next]_vars => \A r \in Requests : Survive(r)
    <2> SUFFICES ASSUME IInv, [Next]_vars, NEW r \in Requests, pc[r] = "commit", pc'[r] = "idle",
                        ctx[r].op = "update", Exists(ctx[r].wf)
                 PROVE  Survive(r)
      OBVIOUS
    <2>. DEFINE c == ctx[r]
    <2>1. c \in Ctx /\ HandlerOK(r)
      BY DEF IInv, TypeOK
    <2>2. c.wf \in Workflows /\ c.snap \in Row /\ c.body \in Body
      BY <2>1 DEF HandlerOK, Ctx
    <2>3. row[c.wf] \in Row
      BY <2>2 DEF IInv, TypeOK, Exists
    <2>4. CASE Commit(r)
      <3>1. row'[c.wf] = Merge(row[c.wf], c.snap, Updated(c.body, c.snap))
        BY <2>2, <2>4 DEF Commit, Committed, IInv, TypeOK
      <3>. QED
        BY <2>2, <2>3, <3>1, UnnamedColumns DEF CronLeftOrCleared
    <2>5. CASE row' = row
      BY <2>5 DEF CronLeftOrCleared
    <2>. QED
      BY <2>4, <2>5, CommitSteps
  <1>. QED
    BY <1>1, SpecIInv, PTL DEF Spec, UntouchedColumnsSurvive

\* No update, raced, failed or interrupted in any way, puts a cron in the table
\* that the scheduler rejects, although WorkflowUpdate does not validate it.
THEOREM UpdatesKeepCronValid == Spec => UpdateKeepsCronValid
  <1>. DEFINE Kept(w) == row[w] \in Row /\ row'[w] \in Row /\ row'[w].cron \in BadCrons
                           => row[w].cron \in BadCrons
  <1>1. IInv /\ [Next]_vars => \A w \in Workflows : Kept(w)
    <2> SUFFICES ASSUME IInv, [Next]_vars, NEW w \in Workflows PROVE Kept(w)
      OBVIOUS
    <2>1. ASSUME NEW r \in Requests, Commit(r) PROVE Kept(w)
      <3>. DEFINE c == ctx[r]
      <3>1. row' = [row EXCEPT ![c.wf] = Committed(c)] /\ HandlerOK(r) /\ c \in Ctx
        BY <2>1 DEF Commit, IInv, TypeOK
      <3>2. CASE c.wf # w
        BY <3>1, <3>2 DEF IInv, TypeOK
      <3>3. CASE c.wf = w /\ c.op = "update" /\ Exists(w)
        BY <2>1, <3>1, <3>3, CommittedValue, CronAssumption DEF Commit, IInv, TypeOK
      <3>4. CASE c.wf = w /\ c.op = "update" /\ ~Exists(w)
        BY <3>1, <3>4, RowAssumption DEF Exists
      <3>5. CASE c.wf = w /\ c.op = "delete"
        BY <3>1, <3>5, RowAssumption DEF Committed, IInv, TypeOK
      <3>6. CASE c.wf = w /\ c.op \in Inserting
        BY <3>1, <3>6, RowAssumption DEF HandlerOK
      <3>7. c.op # "none"
        BY <2>1, <3>1 DEF Commit, HandlerOK
      <3>. QED
        BY <3>1, <3>2, <3>3, <3>4, <3>5, <3>6, <3>7 DEF Ctx, Inserting
    <2>. QED
      BY <2>1, RowSteps
  <1>. QED
    BY <1>1, SpecIInv, PTL DEF Spec, UpdateKeepsCronValid

-----------------------------------------------------------------------------
\* Why the two stores agree.  A request that is alone at an untorn workflow
\* knows what is in the job store at each of its awaits, and whatever it
\* leaves there is what its row says.

AgreesAt(w) ==
    job[w] = IF Exists(w) /\ row[w].cron # NoCron THEN JobOf(row[w]) ELSE NoJob

JobWanted(s) == IF s.cron # NoCron THEN JobOf(s) ELSE NoJob

JobSoFar(at, c) ==
    CASE c.op = "create" -> IF at = "commit" THEN JobWanted(c.snap) ELSE NoJob
      [] c.op = "import" -> NoJob
      [] c.op = "delete" -> IF at = "commit" THEN NoJob ELSE JobWanted(c.snap)
      [] c.op = "update" -> IF at = "unschedule" THEN JobWanted(c.snap)
                            ELSE IF at = "schedule" THEN NoJob
                            ELSE JobWanted(Updated(c.body, c.snap))

AloneAt(r) ==
    LET c == ctx[r] IN
    c.op # "none" /\ c.wf \notin torn =>
        /\ \A q \in Requests : q # r => ctx[q].wf # c.wf
        /\ c.op \in {"update", "delete"} => row[c.wf] = c.snap
        /\ c.op = "import" => c.snap.cron = NoCron
        /\ c.op = "update" => ~OddUpdate(c.body, c.snap)
        /\ c.op = "update" /\ pc[r] \in {"unschedule", "schedule"}
              => NeedsReschedule(c.body, c.snap)
        /\ job[c.wf] = JobSoFar(pc[r], c)

AgreeInv == SchedulesAgree /\ \A r \in Requests : AloneAt(r)

\* What update_workflow schedules is what it writes: with a cron in the body
\* and the agent of the row, the job and the row carry the same values.
LEMMA JobFitsRow ==
    ASSUME NEW b \in Body, NEW s \in Row, ~OddUpdate(b, s), NeedsReschedule(b, s)
    PROVE  /\ EffectiveCron(b, s) = NoCron => Updated(b, s).cron = NoCron
           /\ EffectiveCron(b, s) # NoCron => JobFor(b, s) = JobWanted(Updated(b, s))
  BY CronAssumption, ValueAssumption
  DEF Body, Row, OddUpdate, NeedsReschedule, EffectiveCron, Updated, JobFor, JobOf,
      JobWanted, Given

\* An update that leaves the schedule alone writes what the job already has.
LEMMA RowFitsJob ==
    ASSUME NEW b \in Body, NEW s \in Row, ~OddUpdate(b, s), ~NeedsReschedule(b, s)
    PROVE  JobWanted(Updated(b, s)) = JobWanted(s)
  BY CronAssumption, ValueAssumption
  DEF Body, Row, OddUpdate, NeedsReschedule, EffectiveCron, Updated, JobOf, JobWanted, Given

\* Nobody else having written the row, the UPDATE yields the session's row.
LEMMA MergeAlone ==
    ASSUME NEW s \in Row, NEW n \in Row
    PROVE  Merge(s, s, n) = n
  <1>1. DOMAIN s = {"cron", "agent", "tmpl", "vars", "skills"}
    BY DEF Row
  <1>2. n = [f \in {"cron", "agent", "tmpl", "vars", "skills"} |-> n[f]]
    BY DEF Row
  <1>. QED
    BY <1>1, <1>2 DEF Merge

\* What an untorn request that has not come to the job store leaves is agreed.
LEMMA NotWrittenAgrees ==
    ASSUME IInv, AgreeInv, NEW r \in Requests, ctx[r].op # "none", ~HasWritten(r),
           ctx[r].wf \notin torn
    PROVE  AgreesAt(ctx[r].wf)
  <1>. DEFINE c == ctx[r]
  <1>1. c \in Ctx /\ HandlerOK(r) /\ AloneAt(r)
    BY DEF IInv, TypeOK, AgreeInv
  <1>2. c.wf \in Workflows /\ c.snap \in Row /\ c.body \in Body
    BY <1>1 DEF HandlerOK, Ctx
  <1>3. CASE c.op \in Inserting
    BY <1>1, <1>2, <1>3 DEF Inserting, HandlerOK, AloneAt, HasWritten, AgreesAt,
                            JobSoFar, JobWanted, Exists
  <1>4. CASE c.op = "delete"
    BY <1>1, <1>2, <1>4, RowAssumption
    DEF HandlerOK, AloneAt, HasWritten, AgreesAt, JobSoFar, JobWanted, Exists
  <1>5. CASE c.op = "update"
    <2>1. row[c.wf] = c.snap /\ Exists(c.wf) /\ ~OddUpdate(c.body, c.snap)
          /\ job[c.wf] = JobSoFar(pc[r], c)
      BY <1>1, <1>2, <1>5, RowAssumption DEF AloneAt, Exists
    <2>2. CASE pc[r] = "unschedule"
      BY <1>5, <2>1, <2>2 DEF AgreesAt, JobSoFar, JobWanted
    <2>3. CASE pc[r] # "unschedule"
      <3>1. ~NeedsReschedule(c.body, c.snap)
        BY <1>5, <2>3 DEF HasWritten
      <3>2. pc[r] # "schedule"
        BY <1>1, <1>5, <3>1 DEF AloneAt
      <3>3. JobWanted(Updated(c.body, c.snap)) = JobWanted(c.snap)
        BY <1>2, <2>1, <3>1, RowFitsJob
      <3>. QED
        BY <1>5, <2>1, <2>3, <3>2, <3>3 DEF AgreesAt, JobSoFar, JobWanted
    <2>. QED
      BY <2>2, <2>3
  <1>. QED
    BY <1>1, <1>3, <1>4, <1>5 DEF Ctx, Inserting

\* A step of a request concerns its own workflow only.
LEMMA StepAgrees ==
    ASSUME IInv, AgreeInv, NEW r \in Requests, ctx[r].op # "none",
           NEW w \in Workflows, w = ctx[r].wf,
           \A q \in Requests : q # r => ctx'[q] = ctx[q] /\ pc'[q] = pc[q],
           \A v \in Workflows : v # w => row'[v] = row[v] /\ job'[v] = job[v],
           torn \subseteq torn',
           \/ ctx'[r] = ctx[r] /\ AloneAt(r)'
           \/ ctx'[r] = NoCtx /\ (w \in torn' \/ AgreesAt(w)')
    PROVE  AgreeInv'
  <1>2. ASSUME NEW v \in Workflows, v \notin torn', \A q \in Requests : ctx'[q].wf # v
        PROVE  AgreesAt(v)'
    <2>1. CASE v = w
      BY <1>2, <2>1
    <2>2. CASE v # w
      <3>1. \A q \in Requests : ctx[q].wf # v
        BY <1>2, <2>2
      <3>. QED
        BY <1>2, <2>2, <3>1 DEF AgreeInv, SchedulesAgree, AgreesAt, Exists
    <2>. QED
      BY <2>1, <2>2
  <1>3. ASSUME NEW q \in Requests, q # r PROVE AloneAt(q)'
    <2>. SUFFICES ASSUME ctx[q].op # "none", ctx[q].wf \notin torn' PROVE AloneAt(q)'
      BY <1>3 DEF AloneAt
    <2>1. AloneAt(q) /\ ctx[q].wf \in Workflows
      BY DEF AgreeInv, IInv, HandlerOK
    <2>2. ctx[q].wf # w
      BY <1>3, <2>1 DEF AloneAt
    <2>3. \A p \in Requests : p # q => ctx'[p].wf # ctx[q].wf
      BY <2>1, <2>2, LoopAssumption DEF AloneAt, NoCtx
    <2>. QED
      BY <1>3, <2>1, <2>2, <2>3 DEF AloneAt, JobSoFar
  <1>4. AloneAt(r)'
    BY DEF AloneAt, NoCtx
  <1>5. SchedulesAgree'
    BY <1>2 DEF SchedulesAgree, AgreesAt
  <1>. QED
    BY <1>3, <1>4, <1>5 DEF AgreeInv

\* The frame of the steps of a request: who ends it, who moves it on.
LEMMA AbandonAgrees ==
    ASSUME IInv, AgreeInv, NEW r \in Requests, ctx[r].op # "none",
           Abandon(r), UNCHANGED <<row, job>>
    PROVE  AgreeInv'
  <1>. DEFINE w == ctx[r].wf
  <1>1. w \in Workflows
    BY DEF IInv, HandlerOK
  <1>2. ctx'[r] = NoCtx /\ torn \subseteq torn'
        /\ \A q \in Requests : q # r => ctx'[q] = ctx[q] /\ pc'[q] = pc[q]
    BY DEF Abandon, Finish, Goto, IInv, TypeOK
  <1>3. \A v \in Workflows : AgreesAt(v) => AgreesAt(v)'
    BY DEF AgreesAt, Exists
  <1>4. w \in torn' \/ AgreesAt(w)
    BY NotWrittenAgrees DEF Abandon
  <1>5. PICK v \in Workflows : v = w
    BY <1>1
  <1>6. v \in torn' \/ AgreesAt(v)'
    BY <1>3, <1>4, <1>5
  <1>. QED
    BY <1>2, <1>5, <1>6, StepAgrees

LEMMA BeginAgrees ==
    ASSUME IInv, AgreeInv, NEW r \in Requests, NEW w \in Workflows, NEW s \in Row,
           NEW b \in Body, NEW at, NEW operation, NEW odd,
           Begin(r, at, operation, w, b, s), Tears(w, odd),
           operation \in {"create", "import", "update", "delete"},
           operation \in Inserting => row[w] = NoRow,
           operation \in {"update", "delete"} => row[w] = s,
           operation = "create" => at = (IF s.cron # NoCron THEN "schedule" ELSE "commit"),
           operation = "import" => at = "commit" /\ (~odd => s.cron = NoCron),
           operation = "delete" => at = "unschedule",
           operation = "update" =>
              /\ at = (IF NeedsReschedule(b, s) THEN "unschedule" ELSE "rest")
              /\ ~odd => ~OddUpdate(b, s)
    PROVE  AgreeInv'
  <1>. DEFINE c == [op |-> operation, wf |-> w, body |-> b, snap |-> s]
  <1>1. /\ ctx'[r] = c /\ pc'[r] = at /\ torn \subseteq torn' /\ row' = row /\ job' = job
        /\ \A q \in Requests : q # r => ctx'[q] = ctx[q] /\ pc'[q] = pc[q]
    BY DEF Begin, Tears, IInv, TypeOK
  <1>2. w \notin torn' => w \notin torn /\ ~odd /\ \A q \in Requests : ctx[q].wf # w
    BY DEF Tears
  <1>3. ctx[r].wf = NoWf
    BY DEF Begin, IInv, HandlerOK
  <1>4. AloneAt(r)'
    <2>. SUFFICES ASSUME w \notin torn' PROVE AloneAt(r)'
      BY <1>1 DEF AloneAt
    <2>1. AgreesAt(w)
      BY <1>2 DEF AgreeInv, SchedulesAgree, AgreesAt
    <2>2. operation = "update" /\ at = "rest" => JobWanted(Updated(b, s)) = JobWanted(s)
      BY <1>2, RowFitsJob
    <2>3. operation \in {"update", "delete"} => job[w] = JobWanted(s)
      BY <2>1, RowAssumption DEF AgreesAt, JobWanted, Exists
    <2>4. operation \in Inserting => job[w] = NoJob
      BY <2>1 DEF AgreesAt, Exists
    <2>5. job[w] = JobSoFar(at, c)
      BY <1>2, <2>2, <2>3, <2>4 DEF JobSoFar, JobWanted, Inserting
    <2>. QED
      BY <1>1, <1>2, <2>5 DEF AloneAt
  <1>5. ASSUME NEW q \in Requests, q # r PROVE AloneAt(q)'
    <2>. SUFFICES ASSUME ctx[q].op # "none", ctx[q].wf \notin torn' PROVE AloneAt(q)'
      BY <1>1, <1>5 DEF AloneAt
    <2>1. AloneAt(q) /\ ctx[q].wf # w
      BY <1>2 DEF AgreeInv
    <2>2. \A p \in Requests : p # q => ctx'[p].wf # ctx[q].wf
      BY <1>1, <2>1 DEF AloneAt
    <2>. QED
      BY <1>1, <1>5, <2>1, <2>2 DEF AloneAt
  <1>6. SchedulesAgree'
    <2>. SUFFICES ASSUME NEW v \in Workflows, v \notin torn', \A q \in Requests : ctx'[q].wf # v
                  PROVE  AgreesAt(v)'
      BY DEF SchedulesAgree, AgreesAt
    <2>1. \A q \in Requests : ctx[q].wf # v
      BY <1>1, <1>3, LoopAssumption
    <2>. QED
      BY <1>1, <2>1 DEF AgreeInv, SchedulesAgree, AgreesAt, Exists
  <1>. QED
    BY <1>4, <1>5, <1>6 DEF AgreeInv

LEMMA ArriveAgrees ==
    ASSUME IInv, AgreeInv, NEW r \in Requests, Arrive(r)
    PROVE  AgreeInv'
  <1>0. NoBody \in Body
    BY DEF NoBody, Body
  <1>1. PICK w \in Workflows :
          \/ \E s \in CreateBodies : BeginCreate(r, w, s)
          \/ \E s \in ImportBodies : BeginImport(r, w, s)
          \/ \E b \in UpdateBodies : BeginUpdate(r, w, b)
          \/ BeginDelete(r, w)
    BY DEF Arrive
  <1>2. ASSUME NEW s \in CreateBodies, BeginCreate(r, w, s) PROVE AgreeInv'
    <2>1. s \in Row /\ row[w] = NoRow
      BY <1>2, BodyAssumption DEF BeginCreate, FreshId
    <2>. QED
      BY <1>0, <1>2, <2>1, BeginAgrees DEF BeginCreate, Inserting
  <1>3. ASSUME NEW s \in ImportBodies, BeginImport(r, w, s) PROVE AgreeInv'
    <2>1. s \in Row /\ row[w] = NoRow
      BY <1>3, BodyAssumption DEF BeginImport, FreshId
    <2>. QED
      BY <1>0, <1>3, <2>1, BeginAgrees DEF BeginImport, Inserting
  <1>4. ASSUME NEW b \in UpdateBodies, BeginUpdate(r, w, b) PROVE AgreeInv'
    <2>1. b \in Body /\ row[w] \in Row
      BY <1>4, BodyAssumption DEF IInv, TypeOK, BeginUpdate, Exists
    <2>. QED
      BY <1>4, <2>1, BeginAgrees DEF BeginUpdate, Inserting
  <1>5. ASSUME BeginDelete(r, w) PROVE AgreeInv'
    <2>1. row[w] \in Row
      BY <1>5 DEF IInv, TypeOK, BeginDelete, Exists
    <2>. QED
      BY <1>0, <1>5, <2>1, BeginAgrees DEF BeginDelete, Inserting
  <1>. QED
    BY <1>1, <1>2, <1>3, <1>4, <1>5

\* A request that moves on keeps its locals; alone, it must know its job.
LEMMA MoveAgrees ==
    ASSUME IInv, AgreeInv, NEW r \in Requests, ctx[r].op # "none", NEW at,
           Goto(r, at), UNCHANGED <<row, ctx, torn>>,
           \A v \in Workflows : v # ctx[r].wf => job'[v] = job[v],
           ctx[r].op = "update" => at \in {"schedule", "rest", "commit"},
           at = "schedule" => pc[r] \in {"unschedule", "schedule"},
           ctx[r].wf \notin torn => job'[ctx[r].wf] = JobSoFar(at, ctx[r])
    PROVE  AgreeInv'
  <1>1. PICK w \in Workflows : w = ctx[r].wf
    BY DEF IInv, HandlerOK
  <1>2. pc'[r] = at /\ \A q \in Requests : q # r => pc'[q] = pc[q]
    BY DEF Goto, IInv, TypeOK
  <1>3. AloneAt(r)'
    <2>1. AloneAt(r)
      BY DEF AgreeInv
    <2>. QED
      BY <1>2, <2>1 DEF AloneAt
  <1>. QED
    BY <1>1, <1>2, <1>3, StepAgrees

LEMMA UnscheduleAgrees ==
    ASSUME IInv, AgreeInv, NEW r \in Requests, Unschedule(r)
    PROVE  AgreeInv'
  <1>. DEFINE c == ctx[r]
  <1>. DEFINE at == AfterUnschedule(c)
  <1>1. c \in Ctx /\ HandlerOK(r) /\ AloneAt(r)
    BY DEF IInv, TypeOK, AgreeInv
  <1>2. c.op \in {"update", "delete"} /\ c.wf \in Workflows /\ c.snap \in Row /\ c.body \in Body
    BY <1>1, UnscheduleLeads DEF HandlerOK, Ctx, Unschedule
  <1>3. \A v \in Workflows : v # c.wf => job'[v] = job[v]
    BY <1>2 DEF Unschedule, RemoveJob, IInv, TypeOK
  <1>4. c.snap.cron # NoCron => job'[c.wf] = NoJob
    BY <1>2 DEF Unschedule, RemoveJob, IInv, TypeOK
  <1>5. ASSUME c.wf \notin torn PROVE job'[c.wf] = NoJob
    <2>1. CASE c.snap.cron = NoCron
      <3>1. job[c.wf] = JobSoFar("unschedule", c) /\ job' = job
        BY <1>1, <1>2, <1>5, <2>1 DEF AloneAt, Unschedule, RemoveJob
      <3>. QED
        BY <1>2, <2>1, <3>1 DEF JobSoFar, JobWanted
    <2>. QED
      BY <1>4, <2>1
  <1>6. ASSUME c.wf \notin torn PROVE JobSoFar(at, c) = NoJob
    <2>1. CASE c.op = "delete"
      BY <2>1 DEF AfterUnschedule, JobSoFar
    <2>2. CASE c.op = "update" /\ EffectiveCron(c.body, c.snap) # NoCron
      BY <2>2 DEF AfterUnschedule, JobSoFar
    <2>3. CASE c.op = "update" /\ EffectiveCron(c.body, c.snap) = NoCron
      <3>1. Updated(c.body, c.snap).cron = NoCron
        BY <1>1, <1>2, <1>6, <2>3, JobFitsRow DEF AloneAt, Unschedule
      <3>. QED
        BY <2>3, <3>1 DEF AfterUnschedule, JobSoFar, JobWanted
    <2>. QED
      BY <1>2, <2>1, <2>2, <2>3
  <1>7. Goto(r, at) /\ UNCHANGED <<row, ctx, torn>> /\ pc[r] = "unschedule"
    BY DEF Unschedule
  <1>8. c.op = "update" => at \in {"schedule", "rest"}
    BY DEF AfterUnschedule
  <1>. HIDE DEF at
  <1>. QED
    BY <1>2, <1>3, <1>5, <1>6, <1>7, <1>8, MoveAgrees

LEMMA ScheduleAgrees ==
    ASSUME IInv, AgreeInv, NEW r \in Requests, Schedule(r)
    PROVE  AgreeInv'
  <1>. DEFINE c == ctx[r]
  <1>. DEFINE at == IF c.op = "create" THEN "commit" ELSE "rest"
  <1>1. c \in Ctx /\ HandlerOK(r) /\ AloneAt(r)
    BY DEF IInv, TypeOK, AgreeInv
  <1>2. c.op \in {"create", "update"} /\ c.wf \in Workflows /\ c.snap \in Row
        /\ c.body \in Body /\ NewJob(c) \in Job
    BY <1>1 DEF HandlerOK, Ctx, Schedule
  <1>3. job'[c.wf] = NewJob(c) /\ \A v \in Workflows : v # c.wf => job'[v] = job[v]
    BY <1>2 DEF Schedule, IInv, TypeOK
  <1>4. ASSUME c.wf \notin torn PROVE NewJob(c) = JobSoFar(at, c)
    <2>1. CASE c.op = "create"
      <3>1. c.snap.cron # NoCron
        BY <1>2, <2>1, CronAssumption DEF NewJob, JobOf, Job
      <3>. QED
        BY <2>1, <3>1 DEF NewJob, JobSoFar, JobWanted
    <2>2. CASE c.op = "update"
      <3>1. EffectiveCron(c.body, c.snap) # NoCron
        <4>1. NewJob(c).cron = EffectiveCron(c.body, c.snap)
          BY <2>2 DEF NewJob, JobFor
        <4>. QED
          BY <1>2, <4>1, CronAssumption DEF Job
      <3>2. JobFor(c.body, c.snap) = JobWanted(Updated(c.body, c.snap))
        BY <1>1, <1>2, <1>4, <2>2, <3>1, JobFitsRow DEF AloneAt, Schedule
      <3>. QED
        BY <2>2, <3>2 DEF NewJob, JobSoFar
    <2>. QED
      BY <1>2, <2>1, <2>2
  <1>5. Goto(r, at) /\ UNCHANGED <<row, ctx, torn>>
    BY DEF Schedule
  <1>6. at \in {"commit", "rest"}
    OBVIOUS
  <1>. HIDE DEF at
  <1>. QED
    BY <1>2, <1>3, <1>4, <1>5, <1>6, MoveAgrees

LEMMA ValidateAgrees ==
    ASSUME IInv, AgreeInv, NEW r \in Requests, Validate(r)
    PROVE  AgreeInv'
  <1>1. HandlerOK(r) /\ AloneAt(r) /\ pc[r] = "rest"
    BY DEF IInv, AgreeInv, Validate
  <1>2. ctx[r].op = "update"
    BY <1>1 DEF HandlerOK, IInv, TypeOK, Ctx, Inserting
  <1>3. JobSoFar("commit", ctx[r]) = JobSoFar("rest", ctx[r])
    BY <1>2 DEF JobSoFar
  <1>. QED
    BY <1>1, <1>2, <1>3, MoveAgrees DEF Validate, AloneAt

LEMMA UnscheduleRaisesAgrees ==
    ASSUME IInv, AgreeInv, NEW r \in Requests, UnscheduleRaises(r)
    PROVE  AgreeInv'
  <1>1. PICK w \in Workflows : w = ctx[r].wf
    BY UnscheduleLeads DEF UnscheduleRaises, IInv, HandlerOK
  <1>2. ctx[r].op # "none" /\ ctx'[r] = NoCtx /\ w \in torn' /\ torn \subseteq torn' /\ row' = row
        /\ \A q \in Requests : q # r => ctx'[q] = ctx[q] /\ pc'[q] = pc[q]
    BY <1>1, UnscheduleLeads DEF UnscheduleRaises, Finish, Goto, IInv, TypeOK
  <1>3. \A v \in Workflows : v # w => job'[v] = job[v]
    BY <1>1 DEF UnscheduleRaises, RemoveJob, IInv, TypeOK
  <1>. QED
    BY <1>1, <1>2, <1>3, StepAgrees

LEMMA CommitAgrees ==
    ASSUME IInv, AgreeInv, NEW r \in Requests, Commit(r)
    PROVE  AgreeInv'
  <1>. DEFINE c == ctx[r]
  <1>0. c \in Ctx /\ HandlerOK(r) /\ AloneAt(r) /\ pc[r] = "commit"
    BY DEF IInv, TypeOK, AgreeInv, Commit
  <1>1. c.op \in {"create", "import", "update", "delete"} /\ c.wf \in Workflows
        /\ c.snap \in Row /\ c.body \in Body
    BY <1>0 DEF HandlerOK, Ctx
  <1>2. PICK w \in Workflows : w = c.wf
    BY <1>1
  <1>3. /\ row'[w] = Committed(c) /\ job' = job /\ torn' = torn /\ ctx'[r] = NoCtx
        /\ \A v \in Workflows : v # w => row'[v] = row[v]
        /\ \A q \in Requests : q # r => ctx'[q] = ctx[q] /\ pc'[q] = pc[q]
    BY <1>1, <1>2 DEF Commit, Finish, Goto, IInv, TypeOK
  <1>4. ASSUME w \notin torn PROVE AgreesAt(w)'
    <2>1. job'[w] = JobSoFar("commit", c)
      BY <1>0, <1>1, <1>2, <1>3, <1>4 DEF AloneAt
    <2>2. CASE c.op = "delete"
      BY <1>3, <2>1, <2>2 DEF AgreesAt, JobSoFar, Committed, Exists
    <2>3. CASE c.op \in Inserting
      <3>1. row'[w] = c.snap /\ Exists(w)'
        BY <1>1, <1>3, <2>3, RowAssumption DEF Committed, Inserting, Exists
      <3>2. c.op = "import" => c.snap.cron = NoCron
        BY <1>0, <1>2, <1>4 DEF AloneAt
      <3>. QED
        BY <2>1, <2>3, <3>1, <3>2 DEF AgreesAt, JobSoFar, JobWanted, Inserting
    <2>4. CASE c.op = "update"
      <3>. DEFINE new == Updated(c.body, c.snap)
      <3>1. row[w] = c.snap /\ Exists(w)
        BY <1>0, <1>1, <1>2, <1>4, <2>4, RowAssumption DEF AloneAt, Exists
      <3>2. new \in Row
        BY <1>1, UpdatedIsRow
      <3>3. Committed(c) = new
        BY <1>1, <1>2, <2>4, <3>1, <3>2, MergeAlone DEF Committed
      <3>4. row'[w] = new /\ Exists(w)'
        BY <1>3, <3>2, <3>3, RowAssumption DEF Exists
      <3>. QED
        BY <2>1, <2>4, <3>4 DEF AgreesAt, JobSoFar, JobWanted
    <2>. QED
      BY <1>1, <2>2, <2>3, <2>4 DEF Inserting
  <1>. QED
    BY <1>1, <1>2, <1>3, <1>4, StepAgrees

LEMMA CrashAgrees ==
    ASSUME IInv, AgreeInv, Crash
    PROVE  AgreeInv'
  <1>1. \A r \in Requests : AloneAt(r)'
    BY DEF Crash, AloneAt, NoCtx
  <1>2. ASSUME NEW v \in Workflows, v \notin torn' PROVE AgreesAt(v)'
    <2>1. v \notin torn /\ \A r \in Requests : HasWritten(r) => ctx[r].wf # v
      BY <1>2 DEF Crash
    <2>2. CASE \A r \in Requests : ctx[r].wf # v
      BY <2>1, <2>2 DEF AgreeInv, SchedulesAgree, AgreesAt, Crash, Exists
    <2>3. ASSUME NEW r \in Requests, ctx[r].wf = v PROVE AgreesAt(v)'
      <3>1. ctx[r].op # "none"
        BY <2>3, LoopAssumption DEF IInv, HandlerOK
      <3>2. AgreesAt(v)
        BY <2>1, <2>3, <3>1, NotWrittenAgrees
      <3>. QED
        BY <3>2 DEF AgreesAt, Crash, Exists
    <2>. QED
      BY <2>2, <2>3
  <1>3. SchedulesAgree'
    BY <1>2 DEF SchedulesAgree, AgreesAt
  <1>. QED
    BY <1>1, <1>3 DEF AgreeInv

LEMMA AdvanceAgrees ==
    ASSUME IInv, AgreeInv, NEW r \in Requests, Advance(r)
    PROVE  AgreeInv'
  <1>1. pc[r] # "idle"
    BY DEF Advance, Unschedule, UnscheduleRaises, Schedule, ScheduleRejects,
           JobStoreFails, Validate, ValidateRejects, Commit, CommitFails
  <1>2. ctx[r].op # "none"
    BY <1>1 DEF IInv, HandlerOK
  <1>3. ASSUME Abandon(r), UNCHANGED <<row, job>> PROVE AgreeInv'
    BY <1>2, <1>3, AbandonAgrees
  <1>. QED
    BY <1>3, UnscheduleAgrees, UnscheduleRaisesAgrees, ScheduleAgrees, ValidateAgrees,
       CommitAgrees
    DEF Advance, ScheduleRejects, JobStoreFails, ValidateRejects, CommitFails

\* The job store agrees with the table at every workflow that no two requests
\* met at, no odd body was sent to and no failure tore, for all of them at once
\* and whatever happens at the others (workflows/routes.py, scheduler.py).
THEOREM StoresAgree == Spec => []SchedulesAgree
  <1>1. Init => AgreeInv
    <2>. SUFFICES ASSUME Init PROVE AgreeInv
      OBVIOUS
    <2>1. \A r \in Requests : AloneAt(r)
      BY DEF Init, AloneAt, NoCtx
    <2>. QED
      BY <2>1 DEF Init, AgreeInv, SchedulesAgree, Exists
  <1>2. IInv /\ AgreeInv /\ [Next]_vars => AgreeInv'
    <2>. SUFFICES ASSUME IInv, AgreeInv, [Next]_vars PROVE AgreeInv'
      OBVIOUS
    <2>1. ASSUME NEW r \in Requests, Arrive(r) PROVE AgreeInv'
      BY <2>1, ArriveAgrees
    <2>2. ASSUME NEW r \in Requests, Advance(r) PROVE AgreeInv'
      BY <2>2, AdvanceAgrees
    <2>3. CASE Crash
      BY <2>3, CrashAgrees
    <2>4. CASE UNCHANGED vars
      BY <2>4 DEF vars, AgreeInv, SchedulesAgree, AloneAt, Exists
    <2>. QED
      BY <2>1, <2>2, <2>3, <2>4 DEF Next
  <1>3. AgreeInv => SchedulesAgree
    BY DEF AgreeInv
  <1>. QED
    BY <1>1, <1>2, <1>3, SpecIInv, PTL DEF Spec
=============================================================================
