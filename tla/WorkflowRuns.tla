---------------------------- MODULE WorkflowRuns ----------------------------
(***************************************************************************)
(* A workflow run, from the request or the cron job that starts it to the  *)
(* last commit of its database session.  Three executors share the         *)
(* preparation and differ in when they commit:                             *)
(*   sync       POST /run: one transaction, committed by get_db at the end *)
(*   stream     POST /stream: the generator commits once, before it calls  *)
(*              the agent; get_db has committed and closed before the body *)
(*              is produced (fastapi 0.115.12), so nothing commits after   *)
(*   scheduled  the APScheduler job: commits the running record, then the  *)
(*              outcome, then the lessons                                  *)
(* db is what the other sessions see; mem is the status of the run object  *)
(* in the executor's own session.                                          *)
(***************************************************************************)
EXTENDS Naturals

CONSTANTS
    Workflows, Runs,
    KindOf,       \* the executor of each run
    WfOf,         \* the workflow of each run
    MaxTries,     \* attempts of retry_letta_call and of the stream's start
    Faults,       \* which of "prepare", "db", "steps", "lesson" may fail
    MaxCrashes    \* bound on the number of crashes

VARIABLES
    wfs,      \* the workflows in the table
    db,       \* committed status of each run
    mem,      \* status held by the executor's session
    pc,       \* where the executor is
    sess,     \* "broken": a flush failed, the session only accepts a rollback
    tries,    \* attempts made
    sent,     \* attempts that reached the agent
    crashes

exec == <<mem, pc, sess, tries, sent>>
vars == <<wfs, db, exec, crashes>>

Kinds == {"sync", "stream", "scheduled"}
Outcomes == {"completed", "failed"}

ASSUME KindAssumption == KindOf \in [Runs -> Kinds]
ASSUME WfAssumption == WfOf \in [Runs -> Workflows]
ASSUME TriesAssumption == MaxTries \in Nat \ {0}
ASSUME CrashesAssumption == MaxCrashes \in Nat

Init ==
    /\ wfs = Workflows
    /\ db = [r \in Runs |-> "none"]
    /\ mem = [r \in Runs |-> "none"]
    /\ pc = [r \in Runs |-> "new"]
    /\ sess = [r \in Runs |-> "ok"]
    /\ tries = [r \in Runs |-> 0]
    /\ sent = [r \in Runs |-> 0]
    /\ crashes = 0

\* The executor goes from one place to another; its session sees status s.
Step(r, from, to, s) ==
    /\ pc[r] = from
    /\ pc' = [pc EXCEPT ![r] = to]
    /\ mem' = [mem EXCEPT ![r] = s]

Commits(r, s) == db' = [db EXCEPT ![r] = s]
Quiet(r) == UNCHANGED <<wfs, sess, tries, sent, crashes>>

-----------------------------------------------------------------------------
\* The workflow is read, the run is inserted as pending and flushed: the
\* foreign key holds a share lock on the workflow's row.
Prepare(r) ==
    /\ WfOf[r] \in wfs
    /\ Step(r, "new", "prepared", "pending")
    /\ UNCHANGED db /\ Quiet(r)

\* 404, an error event, or a log line of the job.
NotFound(r) ==
    /\ WfOf[r] \notin wfs
    /\ Step(r, "new", "done", "none")
    /\ UNCHANGED db /\ Quiet(r)

\* The handler of the job marks its run failed; the routes just raise.
MarkedFailed(r) == IF KindOf[r] = "scheduled" THEN "failed" ELSE mem[r]

\* A call to Letta or a query of the preparation raises.  A scheduled run is
\* then committed as failed unless its session is lost as well; the others
\* are rolled back with their transaction.
PrepareFails(r) ==
    /\ "prepare" \in Faults
    /\ Step(r, "prepared", "done", MarkedFailed(r))
    /\ \/ KindOf[r] = "scheduled" /\ Commits(r, "failed")
       \/ UNCHANGED db
    /\ Quiet(r)

\* Variant: nobody commits before the call.
LaunchUncommitted(r) ==
    /\ Step(r, "prepared", "calling", "running")
    /\ UNCHANGED db /\ Quiet(r)
\* The run is running.  Only sync does not commit it before the call.
Launch(r) ==
    /\ Step(r, "prepared", "calling", "running")
    /\ IF KindOf[r] = "sync" THEN UNCHANGED db ELSE Commits(r, "running")
    /\ Quiet(r)

LaunchFails(r) ==
    /\ "db" \in Faults
    /\ Step(r, "prepared", "done", "running")
    /\ UNCHANGED db /\ Quiet(r)

-----------------------------------------------------------------------------
\* One attempt of retry_letta_call, or of the stream's start: it may or may
\* not have reached the agent (reached), and is counted.
Attempt(r, reached) ==
    /\ tries' = [tries EXCEPT ![r] = @ + 1]
    /\ sent' = [sent EXCEPT ![r] = IF reached THEN @ + 1 ELSE @]
    /\ UNCHANGED <<wfs, db, sess, crashes>>

\* The agent answers: the outcome is known, or the stream is open.
Answered(r) ==
    /\ IF KindOf[r] = "stream"
       THEN Step(r, "calling", "streaming", mem[r])
       ELSE Step(r, "calling", "answered", "completed")
    /\ Attempt(r, TRUE)

\* Variant: the attempts are not counted.
TransientForever(r) ==
    /\ Step(r, "calling", "calling", mem[r])
    /\ \E reached \in BOOLEAN : Attempt(r, reached)
\* ConnectionError, OSError or TimeoutError: retried until the last attempt.
\* They are none of LETTA_DB_ERRORS, so the job then leaves its own handler.
Transient(r) ==
    /\ IF tries[r] + 1 < MaxTries
       THEN Step(r, "calling", "calling", mem[r])
       ELSE Step(r, "calling",
                 IF KindOf[r] = "scheduled" THEN "aborting" ELSE "answered", "failed")
    /\ \E reached \in BOOLEAN : Attempt(r, reached)

\* Variant: the exception leaves the executor unhandled.
RefusedUnhandled(r) ==
    /\ Step(r, "calling", "done", "running")
    /\ \E reached \in BOOLEAN : Attempt(r, reached)

\* Any other exception is not retried: mark_run_failed, by the job's own handler
\* or, outside LETTA_DB_ERRORS, by the one around it.
Refused(r) ==
    /\ \/ Step(r, "calling", "answered", "failed")
       \/ KindOf[r] = "scheduled" /\ Step(r, "calling", "aborting", "failed")
    /\ \E reached \in BOOLEAN : Attempt(r, reached)

\* The stream ends with its "completed" event (error chunks do not prevent
\* it), or raises while it is read.
StreamEnds(r) ==
    /\ \E o \in Outcomes : Step(r, "streaming", "answered", o)
    /\ UNCHANGED db /\ Quiet(r)

\* The client goes away: the generator is cancelled at whatever await it is,
\* and its session is dropped without a commit.
Disconnect(r) ==
    /\ KindOf[r] = "stream"
    /\ pc[r] \notin {"new", "ending", "done"}
    /\ Step(r, pc[r], "done", mem[r])
    /\ UNCHANGED db /\ Quiet(r)

-----------------------------------------------------------------------------
\* Variant: an UPDATE that finds no row is taken for an insertion.
PersistBlind(r) ==
    /\ Step(r, "answered", "lesson", mem[r])
    /\ IF KindOf[r] = "scheduled" THEN Commits(r, mem[r]) ELSE UNCHANGED db
    /\ Quiet(r)

\* The outcome is written: flushed by sync and stream, committed by scheduled.
\* An UPDATE of a record that is gone is a StaleDataError.
Persist(r) ==
    /\ db[r] # "gone"
    /\ Step(r, "answered", "lesson", mem[r])
    /\ IF KindOf[r] = "scheduled" THEN Commits(r, mem[r]) ELSE UNCHANGED db
    /\ Quiet(r)

\* The write raises: the record is gone, the database is lost, or the agent's
\* answer has no step count (steps_count is NOT NULL; sync replaces it by 0).
\* The job's handler then marks the run failed in its session, cannot commit
\* (PendingRollbackError), and its caller, which looks for a pending run,
\* rolls back.
PersistFails(r) ==
    /\ \/ db[r] = "gone"
       \/ "db" \in Faults
       \/ "steps" \in Faults /\ KindOf[r] = "scheduled" /\ mem[r] = "completed"
    /\ Step(r, "answered", "done", MarkedFailed(r))
    /\ UNCHANGED db /\ Quiet(r)

\* _handle_scheduled_failure: the outcome is committed, or rolled back with an
\* error of that commit; there is no lesson.
Abort(r) ==
    /\ Step(r, "aborting", "done", mem[r])
    /\ \/ db[r] # "gone" /\ Commits(r, mem[r])
       \/ (db[r] = "gone" \/ "db" \in Faults) /\ UNCHANGED db
    /\ Quiet(r)

\* post_run_lesson_extraction: what it flushes stays in the transaction.
Lesson(r) ==
    /\ Step(r, "lesson", "ending", mem[r])
    /\ UNCHANGED db /\ Quiet(r)

\* It swallows a SQLAlchemyError of its flush (also the one of a lesson whose
\* workflow is gone): nothing rolls the session back.
LessonSwallowed(r) ==
    /\ "lesson" \in Faults \/ db[r] = "gone"
    /\ Step(r, "lesson", "ending", mem[r])
    /\ sess' = [sess EXCEPT ![r] = "broken"]
    /\ UNCHANGED <<wfs, db, tries, sent, crashes>>

\* Any other exception leaves the executor, which rolls back.
LessonRaises(r) ==
    /\ "lesson" \in Faults
    /\ Step(r, "lesson", "done", mem[r])
    /\ UNCHANGED db /\ Quiet(r)

\* The last commit: get_db's for sync, none for stream, the lessons' for
\* scheduled.  A broken session refuses it.
Finish(r) ==
    /\ Step(r, "ending", "done", mem[r])
    /\ IF KindOf[r] = "sync" /\ sess[r] = "ok" THEN Commits(r, mem[r]) ELSE UNCHANGED db
    /\ Quiet(r)

FinishFails(r) ==
    /\ "db" \in Faults
    /\ Step(r, "ending", "done", mem[r])
    /\ UNCHANGED db /\ Quiet(r)

-----------------------------------------------------------------------------
\* The transaction that is open holds a lock that a deletion of the workflow
\* waits for: the foreign key of the run or of the lesson it inserted, or the
\* row of the run it updated.
HoldsLock(r) ==
    /\ sess[r] = "ok"
    /\ \/ pc[r] = "prepared"
       \/ KindOf[r] = "sync" /\ pc[r] \in {"calling", "answered", "lesson", "ending"}
       \/ KindOf[r] = "stream" /\ pc[r] \in {"lesson", "ending"}
       \/ KindOf[r] = "scheduled" /\ pc[r] = "ending"

\* delete_workflow's commit: the runs go with the workflow.
DeleteWorkflow(w) ==
    /\ w \in wfs
    /\ \A r \in Runs : WfOf[r] = w => ~HoldsLock(r)
    /\ wfs' = wfs \ {w}
    /\ db' = [r \in Runs |-> IF WfOf[r] = w /\ db[r] # "none" THEN "gone" ELSE db[r]]
    /\ UNCHANGED <<exec, crashes>>

\* The process dies.  What was not committed is gone; nothing looks for
\* running records when it starts again.
Crash ==
    /\ crashes < MaxCrashes
    /\ crashes' = crashes + 1
    /\ pc' = [r \in Runs |-> IF pc[r] = "new" THEN "new" ELSE "done"]
    /\ UNCHANGED <<wfs, db, mem, sess, tries, sent>>

\* The steps the executor takes of its own accord once it started.
Advance(r) ==
    \/ PrepareFails(r) \/ Launch(r) \/ LaunchFails(r)
    \/ Answered(r) \/ Transient(r) \/ Refused(r) \/ StreamEnds(r)
    \/ Persist(r) \/ PersistFails(r) \/ Abort(r)
    \/ Lesson(r) \/ LessonSwallowed(r) \/ LessonRaises(r)
    \/ Finish(r) \/ FinishFails(r)

Next ==
    \/ \E r \in Runs : Prepare(r) \/ NotFound(r) \/ Advance(r) \/ Disconnect(r)
    \/ \E w \in Workflows : DeleteWorkflow(w)
    \/ Crash

Spec == Init /\ [][Next]_vars

\* A call to Letta returns or raises within its client's timeout, and the event
\* loop resumes every coroutine that can run.
FairSpec == Spec /\ \A r \in Runs : WF_vars(Advance(r))

-----------------------------------------------------------------------------
\* The executors stay where their code can be (run_prep, routes, scheduler_tasks).
TypeOK ==
    /\ wfs \subseteq Workflows
    /\ db \in [Runs -> {"none", "pending", "running", "gone"} \union Outcomes]
    /\ mem \in [Runs -> {"none", "pending", "running"} \union Outcomes]
    /\ pc \in [Runs -> {"new", "prepared", "calling", "streaming", "answered",
                        "aborting", "lesson", "ending", "done"}]
    /\ sess \in [Runs -> {"ok", "broken"}]
    /\ tries \in [Runs -> 0..MaxTries]
    /\ sent \in [Runs -> 0..MaxTries]
    /\ crashes \in 0..MaxCrashes

\* "failures during skill attachment don't leave a stuck 'pending' row"
\* (scheduler_tasks): no executor ever commits a pending run.
NoPendingRecord == \A r \in Runs : db[r] # "pending"

\* Whatever the agent was asked by a stream or a job is on record: the run was
\* committed before the call, and neither crash nor disconnect takes it away.
AskedIsRecorded ==
    \A r \in Runs : KindOf[r] # "sync" /\ sent[r] > 0 => db[r] # "none"

\* A sync run shows up with its outcome or not at all: no crash and no failure
\* leaves a record of it that says running (execute_workflow's one commit).
SyncAllOrNothing ==
    \A r \in Runs : KindOf[r] = "sync" => db[r] \in {"none", "gone"} \union Outcomes

\* Every record belongs to a workflow that exists: a run and the deletion of
\* its workflow cannot pass each other (the foreign key of workflow_runs).
RecordHasWorkflow ==
    \A r \in Runs : db[r] \in {"running"} \union Outcomes => WfOf[r] \in wfs

\* A recorded completion is an answer of the agent.
CompletedWasAnswered ==
    \A r \in Runs : db[r] = "completed" => sent[r] > 0

\* The table of runs keeps the promise of RunLifecycle.
Lifecycle == INSTANCE RunLifecycle WITH status <- db
Refines == Lifecycle!Spec

\* Without a crash and with the database up, a scheduled run that is recorded
\* as running gets its outcome (or goes with its workflow).
ScheduledEnds ==
    \A r \in Runs :
        KindOf[r] = "scheduled" /\ db[r] = "running"
            ~> db[r] \in {"gone"} \union Outcomes

\* "Collect content/reasoning for run output" (stream_workflow): a stream that
\* was read to its end leaves its outcome in the table.
StreamOutcomeStored ==
    [][\A r \in Runs :
          KindOf[r] = "stream" /\ pc[r] = "ending" /\ pc'[r] = "done" /\ sess[r] = "ok"
              => db'[r] = mem[r]]_vars
=============================================================================
