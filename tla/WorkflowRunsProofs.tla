------------------------- MODULE WorkflowRunsProofs -------------------------
(***************************************************************************)
(* What the executors keep for every number of workflows and runs, every   *)
(* bound on the attempts, every failure and any number of crashes; and     *)
(* that the table of runs they share implements RunLifecycle.              *)
(***************************************************************************)
EXTENDS WorkflowRuns, TLAPS

Ended == {"answered", "lesson", "ending"}

\* The attempts of a run are counted, and bounded, before each of them.
Counted(r) ==
    /\ sent[r] <= tries[r]
    /\ pc[r] \in {"new", "prepared"} => tries[r] = 0
    /\ pc[r] = "calling" => tries[r] < MaxTries

\* What the executor's object says of the run, at each of its awaits.
Object(r) ==
    /\ pc[r] = "new" => mem[r] = "none"
    /\ pc[r] = "prepared" => mem[r] = "pending"
    /\ pc[r] \in {"calling", "streaming"} => mem[r] = "running"
    /\ pc[r] \in Ended => mem[r] \in Outcomes
    /\ pc[r] = "aborting" => mem[r] = "failed" /\ KindOf[r] = "scheduled"
    /\ pc[r] = "streaming" => KindOf[r] = "stream" /\ sent[r] > 0
    /\ pc[r] \in Ended /\ mem[r] = "completed" => sent[r] > 0
    /\ pc[r] \notin {"ending", "done"} => sess[r] = "ok"

\* What the table says of it, while the executor is at work.
Table(r) ==
    /\ pc[r] \in {"new", "prepared"} => db[r] = "none"
    /\ KindOf[r] = "sync" /\ pc[r] # "done" => db[r] = "none"
    /\ KindOf[r] = "sync" => db[r] \in {"none", "gone"} \union Outcomes
    /\ KindOf[r] = "stream" => db[r] \in {"none", "running", "gone"}
    /\ KindOf[r] # "sync" /\ pc[r] \notin {"new", "prepared", "done"} => db[r] # "none"
    /\ KindOf[r] = "scheduled" /\ pc[r] \in {"calling", "answered", "aborting"}
         => db[r] \in {"running", "gone"}
    /\ db[r] = "completed" => sent[r] > 0
    /\ KindOf[r] # "sync" /\ sent[r] > 0 => db[r] # "none"

\* The workflow of an open transaction is there, and so is that of a record.
Anchored(r) ==
    /\ pc[r] = "prepared" => WfOf[r] \in wfs
    /\ KindOf[r] = "sync" /\ HoldsLock(r) => WfOf[r] \in wfs
    /\ db[r] \in {"running"} \union Outcomes => WfOf[r] \in wfs

RunOK(r) ==
    /\ db[r] # "pending"
    /\ Counted(r) /\ Object(r) /\ Table(r) /\ Anchored(r)

IInv == TypeOK /\ \A r \in Runs : RunOK(r)

-----------------------------------------------------------------------------
LEMMA InitIInv == Init => IInv
  <1> SUFFICES ASSUME Init PROVE IInv
    OBVIOUS
  <1>1. TypeOK
    BY TriesAssumption, CrashesAssumption DEF Init, TypeOK
  <1>2. ASSUME NEW r \in Runs PROVE RunOK(r)
    BY WfAssumption, KindAssumption, TriesAssumption
    DEF Init, RunOK, Counted, Object, Table, Anchored, HoldsLock, Ended, Outcomes
  <1>. QED
    BY <1>1, <1>2 DEF IInv

\* An executor's step is the business of its own run: a step of r that keeps
\* the types and RunOK of r keeps the invariant.
LEMMA OwnRun ==
    ASSUME IInv, NEW r \in Runs, TypeOK', RunOK(r)', UNCHANGED wfs,
           \A q \in Runs \ {r} :
               /\ db'[q] = db[q] /\ mem'[q] = mem[q] /\ pc'[q] = pc[q]
               /\ sess'[q] = sess[q] /\ tries'[q] = tries[q] /\ sent'[q] = sent[q]
    PROVE  IInv'
  <1>1. ASSUME NEW q \in Runs PROVE RunOK(q)'
    <2>1. CASE q = r
      BY <2>1
    <2>2. CASE q # r
      BY <2>2 DEF IInv, RunOK, Counted, Object, Table, Anchored, HoldsLock
    <2>. QED
      BY <2>1, <2>2
  <1>. QED
    BY <1>1 DEF IInv

LEMMA StartIInv ==
    ASSUME IInv, NEW r \in Runs,
           Prepare(r) \/ NotFound(r) \/ PrepareFails(r) \/ Launch(r) \/ LaunchFails(r)
    PROVE  IInv'
  <1>. USE KindAssumption, WfAssumption, TriesAssumption
       DEF IInv, TypeOK, RunOK, Counted, Object, Table, Anchored, HoldsLock, Ended,
           Outcomes, Kinds, Step, Commits, Quiet, MarkedFailed
  <1>1. CASE Prepare(r)
    BY <1>1, OwnRun DEF Prepare
  <1>2. CASE NotFound(r)
    BY <1>2, OwnRun DEF NotFound
  <1>3. CASE PrepareFails(r)
    BY <1>3, OwnRun DEF PrepareFails
  <1>4. CASE Launch(r)
    BY <1>4, OwnRun DEF Launch
  <1>5. CASE LaunchFails(r)
    BY <1>5, OwnRun DEF LaunchFails
  <1>. QED
    BY <1>1, <1>2, <1>3, <1>4, <1>5

LEMMA CallIInv ==
    ASSUME IInv, NEW r \in Runs,
           Answered(r) \/ Transient(r) \/ Refused(r) \/ StreamEnds(r) \/ Disconnect(r)
    PROVE  IInv'
  <1>. USE KindAssumption, WfAssumption, TriesAssumption
       DEF IInv, TypeOK, RunOK, Counted, Object, Table, Anchored, HoldsLock, Ended,
           Outcomes, Kinds, Step, Attempt, Quiet
  <1>1. CASE Answered(r)
    BY <1>1, OwnRun DEF Answered
  <1>2. CASE Transient(r)
    BY <1>2, OwnRun DEF Transient
  <1>3. CASE Refused(r)
    BY <1>3, OwnRun DEF Refused
  <1>4. CASE StreamEnds(r)
    BY <1>4, OwnRun DEF StreamEnds
  <1>5. CASE Disconnect(r)
    BY <1>5, OwnRun DEF Disconnect
  <1>. QED
    BY <1>1, <1>2, <1>3, <1>4, <1>5

LEMMA EndIInv ==
    ASSUME IInv, NEW r \in Runs,
           \/ Persist(r) \/ PersistFails(r) \/ Abort(r)
           \/ Lesson(r) \/ LessonSwallowed(r) \/ LessonRaises(r)
           \/ Finish(r) \/ FinishFails(r)
    PROVE  IInv'
  <1>. USE KindAssumption, WfAssumption, TriesAssumption
       DEF IInv, TypeOK, RunOK, Counted, Object, Table, Anchored, HoldsLock, Ended,
           Outcomes, Kinds, Step, Commits, Quiet, MarkedFailed
  <1>1. CASE Persist(r)
    BY <1>1, OwnRun DEF Persist
  <1>2. CASE PersistFails(r)
    BY <1>2, OwnRun DEF PersistFails
  <1>3. CASE Abort(r)
    BY <1>3, OwnRun DEF Abort
  <1>4. CASE Lesson(r)
    BY <1>4, OwnRun DEF Lesson
  <1>5. CASE LessonSwallowed(r)
    BY <1>5, OwnRun DEF LessonSwallowed
  <1>6. CASE LessonRaises(r)
    BY <1>6, OwnRun DEF LessonRaises
  <1>7. CASE Finish(r)
    BY <1>7, OwnRun DEF Finish
  <1>8. CASE FinishFails(r)
    BY <1>8, OwnRun DEF FinishFails
  <1>. QED
    BY <1>1, <1>2, <1>3, <1>4, <1>5, <1>6, <1>7, <1>8

\* A deletion waits for every lock: it meets no run whose transaction is open.
LEMMA DeleteIInv ==
    ASSUME IInv, NEW w \in Workflows, DeleteWorkflow(w)
    PROVE  IInv'
  <1>1. TypeOK'
    BY DEF IInv, TypeOK, DeleteWorkflow, exec, Outcomes
  <1>2. ASSUME NEW r \in Runs PROVE RunOK(r)'
    <2>1. CASE WfOf[r] # w
      BY <2>1 DEF IInv, TypeOK, RunOK, DeleteWorkflow, exec,
                  Counted, Object, Table, Anchored, HoldsLock, Outcomes
    <2>2. CASE WfOf[r] = w
      <3>1. ~HoldsLock(r) /\ db'[r] \in {"none", "gone"} /\ (db'[r] = "none" <=> db[r] = "none")
        BY <2>2 DEF DeleteWorkflow, IInv, TypeOK, Outcomes
      <3>2. pc[r] # "prepared" /\ (KindOf[r] = "sync" /\ pc[r] \in Ended => sess[r] # "ok")
        BY <3>1 DEF HoldsLock, IInv, RunOK, Object, Ended
      <3>3. HoldsLock(r)' = HoldsLock(r)
        BY DEF DeleteWorkflow, exec, HoldsLock
      <3>. QED
        BY <3>1, <3>2, <3>3 DEF IInv, RunOK, DeleteWorkflow, exec,
                  Counted, Object, Table, Anchored, Outcomes, Ended
    <2>. QED
      BY <2>1, <2>2
  <1>. QED
    BY <1>1, <1>2 DEF IInv

LEMMA CrashIInv == IInv /\ Crash => IInv'
  <1> SUFFICES ASSUME IInv, Crash PROVE IInv'
    OBVIOUS
  <1>1. TypeOK'
    BY CrashesAssumption DEF IInv, TypeOK, Crash
  <1>2. ASSUME NEW r \in Runs PROVE RunOK(r)'
    BY DEF IInv, TypeOK, RunOK, Crash, Counted, Object, Table, Anchored, HoldsLock,
           Ended, Outcomes
  <1>. QED
    BY <1>1, <1>2 DEF IInv

LEMMA NextIInv == IInv /\ [Next]_vars => IInv'
  <1> SUFFICES ASSUME IInv, [Next]_vars PROVE IInv'
    OBVIOUS
  <1>1. ASSUME NEW r \in Runs, Prepare(r) \/ NotFound(r) \/ Advance(r) \/ Disconnect(r)
        PROVE  IInv'
    BY <1>1, StartIInv, CallIInv, EndIInv DEF Advance
  <1>2. ASSUME NEW w \in Workflows, DeleteWorkflow(w) PROVE IInv'
    BY <1>2, DeleteIInv
  <1>3. CASE Crash
    BY <1>3, CrashIInv
  <1>4. CASE UNCHANGED vars
    BY <1>4 DEF vars, exec, IInv, TypeOK, RunOK, Counted, Object, Table, Anchored, HoldsLock
  <1>. QED
    BY <1>1, <1>2, <1>3, <1>4 DEF Next

\* The invariant of the executors holds throughout.
THEOREM SpecIInv == Spec => []IInv
  BY InitIInv, NextIInv, PTL DEF Spec

\* The executors keep their types, and never try more than MaxTries times
\* (retry_letta_call, stream_letta_response).
THEOREM SpecTypeOK == Spec => []TypeOK
  <1>1. IInv => TypeOK
    BY DEF IInv
  <1>. QED
    BY <1>1, SpecIInv, PTL

\* No failure of the preparation leaves a pending record
\* (execute_scheduled_workflow, prepare_workflow_run).
THEOREM PendingNeverStored == Spec => []NoPendingRecord
  <1>1. IInv => NoPendingRecord
    BY DEF IInv, RunOK, NoPendingRecord
  <1>. QED
    BY <1>1, SpecIInv, PTL

\* No message of a stream or of a job reaches the agent without a record, and
\* nothing that happens later erases its trace (_run_scheduled_workflow,
\* stream_workflow: the commit before the call).
THEOREM NothingAskedOffTheRecord == Spec => []AskedIsRecorded
  <1>1. IInv => AskedIsRecorded
    BY DEF IInv, RunOK, Table, AskedIsRecorded
  <1>. QED
    BY <1>1, SpecIInv, PTL

\* A sync run is in the table with its outcome or not at all (get_db).
THEOREM SyncIsAtomic == Spec => []SyncAllOrNothing
  <1>1. IInv => SyncAllOrNothing
    BY DEF IInv, RunOK, Table, SyncAllOrNothing
  <1>. QED
    BY <1>1, SpecIInv, PTL

\* A run and the deletion of its workflow never pass each other
\* (delete_workflow, the foreign key of workflow_runs).
THEOREM RecordsAreAnchored == Spec => []RecordHasWorkflow
  <1>1. IInv => RecordHasWorkflow
    BY DEF IInv, RunOK, Anchored, RecordHasWorkflow
  <1>. QED
    BY <1>1, SpecIInv, PTL

\* A run recorded as completed was answered by the agent, whatever was retried.
THEOREM CompletionsAreAnswers == Spec => []CompletedWasAnswered
  <1>1. IInv => CompletedWasAnswered
    BY DEF IInv, RunOK, Table, CompletedWasAnswered
  <1>. QED
    BY <1>1, SpecIInv, PTL

-----------------------------------------------------------------------------
\* A step of RunLifecycle that leaves all runs but r as they are.
LEMMA OneRun ==
    ASSUME NEW r \in Runs, NEW s, db' = [db EXCEPT ![r] = s], IInv,
           \/ s = db[r]
           \/ s = "running" /\ db[r] = "none"
           \/ s \in Outcomes /\ db[r] \in {"none", "running"}
    PROVE  [Lifecycle!Next]_db
  <1>1. CASE s = db[r]
    BY <1>1 DEF IInv, TypeOK
  <1>2. CASE s = "running" /\ db[r] = "none"
    BY <1>2 DEF Lifecycle!Next, Lifecycle!Start
  <1>3. CASE s \in Outcomes /\ db[r] \in {"none", "running"}
    BY <1>3 DEF Lifecycle!Next, Lifecycle!End, Outcomes, Lifecycle!Outcomes
  <1>. QED
    BY <1>1, <1>2, <1>3

\* Every step of the executors is a step of the table's lifecycle, or none.
LEMMA NextRefines == IInv /\ [Next]_vars => [Lifecycle!Next]_db
  <1> SUFFICES ASSUME IInv, [Next]_vars PROVE [Lifecycle!Next]_db
    OBVIOUS
  <1>1. ASSUME NEW r \in Runs, Prepare(r) \/ NotFound(r) \/ Advance(r) \/ Disconnect(r),
               db' # db
        PROVE  \E s : /\ db' = [db EXCEPT ![r] = s]
                      /\ \/ s = "running" /\ db[r] = "none"
                         \/ s \in Outcomes /\ db[r] \in {"none", "running"}
                         \/ s = db[r]
    <2>. USE DEF IInv, TypeOK, RunOK, Object, Table, Step, Commits, Ended, Outcomes
    <2>1. CASE Launch(r)
      BY <2>1, <1>1 DEF Launch
    <2>2. CASE PrepareFails(r)
      BY <2>2, <1>1 DEF PrepareFails
    <2>3. CASE Persist(r)
      BY <2>3, <1>1 DEF Persist
    <2>4. CASE Abort(r)
      BY <2>4, <1>1 DEF Abort
    <2>5. CASE Finish(r)
      BY <2>5, <1>1 DEF Finish
    <2>6. CASE \/ Prepare(r) \/ NotFound(r) \/ Disconnect(r) \/ LaunchFails(r)
               \/ Answered(r) \/ Transient(r) \/ Refused(r) \/ StreamEnds(r)
               \/ PersistFails(r) \/ Lesson(r) \/ LessonSwallowed(r)
               \/ LessonRaises(r) \/ FinishFails(r)
      BY <2>6, <1>1
      DEF Prepare, NotFound, Disconnect, LaunchFails, Answered, Transient, Refused,
          StreamEnds, PersistFails, Lesson, LessonSwallowed, LessonRaises,
          FinishFails, Attempt
    <2>. QED
      BY <1>1, <2>1, <2>2, <2>3, <2>4, <2>5, <2>6 DEF Advance
  <1>2. ASSUME NEW w \in Workflows, DeleteWorkflow(w) PROVE Lifecycle!Next
    <2>. DEFINE S == {r \in Runs : WfOf[r] = w}
    <2>1. Lifecycle!Purge(S)
      BY <1>2 DEF DeleteWorkflow, Lifecycle!Purge
    <2>. QED
      BY <2>1 DEF Lifecycle!Next
  <1>3. CASE Crash \/ UNCHANGED vars
    BY <1>3 DEF Crash, vars
  <1>. QED
    BY <1>1, <1>2, <1>3, OneRun DEF Next

\* The table of runs is what its readers take it for (list_runs, get_run, the
\* average of update_lesson_utility): an outcome, once recorded, is final.
THEOREM RunsImplementLifecycle == Spec => Refines
  <1>1. Init => Lifecycle!Init
    BY DEF Init, Lifecycle!Init
  <1>. QED
    BY <1>1, NextRefines, SpecIInv, PTL DEF Spec, Refines, Lifecycle!Spec
=============================================================================
