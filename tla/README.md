# A TLA+ model of the Delta backend

This directory models the parts of the repository whose correctness depends on
the order of things: requests that overlap in one event loop, transactions that
commit late, calls to Letta that fail half-way, a process that dies between two
commits.  TLC checks the models on small instances; TLAPS proves the most
important properties for every value of the constants.

* `X.tla` models a component, `MCX.tla` and `MCX*.cfg` instantiate it for TLC,
  `XProofs.tla` holds its theorems.  `SharedState` composes four components, which
  `MCSharedState` checks and `SharedStateProofs` proves about; `MCProgress` checks
  the liveness of three (see the end of section 2).
* `PROJECT.json` lists the components, the runs, the variants (mutants) that show
  each property can fail, the source lines behind every definition, the hazards,
  the findings and the theorems.

To check: `tlc -config MCToolToggle.cfg MCToolToggle.tla` and
`tlapm ToolToggleProofs.tla`.

## 1. The system

One uvicorn process runs a FastAPI application on one asyncio loop.  PostgreSQL
holds the tables and, through an engine of its own, the APScheduler job store.
Letta, a separate server, holds the agents, their tools, memory blocks and
passages, and calls the backend back when an agent uses one of its tools.  The
Letta SDK is synchronous: its calls wait in the default thread executor.  A
sidecar installs pip packages in a shared volume; an eval container drives
agents through the backend; a React frontend calls the API.

Every request gets a session from `get_db`, which commits after the handler
returned and rolls back when it raised (`database.py:180-189`).  A streaming
response is different: its generator runs after `get_db` has committed and
closed, with the same session.  Scheduled runs open sessions of their own.

| Component | State it keeps | Operations | What makes it hard | What makes it correct |
|---|---|---|---|---|
| Workflow definitions and schedule | `workflows` rows; jobs in the job store | create, import, update, delete | two stores, one of which commits at once; update works on a row it read earlier | the stores agree between requests; nothing deleted returns; what an update does not name survives it, the cron excepted |
| Workflow runs | `workflow_runs` rows; the executor's object | sync, streamed and scheduled execution, disconnect, crash, deletion of the workflow | three executors with three commit patterns, retries, nested handlers, a swallowed database error | a record is running or final, a final one stays; nobody asks an agent off the record; scheduled runs end |
| Lessons | `lessons` rows with score and usage | load, count, store, evict, rescore, delete | read-modify-write of whole transactions that overlap; row locks held during a call to the agent | the cap, no low score, no lost counts, every run ends |
| Tool toggle, settings, chat | `user_settings` row; attached tools, status block | change the setting, bring an agent's tools into line, tell the agent | four tools, each with three calls that may fail silently; the setting changes meanwhile; first use inserts the row in a transaction that stays open | one undisturbed request repairs everything; the block and the note say what is true; nobody waits in a circle |
| Tool registry | `tools` rows, tools in Letta | create, import, propose, approve, reject, update, delete | a Letta call between the check and the commit; what Letta was told is not rolled back | one Letta tool, with the row's code, per active row; what was reviewed is what is activated |
| Agents | `agents` rows, agents in Letta | create, update, delete | two stores, swallowed failures | no agent without a row, no row without an agent |
| Authentication | `users` rows; tokens outside | register, login, change password, logout | tokens outlive the state they were made from | one first administrator; old tokens die |
| Credentials | `credentials` rows; environment of every agent | create, update, delete, sync | pushed before the commit, agent by agent, in any order | agents end up with the committed credentials |
| Archival memory | passages in Letta | insert skills and lessons | deduplicated by a tag, not by content | an agent reads the current text |
| Skills, export/import | rows and links | import in a loop | one item of several fails | names unique, the rest imported |
| Letta client, streaming | thread, queue, retries | call, retry, stream | a producer thread and a consumer that may leave | a stream ends once; bounded attempts |
| Start-up, audit, logs, sidecar, evals | schema revision, log files, volume | init_db, rotation, pip, eval run | crash between steps, concurrent writers | restart recognises the schema; no lost lines |
| Source checks, URL checks, encryption, parsing, dashboards, frontend | none, or only what is on the screen | pure functions, read-only queries, forms | — | unit tests |

### How they interact

* A **workflow run** reads the workflow, loads lessons, attaches tools, brings the
  toggled tools into line, inserts the run record, calls the agent, stores the
  outcome, extracts a lesson.  In a sync run all of it is one transaction.
* The **scheduler** calls the same preparation through `scheduler_tasks`, with
  three commits and its own handlers, but never touches the tool toggle.
* An **agent's tool** calls back into the backend (`/api/tools/propose/agent`,
  `/api/docs/fetch/agent`) while the request that asked the agent still waits.
* **Deleting a workflow** cascades to its runs and lessons, and waits for the
  row locks of transactions that refer to it.

## 2. The modules

### WorkflowSchedule

Two stores: `row`, the committed table, and `job`, the job store, whose every
write is committed on the spot.  `pc` and `ctx` are a handler's place and local
variables; a step is the code between two awaits.  `Begin*` reads, `Unschedule`
and `Schedule` write jobs (`loop` marks a task between two job writes without an
await, where only a crash can fall), `Validate` is what may still raise,
`Commit` is `get_db`'s.  Failures: the job store, the validation, the commit.
A crash drops every handler and keeps both stores.

| Run | Instance | Shows |
|---|---|---|
| `schedule` | one workflow, two requests of every kind with every kind of body, all failures, one crash | the two stores agree wherever nothing tore them apart; deletion is final; an update never stores a cron the scheduler rejects; columns that an update does not name keep what another request wrote, but for the cron, which a body with a template or variables clears |
| `schedule_null` | explicit `schedule_cron: null` | violation: the job stays |

`torn` is a history variable (no step reads it): the workflows at which two
requests met, or that a body came to whose job and row do not fit (`OddUpdate`,
an import with a cron), or whose handler failed or died after the job store was
written.  `SchedulesAgree` speaks of all the others; it says that nothing else
tears the stores apart, and what it excepts is the list of what does.

`UntouchedColumnsSurvive` is about the table alone.  Template, variables and agent
survive every update that does not name them.  The cron column does not: line 228
of `workflows/routes.py` assigns it from any body that reschedules, also one that
does not name it.  `CronLeftOrCleared` says exactly what such a body does: it clears
the cron of a workflow that it read as scheduled if it names the template or the
variables, and otherwise leaves it.

Two requests are enough for every pairwise race; a third only repeats one of
them.  Two crons, templates and agents are what it takes to tell old from new.

### RunLifecycle and WorkflowRuns

`RunLifecycle` is the abstract specification: what the readers of the table rely
on.  `WorkflowRuns` has `db` (the committed status), `mem` (the status of the
executor's object), `pc`, `sess` (a session that a swallowed error has broken),
`tries` and `sent` (attempts, and those that reached the agent).  One action per
step of the executors: `Prepare`, `Launch`, `Answered`/`Transient`/`Refused`/
`StreamEnds`, `Persist`, `Lesson*`, `Finish`, with their failures, `Disconnect`,
`DeleteWorkflow` (which waits for the locks of open transactions) and `Crash`.

| Run | Instance | Shows |
|---|---|---|
| `runs` | a sync run, a stream and a job, two workflows, two attempts, every failure, one crash | `Refines`: the table implements RunLifecycle; what a stream or a job asked is on record |
| `progress` | a sync run and a job on one workflow, two attempts | a recorded scheduled run gets its outcome |
| `runs_stream` | one stream, no failure | violation, see 5 |

Fairness: `WF_vars(Advance(r))` for each run: a call to Letta returns or raises
within the client's timeout, and the loop resumes what can run.  Nothing is
assumed of crashes, disconnects and deletions.  `progress` excludes crashes
(nothing resumes a run after a restart) and failing commits (see 5).  That no
record is pending, that a sync run is recorded with its outcome or not at all,
and that a record has its workflow are proved, and not run.

### Lessons

`row` is the committed table of one workflow's lessons, `dirty[r]` what run `r`'s
open transaction has written and locked, `seen[r]` the rows of its last query,
`pc`, `kind` and `verdict` its place, executor and outcome.  READ COMMITTED is
modelled as it is: a query sees the committed rows and the transaction's own, a
flush waits for the rows others hold, writes the value computed from the row as
read, fails with `StaleDataError` when the row is gone, and is the victim when
transactions wait for each other in a circle.  Scores are in halves.

| Run | Instance | Shows |
|---|---|---|
| `lessons` | two runs of every kind, cap 1, up to one lesson over it, owner's deletions | no score below -3; no deleted lesson comes back; runs that nobody works beside keep the cap |
| `progress` | two sync runs, three lessons | both end, whatever they lock |
| `lessons_cap` | two overlapping runs | violation, see 5 |

`mingled` is a history variable: the runs that another run, or the owner, worked
beside since they began.

Fairness: weak for steps that need no lock, strong for flushes (PostgreSQL serves
the waiters of a row in turn).  Among the lessons that earlier runs left is one
at the lowest score, so that one bad run crosses the threshold.

### ToolToggle

`row` is the committed settings row and `holder` the request whose uncommitted
transaction made it; `attached` and `block` are the agent's toggled tools and
status block in Letta; `req[r]` is what request `r` is at, and has read.  A
request goes through `get_or_create_settings` (`ReadSettings`, `ToInsert`,
`InsertSettings`), the list, the switch and the block of each tool in turn
(`List`, `Switch`, `UpdateBlock`, each with its swallowed failure), and sends its
message (`Ask`, `CallBack`, `CallReturns`, `Answer`); `Apply` is
`update_settings`, `Abort` every way a request is cut short.  The setting is
queried again for each tool: the session's identity map holds objects weakly, and
`_ensure_tool_setting` drops its reference, except under `eval_chat`, which keeps
one (`pinned`).  Attaching is two calls (create, attach) and one action: what is
left when only the first succeeds is a tool on no agent.  An agent is new, or
earlier requests have left it with any part of the tools (`Left`): a setting that
changes between two tools is enough for that.

| Run | Instance | Shows |
|---|---|---|
| `toggle` | two requests of five kinds, two tools, an agent that is new or was served before, one failure, callbacks | one undisturbed request leaves exactly what the setting says; its message goes out with a block that is true of all its tools, unless a call failed or requests overlapped; no callback waits for its own caller; every request ends |

`BlockAgrees` is about a request whose setting nobody changed between two tools
(`clean`).  Any other sends its message to an agent with a part of the tools beside
a block that says all four, or none (`agents/tools.py:231`); the next undisturbed
request finds that, and makes tools and block agree.  A failed call is not mended in
the same way: the block is only written after a tool was moved.

Two tools show every partial state (none, first, second, both); the proofs are
for any list of them.  Fairness: weak, for the steps a request takes by itself.
`clean` and `shared` are history: no step reads them.

### ToolRegistry

`rows` is the `tools` table (`.by` is the transaction that still hides a row),
`letta` Letta's tools, `reqs[q]` what a request is at and what it has read.  A
handler is cut at each call to Letta and at its commit: `Begin*` authorises and
reads; `Register`, `LettaUpdate`, `LettaDelete`, `DryRun` and `DryDelete` are the
calls, each with its failure, also the one whose answer is lost; `Insert` is the
flush of a new row, which waits for a name another transaction has inserted,
fails when it was committed meanwhile (`InsertConflict`), and is the victim when
imports wait for each other (`Deadlock`); `CommitInserts`, `CommitApprove`,
`CommitRemoval`, `CommitUpdate` are the commits, with what happens when the row
is gone (`ApproveStale`, `UpdateConflict`).  `Dies` is every other end.  An
UPDATE names only the columns that changed, as SQLAlchemy's does.

| Run | Instance | Shows |
|---|---|---|
| `tools` | three requests of every kind, two at a time, three rows, four tools (two imports that deadlock have registered that many), two names and codes, imports of two tools, every failure | table and Letta agree on every tool nobody is busy with; no tool of Letta is lost but by a failure or a lost race, and none has two rows; an approval activates the reviewed code |

Two history variables name the exceptions.  `torn`: rows where requests
overlapped, or where one failed between Letta and the commit.  `excused`: tools
that a failed or lost call, a rollback or a lost race left in Letta.  The code
has no way to find either again; the properties say that nothing else adds to
them.  `ReviewedCodeIsActivated` and `LocksAreHeld` have no exceptions.  Ids are
used again once nothing refers to them, which keeps the instance finite and
loses nothing: an id that no row, request or live tool has is as good as new.

### CredentialSync

`creds` and `listed` are the committed tables of credentials and agents, `letta`
Letta's agents with their environment (the `CREDENTIAL_*` variables, as a set of
rows).  A request that writes a credential reads and validates (`Begin*`),
flushes (`Flush`, which waits for the row and for the unique key that another
transaction has locked, `FlushFails` when the key is taken or the row is gone),
and syncs: `ReadCreds` queries the rows, of which it sees the committed ones and
its own as the session's object has it (`Sees`), `ReadAgents` lists the agents,
`Push` serves them in any order, each with its failure, after which Letta may
have got the update all the same.  `Commit` is last: agents are told before the
transaction is committed.  An agent is made with the environment of the moment
(`BeginAgent`, `LettaCreate`), and listed at the end (`CommitAgent`); it is
deleted in Letta first (`LettaDelete`), and a failure there is swallowed.  `Dies`
is every other way a request ends early: an error of the database, of the
decryption, of the attachment of file tools, the end of the process.

| Run | Instance | Shows |
|---|---|---|
| `creds` | four requests of every kind, two at a time, two credentials, agents, keys and values, one failure | every listed agent has exactly the committed credentials, unless a failure or an overlap is to blame; Letta and the table name the same agents |

`torn` is a history variable: the last sync may not have brought everything
everywhere, because a push failed, a request died after it had pushed, or two
requests overlapped so that one did not know of the other's change (`stale`).
A sync that commits undisturbed resets it: it repairs whatever went wrong before
(`SyncRepairs`).  `loose` names the agents that a failure left in Letta only, or
in the table only; nothing in the code finds them again.  Four requests are two
that leave something behind, and two that overlap on it.

### Startup

What the backend does before it serves, over and over.  `vol` is the secrets in
`/data/config`, `mem` those of the running process, `tables` the migrations whose
effect the database has and `rev` what `alembic_version` says, `creds` the stored
credentials as encrypted blobs (the key, and which of the three derivations),
`phase` how far the start has come, `side` the token a service beside the backend
has cached.  The secrets are taken from the environment, read or made one after
the other (`TakeGiven`, `TakeStored`, `Make`; `Save` may fail, which is only
logged; `TearFile` is a process that dies with the file open), `CheckSecurity`
may end the start, then `init_db` (`Upgrade`, `CreateAll` and `Stamp`, which are
separate commits), the two passes of the encryption (`MigratePass`) and `Serve`.
`Crash` falls between any two of them; `Deploy` comes back with another image or
another environment, forward or backward.

| Run | Instance | Shows |
|---|---|---|
| `startup` | one credential with two values, two revisions, four environments (nothing set; a key; a service token; a weak secret beside a key and a token), four generated secrets, two deployments, one crash or failed write; old databases with and without a revision, and with each derivation | a backend that serves has the tables of its code; the credentials can be read and are encrypted as today; the services beside end up with its token |

`blind`, `lostKeys` are history and name the exceptions: a revision stamped on
tables another image had made (a crash between `create_all` and the stamp, then
another image), and keys the volume did not take or the operator replaced.
Fairness: `WF_vars(Expire)`, five minutes pass.  `TokenSettles` speaks of a
backend that stays up; nothing is assumed of starts.

### AuthSessions

`users` is the table, `tokens` every token that was answered (name, version, the
second it was issued, the secret it was signed with), `lock` the advisory lock of
registrations, `reqs[q]` the row a request has read and means to write.  A
request begins with what it reads (`BeginRegister`, `BeginLogin`,
`BeginSession`, which lets a good token pass) and ends with what it writes
(`CommitRegister`, `Login`, `CommitChange`, `CommitLogout`); `Dies` rolls back.
`Tick` is a second, `Restart` may come back with another secret.

| Run | Instance | Shows |
|---|---|---|
| `shared` | three requests in flight, five in all, two names and passwords, three seconds, one restart | one account; a token that existed at a logout is never good again; a session opened with another password is refused |

History names the exceptions: `crossed`, a logout that wrote a version it had
computed from an older one, or a change of the password that wrote an older
time; `raced`, tokens issued while a change of the password was in flight.  The
password a token was opened with (`pw`) is history too.

### SkillMemory

Skills (rows with files and links to tools), and the copy of the selected ones
into an agent's archival memory before each message: one search by tags, one
insertion, then the files, each call failing as it likes (`SearchFails`,
`CreateFails`, which may have inserted all the same, `SearchFileFails`).  A passage
has tags without roles (`Tags`): kind and name, and for a file the tag `files` and
its path; a search finds every passage that has the tags asked for and others
(`Present`).  So a skill may be taken for something else that bears its name: a file
of another skill, a kind, the tag `files` (`Mistakable`).  Rows are
created, uploaded, imported, updated and deleted meanwhile; the request that
creates a skill from GitHub holds its row and its tool until it commits
(`BeginGithub`, `LinkTool`, `EndGithub`).

| Run | Instance | Shows |
|---|---|---|
| `shared` | two preparations, one skill with a file, a lesson, two edits, one failure, two names of which one is the file's path as well | what counts as available is in the agent's memory, unless its text was left out or its name can be mistaken; skills, lessons and files are there once at most |

History: `headless` (files that were copied without the text of their skill),
`blind` (a search failed), `overlap` (two preparations at once).

### PackageVolume

The directory pip installs into.  A run of pip builds elsewhere and moves in one
entry after the other (`MoveEntry`, `MoveInfo`), leaving what is there; it can
fail before the first of them (`Refuse`) or after some (`PipFails`), be killed
(`TimeOut`), and two may run at once.  `uninstall_package` is given any name
(`Given`), a package's or not, and takes out, one by one, the entries whose names up
to the first hyphen are that name (`Stem`, `Named`); a removal that raises ends it
with part of them gone (`RemovalFails`).  PyYAML's directory is `yaml`: asked for
`yaml`, the sidecar takes the code and leaves PyYAML on the list; asked for PyYAML,
it takes PyYAML off the list and leaves the code.

| Run | Instance | Shows |
|---|---|---|
| `shared` | two runs of pip, two packages of which one brings the other, two versions, three entries, one of them under a name that is no package's, three requests, one failure or kill | what is listed has the code that goes by its own name, but for a package that was itself left in part |

History: `mixed` (two of them were at work at once), `cut` (the packages that a run
which failed or was killed may have left in part, until an uninstall has taken all
of them).  A failure is no excuse for any other package.

### EvalRuns

An evaluation in two processes: `req[q]` as the backend sees it, which holds a
transaction and a connection of the pool until the answer, `job[q]` as the
container sees it: it switches the user's settings (`Enable`, `Apply`), builds
its checks, chats with the agent through the backend (`Chat`, another connection)
and judges the last answer.  `GivesUp` is the backend's timeout, of which the
container learns nothing; `ChatTimesOut` the container's, which leaves a `stray`
chat.  A change of the settings that the container has given up may be committed
later: to its evaluation that is what a change by the user is (`UserSets`).  Either side may die; scenarios, agents and settings change meanwhile.

| Run | Instance | Shows |
|---|---|---|
| `progress` | two evaluations over a pool of two connections, one scenario, two definitions, one event | every evaluation ends on both sides, also when the evaluations hold every connection their chats wait for |
| `shared` | the same | a chat goes under the switch its evaluation has set, unless somebody set it since |

Fairness: weak for the container's own steps (`Goes`) and for the two timeouts;
an agent may never answer.  `own` and `saw` are history.

### SharedState and MCProgress

These two modules compose components that share no variable, so that a behaviour
of all of them is one of each: `part` chooses whose behaviour it is, and the others
rest.  `SharedState` holds AuthSessions, SkillMemory, PackageVolume and EvalRuns,
and states the assumptions on their constants; the theorem `EachIsItself` says that
the composition adds no behaviour to any of them.  `MCProgress` holds the liveness
of EvalRuns, WorkflowRuns and Lessons under their own fairness.  To check one
component alone, give `Parts` one member.

## 3. Bounds

| Bound | Value | Why it is enough |
|---|---|---|
| requests, runs in flight | 2, 3 in AuthSessions, or one of each executor | every property relates at most two actors and the state they share |
| `MaxCrashes` | 1 | a crash forgets every handler; a second one starts from a state the first could leave |
| `MaxTries` | 2 | the code's bound is `max_retries + 1`, 4; a run needs "none, one, another", also to end |
| `MaxFailures` (ToolToggle) | 1 | one failure leaves a partial state that a later request has to repair; more of them leave states of the same kind, and the theorem has no bound |
| `MaxArrivals` (ToolRegistry) | 3 | two requests that overlap, and one that finds what they left; the theorems have no bound |
| `MaxArrivals` (CredentialSync) | 4 | two pairs of requests; the theorems have no bound |
| `MaxArrivals`, `MaxClock`, `Expire` (AuthSessions) | 5, 3, 3 | a registration, a login and three that overlap on what they left; before, in and after the second of a change; the theorems have no bound |
| `MaxRestarts` (AuthSessions) | 1 | with the same secret or another |
| `MaxVersion`, `MaxDeploys` | 2 | forward, and back again; the theorems have no bound |
| `MaxGen` | 4 | three secrets, and one more: a new key after a lost one, or a rotation |
| `MaxFailures` (Startup), `MaxFails`, `MaxKills` (failures of pip and of an uninstall too), `MaxEvents` | 1 | what one failure leaves is what the next start, preparation, request or turn meets |
| `MaxPreps`, `MaxEdits` (SkillMemory), `MaxEvals`, `Pool` | 2 | two that overlap, or one after the other; two evaluations fill the pool |
| `MaxRequests` (PackageVolume) | 3 | install, and uninstall, and what the third meets |
| `MaxImport` | 2 | the second tool of an import meets the rows, and the dead session, of the first |
| `MaxLessons`, `Loaded` | 1 or 2 | the cap is reached and crossed |
| `MaxScore`, `MaxUsed` | 0 to 1 | scores matter at -3, counters when they go down |

Deadlock checking is off where every actor may come to rest for good (a deleted
workflow, requests that are served once): the liveness properties say what may
not stop half-way.

## 4. Proofs

Each proof module states an inductive invariant `IInv` with `Init => IInv`,
`IInv /\ [Next]_vars => IInv'`, and derives the properties.  Assumptions are the
named `ASSUME`s of the modules, which TLC evaluates in every run.

* **WorkflowScheduleProofs**: `SpecTypeOK`, `DeletionIsFinal`,
  `UpdatesKeepCronValid`, `UpdatesLeaveTheRest`, `StoresAgree`.  `HandlerOK` says what a handler knows at each await (a
  body that passed `Schedule` has no bad cron, an insert has an id that is not in
  the table), `InsertsApart` that no two requests insert one id.  For `StoresAgree`,
  `AloneAt` says what a request that is alone at an untorn workflow knows of its job
  at each await (`JobSoFar`), and that the row is still the one it read.
  `UpdatesLeaveTheRest` is of the step alone: only the request that commits moves to
  rest (`CommitSteps`), and what it merges leaves the columns its body does not name
  (`UnnamedColumns`), the cron excepted, which it leaves or clears as
  `CronLeftOrCleared` says.
* **WorkflowRunsProofs**: the six safety properties, and
  `RunsImplementLifecycle`, that the table under the three executors implements
  RunLifecycle.  `Counted`, `Object`, `Table` and `Anchored` tie attempts, object,
  record and workflow to the executor's place; `Refines` alone is not inductive,
  since an outcome is final only because no executor commits after it.
* **LessonsProofs**: `SpecTypeOK`, `LowScoresGo`, `DeletionIsFinal`, `CapHoldsAlone`.
  The threshold must hold of what runs have *read* and have *not committed*
  (`NoneLow`), no row is locked twice (`Exclusive`), and a transaction does not write
  a row that is gone (`WritesLive`).  For the cap, `Alone` says what a run that
  nobody works beside knows of the table at each place: below the cap when it goes
  to store without a victim, and in all other cases one row goes for the one that
  comes.
* **ToolToggleProofs**: `SpecTypeOK`, `OneCleanRequestRepairs`, `BlockTellsTheTruth`,
  `NoCircleThroughTheAgent`, for any list of tools and any number of failures.
  `Told` ties the block to the tools as long as no call failed and no requests
  overlapped: all the tools are never beside a block that says none, nor none beside
  one that says all; between a switch and its update the request knows the tool.
  With `CleanRequestSettles`, by which a clean request has all or none of them,
  that is `BlockAgrees`.
  `Rows`: while a row is uncommitted there is no other, and nobody has seen the
  setting on, so the agent has no toggled tool that could call back.  `Advances`:
  a clean request at tool *i* has the tools before *i* in line.

* **ToolRegistryProofs**: the four properties of `tools` and `LocksAreHeld`, for any numbers of
  requests, rows, tools, names and codes.  `Inv` says who owns a tool
  (`OneOwner`, `OwnTool`), that what a request registered is still what it meant
  (`Held`), what a request may rely on of the row it read (`Reviewed` always;
  `Alone` and `Fresh` unless the row is torn), what Letta has while an update or
  deletion is between its call and its commit (`Synced`, `Dropped`), and where
  every tool is (`Accounted`).  The 27 actions are first reduced to 16 effects
  (`EffectFact`): which table, which tool and which request a step can touch.

* **CredentialSyncProofs**: the three invariants of `creds`, `KeysAreUnique` and `SyncRepairs`.
  `Shape` and `Locks` say which requests have flushed, and that no two of them
  write one row or one key; `Places` which agents a request has made, lists or
  deletes; `Views` that what a request has read and nobody has changed since is
  what is committed; `Sources` where the environment of each agent comes from: the
  committed credentials, or the request that pushed it.  `KeysAreUnique` needs
  `Locks` (a key is checked against committed rows only), `AgentsFollow` the rest.

* **StartupProofs**: the four invariants of `startup`.  `Keys`: the key of every
  stored value is the one the next start finds (`Current`), or a lost one, and the
  backend past its secrets has that key or has lost its own.  `Schema`: a revision
  that was not stamped blindly says what the tables are.  `Passes`: the session's
  objects and the table differ only in rows with a value that cannot be read
  (`Alike`), and what the first pass leaves at version 1 the second takes;
  `MigratedRow` says what `_migrate_credentials` does to one row.  The property
  speaks of the table, the passes work on the session: hence `Alike`.

* **SharedStateProofs**: an inductive invariant of each of the four modules of
  SharedState, and with `EachIsItself` of their composition; types, and the seven
  properties of `shared`, for any numbers of requests, preparations, pip runs,
  evaluations, failures and restarts.
  * Sessions (`IInv`): `Places`, who inserts has the lock, and nobody was registered
    before it.  `Versions`: no token and no request in flight has a later version
    than the account's, and what was logged out has an earlier one.  `Passwords`: a
    token that is not older than the last change was opened with today's password,
    or during the change.
  * Memory (`MemoryInv`): every passage was copied with its text, or its name is in
    `headless`; what a preparation has reported is of that sort as well, or has a
    name that can be mistaken (`Known`, `Found`), since a search finds by tags
    (`PresentIsFound`).  For
    `RememberedOnce`, a preparation that is alone still finds nothing of what it is
    about to insert (`Missing`).
  * Volume (`VolumeInv`): while one job is at work, what is listed has its code,
    or is listed ahead of the code the job has yet to move (`Ahead`), and what is to
    be listed has its code in place or to come (`Coming`); packages in `cut` are
    excepted, and a job that fails or is killed adds what it has not finished
    (`RestartKeeps`, also for all jobs at once).  An uninstall takes only entries
    that go by the name it was given, and takes a package of that name off the list
    (`Removing`).
  * Evaluations (`EvalsInv`): an evaluation that counts the switch as its own finds
    it as it has set it (`Under`), and reaches `Apply` only with something to set
    (`Placed`).

  Assumptions: slots are finite sets, a lesson's category is a name and its text a
  text, an uninstall may be given the name of every package and others, and an entry
  goes by one of these or by none, the definitions are records of the evaluation's
  schema.  What packages own and need is arbitrary.

Only model-checked: the five liveness properties (`EveryRequestEnds`,
`TokenSettles`, `EvaluationEnds`, `ScheduledEnds`, `EveryRunEnds`), since fairness
and `ENABLED` are beyond the prover.  Every safety property that a passing run
checks is a theorem.

## 5. Where code and words differ

| Run | The words | The code |
|---|---|---|
| `schedule_null` | a test and a comment: an explicit null removes the job | the old cron is scheduled again, the column is nulled |
| `runs_stream` | "Collect content/reasoning for run output" | the outcome is flushed after `get_db`'s commit, and lost |
| `lessons_cap` | "Enforces the max lessons per workflow limit" | overlapping runs exceed it for good |

Others met while modelling.  The models contain the behaviour; their properties
except it, and say so:

| Where | The words | The code |
|---|---|---|
| `workflows/routes.py:228` | a comment (177) and a test: an absent field leaves the schedule alone | the column is nulled when the body names the template or the variables, the job stays (`OddUpdate`, `CronLeftOrCleared`) |
| `workflows/scheduler_tasks.py:86` | "Mark a stuck run as failed" | an answer without a step count (68): the handler's commit fails as well, and the record stays running (`PersistFails`) |
| `workflows/helpers.py:33` | "Non-fatal — failures are logged but don't affect the run" | a swallowed database error takes the whole sync run with it (`LessonSwallowed`) |
| `agents/run_prep.py:102` | "Increments lesson.times_used" | overlapping runs write a stale value; uses are lost (`UsedAgain`) |
| `credentials/routes.py:199` | "Ensure deletion is visible before syncing secrets" | visible to its own transaction; a sync that overlaps sees the row, and may push it last (`Outdated`) |
| `credentials/service.py:54` | "Sync all credentials for a user to all of their agents" | before the commit: what is rolled back stays in the agents until the next sync (`Dies`), and a failed push is not tried again (`PushFails`) |
| `agents/routes.py:243` | "Delete an agent." | the row goes even when Letta fails: the agent lives on, with the credentials it had (`LettaDeleteFails`) |
| `agents/tools.py:412` | "all configs now have the same combined text" | the texts for off differ, the last one stays (`StatusText`) |
| `tools/routes.py:528` | "Update a tool. Changes are synced to Letta." | only source, schema and packages are (542); a new name stays in the row (`CommitUpdate`) |
| `agents/tools.py:34` | "Status note prepended to user message" | a workflow run switches the tools and drops the note (`Note`) |
| `auth/routes.py:190` | "Logout — invalidate all active sessions" | the version is one more than the one that was read (196): of two logouts that overlap, the slower may write a version that a session opened in between still has (`crossed`) |
| `agents/tools.py:231` | "You have the propose_tool, fetch_docs, list_github_repo, and read_github_file functions available." | when the setting changes between two tools, the message goes out to an agent with a part of them; likewise beside the text that says they are disabled (`BlockAgrees` excepts it: `clean`) |
| `agents/archival_memory.py:82` | "Skip if this skill already exists in archival memory" | a skill called like a file of another, or `skills`, or `files`, is found in that file's passage (126), reported, and never inserted; such names are valid (`skills/routes.py:37`) (`Mistakable`) |
| `agents/archival_memory.py:77` | "Returns list of skill names that were successfully inserted." | a file's passage has the skill's tags: a skill whose text could not be copied counts as available from then on (`headless`) |
| `pip-sidecar/app.py:175` | "Uninstall a package by removing its files from the target directory." | entries under another name than the package's stay while the answer is that it is uninstalled (215), and another package's under the name go while that one stays listed; the name need not be a package's (`Given`, `Stem`, `Own`) |
| `evals/routes.py:276` | "Creates a scenario record if one doesn't exist with the same name." | one that exists is rewritten, without its settings and routing (`FromFile`, `Record`) |

And behaviour that no text denies, but that a reader may not expect:

| Where | What |
|---|---|
| `auth/routes.py:134` | a login that read the row before a change of the password is answered after it, with a token that is good (`raced`) |
| `database.py:250` | tables without a revision are taken for those of the code, also after a crash between `create_all` (262) and the stamp, when the next start has another image (`blind`) |
| `credentials/encryption.py:181` | a row whose second key cannot be read is re-encrypted in the session alone, and stays weak unless another row counts; `check_for_v0_credentials`, in the same session, does not see it (`Migrated`, `Counted`, `TakenForV0`) |
| `config.py:200` | a generated key that cannot be written is used all the same; the next start makes another, and what was stored under the first cannot be read (`lostKeys`) |
| `config.py:92` | weak secrets end the start after the service token has been written (`CheckSecurity`) |
| `shared/service_token.py:37` | a rotated token is believed by the services beside after five minutes, by the backend after its next start |
| `agents/archival_memory.py:166` | passages are found by category and name, not by text: what was changed later never arrives; a search that fails inserts a copy (`blind`) |
| `skills/routes.py:240` | a swallowed database error leaves a session whose commit fails, and the skill is not created (`EndGithub`) |
| `pip-sidecar/app.py:92`, `:207` | a pip that fails after it has moved some entries, or a removal that raises, leaves a package listed without its code, or code that is not listed; nothing repairs it but an uninstall and another install (`PipFails`, `RemovalFails`, `cut`) |
| `pip-sidecar/app.py` | an install without `--upgrade` leaves old code beside the new .dist-info (`MoveEntry`) |
| `eval/app.py:836` | an evaluation sets the user's own switches and does not set them back; two of one user disturb each other (`Undisturbed`) |
| `eval/app.py:703` | the text of an error is an answer, and passes a check that something is absent; no checks at all pass (`Verdicts`) |

## 6. Abstractions and what is left out

Prompts, answers, names and texts are members of small sets: no property is about
their content.  Authentication (AuthSessions), ownership and rate limits hold
before a handler starts, and are not part of the other modules.  A Letta call is atomic at the moment
Letta performs it, and may fail before that; where a failure after it matters
(retries, tools) there is an action for it.  Letta gives a new tool an id of its
own, and refuses to update or delete without one.  The other environment
variables of an agent, which a sync reads and writes back, are not modelled:
nothing in the code sets any.  One check stands for all of an evaluation's:
a result that cannot be read is no success (`Parsed`), while with several checks an
error after some of them were read leaves the verdict of those (`eval/app.py:766`);
no property is about verdicts.  Encryption is Startup's; in
CredentialSync two credentials differ by key and value.  What CredentialSync must eventually do is
not stated: its requests do nothing but wait for each other's locks, in the order
in which they flush, once each.  Symmetry is used only in runs without
liveness properties, and over constants that no step tells apart.

Exceptions that a property states through a history variable are places where
the code does what the property denies; section 5 lists them.

Not modelled, and why:

* source checks, URL checks, the ciphers and log parsing: pure functions without
  interleaving, covered by unit tests;
* observability, dashboard, documentation: read-only;
* the scripts of the migrations: each runs once; what the models need of them is
  that each has an effect that is there or not;
* the audit log: inserts in sessions of their own that nothing reads back;
* log rotation (`main.py:73-107`): a copy and a truncation every ten minutes while
  `tee`, opened without `-a`, goes on writing at its old offset, so that the file
  is sparse and rotated every time; a model of it would be one of the file system;
* the threads of the default executor and the producer thread of
  `stream_letta_response`: their number is the machine's;
* renaming an agent or a scenario, the judge's model, the limits of the limiter
  library;
* the frontend: its request bodies decide what the modules enumerate.

## 7. Plan

| Order | Module | Composes | Abstract specification and theorem |
|---|---|---|---|
| done | WorkflowSchedule | workflows table and job store | type, deletion, cron validity, agreement of the stores |
| done | RunLifecycle, WorkflowRuns | executors, sessions, Letta | refinement |
| done | Lessons | runs and the lessons table | type, threshold, deletion, the cap of a run alone |
| done | ToolToggle | settings, chat, agent tools, callbacks | repair, a true block, no circle |
| done | ToolRegistry | tools table, proposals, imports, Letta | agreement, ownership, reviewed code |
| done | CredentialSync | credentials and agents tables, agents' environment | unique keys, agents follow, repair, ownership |
| done | Startup | secrets, schema, encryption, service token | type, schema, readable and migrated credentials |
| done | AuthSessions | users, tokens, advisory lock | one account; dead tokens stay dead |
| done | SkillMemory, PackageVolume, EvalRuns | passages, the volume, two processes and a pool | what is reported is there; what is listed has code; whose the switch is |
| done | SharedState | AuthSessions and these three | each is itself |
| open | agent renames in CredentialSync | | row and Letta have one name |
| open | ExecutorPool | threads, connections, callbacks | nobody waits in a circle, within stated sizes |
| open | LettaStream | producer thread, queue, consumer | a stream ends once |
| open | AuditWriter, LogRotation, frontend hooks | | |
