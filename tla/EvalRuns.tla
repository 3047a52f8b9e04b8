------------------------------ MODULE EvalRuns ------------------------------
(***************************************************************************)
(* An evaluation runs in two processes.  The backend opens a transaction,  *)
(* adds the record of the run and waits for the container; the container   *)
(* calls the backend back to set the user's switches and to chat with the  *)
(* agent, each time in another transaction, with a connection of the same  *)
(* pool.  Either side may give up, or die, while the other goes on.        *)
(***************************************************************************)
EXTENDS Naturals, FiniteSets

CONSTANTS
    Req,       \* slots for evaluations
    Scen,      \* scenarios, by their name (unique for the user)
    Defs,      \* definitions: turns, check (none, positive, negative, judge, incomplete or
               \* refused), route (through the backend), set (agent_tool_creation)
    Mock,      \* MOCK_AGENT
    Pool,      \* connections of the backend
    MaxEvals, MaxEvents,
    None

VARIABLES
    scen,      \* the committed scenarios
    runs,      \* the committed runs
    settings,  \* the committed settings of the user
    agent,     \* whether the agent is still there
    req,       \* the evaluations as the backend sees them
    job,       \* the evaluations as the container sees them
    stray,     \* chats of the backend that nobody waits for any more
    evals, events

vars == <<scen, runs, settings, agent, req, job, stray, evals, events>>

\* other: nothing, or the text of an error.
Said == {"good", "bad", "other"}
Status == {"passed", "failed", "error"}
\* file: the row of the scenario is written, or inserted, and locked.
NoReq == [scen |-> None, def |-> None, file |-> FALSE]
\* own (history): the switch as this evaluation has set it, until another one
\* sets it; saw: the switch as the turn's chat has read it.
NoJob == [phase |-> "idle", def |-> None, turn |-> 0, said |-> "other", own |-> None, saw |-> None]

\* A file's interactions and checks are taken, its routing and settings are not.
FromFile(d) == [d EXCEPT !.route = FALSE, !.set = None]
Definition == Defs \union {FromFile(d) : d \in Defs}

Waiting(q) == req[q] # NoReq
Idle(q) == ~Waiting(q) /\ job[q] = NoJob
Step(q, j) == job' = [job EXCEPT ![q] = j]

\* A request of the backend holds its connection from its first query to its end.
Free == Cardinality({q \in Req : Waiting(q)}) + Cardinality({q \in Req : job[q].phase = "agent"})
            + stray < Pool

Init ==
    /\ scen \in [Scen -> Defs \union {None}] /\ runs = {}
    /\ settings = [enabled |-> FALSE, tool |-> TRUE] /\ agent = TRUE
    /\ req = [q \in Req |-> NoReq] /\ job = [q \in Req |-> NoJob]
    /\ stray = 0 /\ evals = 0 /\ events = 0

\* What the user does to scenarios, agents and settings, and what fails.
Event == events < MaxEvents /\ events' = events + 1
Arrive == evals < MaxEvals /\ evals' = evals + 1
table == <<scen, runs>>
bounds == <<evals, events>>

-----------------------------------------------------------------------------
\* The scenarios.  The reference of an uncommitted run keeps its scenario from
\* being deleted; one that runs from a file has the row for itself.
Referred(s) == \E q \in Req : req[q].scen = s
Written(s) == \E q \in Req : req[q].scen = s /\ req[q].file

CreateScenario(s, d) ==
    /\ agent /\ Free /\ scen[s] = None /\ ~Referred(s) /\ Event
    /\ scen' = [scen EXCEPT ![s] = d]
    /\ UNCHANGED <<runs, settings, agent, req, job, stray, evals>>

\* (A new name is not modelled: it would make it another scenario for a file.)
UpdateScenario(s, d) ==
    /\ Free /\ scen[s] # None /\ ~Written(s) /\ Event
    /\ scen' = [scen EXCEPT ![s] = d]
    /\ UNCHANGED <<runs, settings, agent, req, job, stray, evals>>

Deletable(s) == ~Referred(s)

\* Its runs go with it.
DeleteScenario(s) ==
    /\ Free /\ scen[s] # None /\ Deletable(s) /\ Event
    /\ scen' = [scen EXCEPT ![s] = None] /\ runs' = {r \in runs : r.scen # s}
    /\ UNCHANGED <<settings, agent, req, job, stray, evals>>

DeleteAgent ==
    /\ agent /\ Free /\ Event /\ agent' = FALSE
    /\ UNCHANGED <<table, settings, req, job, stray, evals>>

-----------------------------------------------------------------------------
\* The backend: run_scenario, run_from_file, _execute_eval_run.  The container
\* takes the call; or it cannot be reached, has taken two within the minute, or
\* refuses the definition.
Accepted(d) ==
    {NoJob} \union IF d.check = "refused" THEN {}
                   ELSE {[NoJob EXCEPT !.def = d, !.phase = IF ~Mock /\ d.route THEN "enable" ELSE "build"]}
Call(q, s, d, file) ==
    /\ Idle(q) /\ agent /\ Free /\ Arrive
    /\ req' = [req EXCEPT ![q] = [scen |-> s, def |-> d, file |-> file]]
    /\ \E j \in Accepted(d) : Step(q, j)
    /\ UNCHANGED <<table, settings, agent, stray, events>>

RunScenario(q, s) == scen[s] # None /\ Call(q, s, scen[s], FALSE)
RunFromFile(q, s, d) == ~Written(s) /\ Call(q, s, FromFile(d), TRUE)

\* The end of the request commits the run, and the scenario if it came from a file.
Record(q, status) ==
    /\ scen' = IF req[q].file THEN [scen EXCEPT ![req[q].scen] = req[q].def] ELSE scen
    /\ runs' = runs \union {[scen |-> req[q].scen, status |-> status]}
    /\ req' = [req EXCEPT ![q] = NoReq]

\* Any HTTP error of the call, at once or after half an hour: the container is
\* not told.
GivesUp(q) ==
    /\ Waiting(q) /\ Record(q, "error")
    /\ UNCHANGED <<settings, agent, job, stray, bounds>>

\* The container's answer, if somebody still waits for it.
Ends(q, status) ==
    /\ Step(q, NoJob)
    /\ IF Waiting(q) THEN Record(q, status) ELSE UNCHANGED <<table, req>>
    /\ UNCHANGED <<settings, agent, stray, bounds>>

\* An exception nobody handles rolls everything back.
Dies(q) ==
    /\ Waiting(q) /\ Event /\ req' = [req EXCEPT ![q] = NoReq]
    /\ UNCHANGED <<table, settings, agent, job, stray, evals>>

-----------------------------------------------------------------------------
\* The container: run_eval.  What it sets, it sets for the user, not for the run.
Undisturbed(q, v) == [p \in Req |-> IF p # q /\ job[p].own # None /\ job[p].own # v
                                    THEN [job[p] EXCEPT !.own = None] ELSE job[p]]

\* _apply_settings_update takes every field that is not None.
\* Variant: it takes every field that is true.
UpdatedIfTrue(v) == IF v = None \/ ~v THEN settings.tool ELSE v
Updated(v) == IF v = None THEN settings.tool ELSE v

Enable(q) ==
    /\ job[q].phase = "enable"
    /\ settings' = IF agent /\ Free THEN [settings EXCEPT !.enabled = TRUE] ELSE settings
    /\ Step(q, [job[q] EXCEPT !.phase = IF job[q].def.set = None THEN "build" ELSE "apply"])
    /\ UNCHANGED <<table, agent, req, stray, bounds>>

Apply(q) ==
    /\ job[q].phase = "apply" /\ agent /\ Free
    /\ settings' = [settings EXCEPT !.tool = Updated(job[q].def.set)]
    /\ job' = [Undisturbed(q, job[q].def.set) EXCEPT ![q].phase = "build", ![q].own = job[q].def.set]
    /\ UNCHANGED <<table, agent, req, stray, bounds>>

\* Either call may fail, and that is logged.  (Committed all the same, it is a
\* step like UserSets.)
SettingsFail(q) ==
    /\ job[q].phase \in {"enable", "apply"} /\ Step(q, [job[q] EXCEPT !.phase =
           IF job[q].phase = "enable" /\ job[q].def.set # None THEN "apply" ELSE "build"])
    /\ UNCHANGED <<table, settings, agent, req, stray, bounds>>

\* The checks are made before the first turn: one that lacks its argument, or
\* wants a judge where there is none, is a failed evaluation; a judge that
\* cannot be configured is an error of the container.
Build(q) ==
    /\ job[q].phase = "build" /\ job[q].def.check # "incomplete" /\ ~(Mock /\ job[q].def.check = "judge")
    /\ Step(q, [job[q] EXCEPT !.phase = "turn"])
    /\ UNCHANGED <<table, settings, agent, req, stray, bounds>>

CannotBuild(q) ==
    /\ job[q].phase = "build" /\ job[q].def.check \in {"incomplete", "judge"}
    /\ Ends(q, IF Mock \/ job[q].def.check = "incomplete" THEN "failed" ELSE "error")

Turn(q) == job[q].phase = "turn" /\ job[q].turn < job[q].def.turns
Says(q, said) == Step(q, [job[q] EXCEPT !.phase = "turn", !.turn = @ + 1, !.said = said, !.saw = None])

\* The mock answers what the checks expect, or not, and fails never.
MockAnswer == {"good", "bad"}
\* An agent called without the backend: its failure is an answer like any other.
Answer(q) ==
    /\ Turn(q) /\ (Mock \/ ~job[q].def.route)
    /\ \E said \in MockAnswer \union IF Mock THEN {} ELSE {"other"} : Says(q, said)
    /\ UNCHANGED <<table, settings, agent, req, stray, bounds>>

\* eval_chat: the switch is looked at, and the agent asked in the same transaction.
Chat(q) ==
    /\ Turn(q) /\ ~Mock /\ job[q].def.route /\ Free
    /\ IF agent /\ settings.enabled
         THEN Step(q, [job[q] EXCEPT !.phase = "agent", !.saw = settings.tool])
         ELSE Says(q, "other")
    /\ UNCHANGED <<table, settings, agent, req, stray, bounds>>

\* No connection, no backend, another token.
ChatRefused(q) ==
    /\ Turn(q) /\ ~Mock /\ job[q].def.route /\ Says(q, "other")
    /\ UNCHANGED <<table, settings, agent, req, stray, bounds>>

ChatAnswered(q) ==
    /\ job[q].phase = "agent" /\ \E said \in Said : Says(q, said)
    /\ UNCHANGED <<table, settings, agent, req, stray, bounds>>

\* Ten minutes are over: the backend goes on with the chat.
\* Variant: the call waits as long as it takes.
ChatWaits(q) == FALSE /\ UNCHANGED vars
ChatTimesOut(q) ==
    /\ job[q].phase = "agent" /\ Says(q, "other") /\ stray' = stray + 1
    /\ UNCHANGED <<table, settings, agent, req, bounds>>

StrayEnds ==
    /\ stray > 0 /\ stray' = stray - 1
    /\ UNCHANGED <<table, settings, agent, req, job, bounds>>

\* The checks look at the last answer; a text that reports an error is a text.
Verdicts(check, said) ==
    CASE check = "none" -> {TRUE}
      [] check = "positive" -> {said = "good"}
      [] check = "negative" -> {said # "bad"}
      [] check = "judge" -> BOOLEAN

\* _parse_eval_results: a result that cannot be read is no success; once it is
\* read, its verdict stands, whatever fails after it.  (One check stands for all.)
Parsed(check, said) == Verdicts(check, said) \union {FALSE}

Judge(q) ==
    /\ job[q].phase = "turn" /\ job[q].turn = job[q].def.turns
    /\ \E v \in Parsed(job[q].def.check, job[q].said) : Ends(q, IF v THEN "passed" ELSE "failed")

-----------------------------------------------------------------------------
\* update_settings, by the user; or a call that the container has given up, and
\* that the backend commits after that.
UserSets(e, v) ==
    /\ Free /\ Event /\ settings' = [enabled |-> e, tool |-> Updated(v)]
    /\ job' = [q \in Req |-> IF v # None /\ job[q].own # None /\ job[q].own # v
                             THEN [job[q] EXCEPT !.own = None] ELSE job[q]]
    /\ UNCHANGED <<table, agent, req, stray, evals>>

BackendRestarts ==
    /\ Event /\ req' = [q \in Req |-> NoReq] /\ stray' = 0
    /\ job' = [q \in Req |-> IF job[q].phase = "agent"
                             THEN [job[q] EXCEPT !.phase = "turn", !.turn = @ + 1, !.said = "other", !.saw = None]
                             ELSE job[q]]
    /\ UNCHANGED <<table, settings, agent, evals>>

\* The chats it had begun are the backend's.
ContainerRestarts ==
    /\ Event /\ job' = [q \in Req |-> NoJob]
    /\ stray' = stray + Cardinality({q \in Req : job[q].phase = "agent"})
    /\ UNCHANGED <<table, settings, agent, req, evals>>

Next ==
    \/ \E q \in Req, s \in Scen : RunScenario(q, s) \/ \E d \in Defs : RunFromFile(q, s, d)
    \/ \E q \in Req :
         \/ GivesUp(q) \/ Dies(q)
         \/ Enable(q) \/ Apply(q) \/ SettingsFail(q) \/ Build(q) \/ CannotBuild(q)
         \/ Answer(q) \/ Chat(q) \/ ChatRefused(q) \/ ChatAnswered(q) \/ ChatTimesOut(q) \/ Judge(q)
    \/ \E s \in Scen, d \in Defs : CreateScenario(s, d) \/ UpdateScenario(s, d)
    \/ \E s \in Scen : DeleteScenario(s)
    \/ DeleteAgent \/ StrayEnds
    \/ \E e \in BOOLEAN, v \in BOOLEAN \union {None} : UserSets(e, v)
    \/ BackendRestarts \/ ContainerRestarts

\* The container goes on with what it has, and the two processes' clocks run;
\* an agent may never answer.
Goes(q) == Enable(q) \/ Apply(q) \/ SettingsFail(q) \/ Build(q) \/ CannotBuild(q) \/ Answer(q)
           \/ Chat(q) \/ ChatRefused(q) \/ Judge(q)
Fairness == \A q \in Req : WF_vars(Goes(q)) /\ WF_vars(ChatTimesOut(q)) /\ WF_vars(GivesUp(q))
Spec == Init /\ [][Next]_vars /\ Fairness

-----------------------------------------------------------------------------
TypeOK ==
    /\ scen \in [Scen -> Definition \union {None}] /\ agent \in BOOLEAN
    /\ runs \subseteq [scen : Scen, status : Status]
    /\ settings \in [enabled : BOOLEAN, tool : BOOLEAN]
    /\ req \in [Req -> [scen : Scen \union {None}, def : Definition \union {None}, file : BOOLEAN]]
    /\ job \in [Req -> [phase : {"idle", "enable", "apply", "build", "turn", "agent"},
                        def : Definition \union {None}, turn : Nat, said : Said,
                        own : BOOLEAN \union {None}, saw : BOOLEAN \union {None}]]
    /\ stray \in Nat

\* A chat goes under the switch its evaluation has set, unless another
\* evaluation or the user has set it since.
UnderItsSettings ==
    \A q \in Req : job[q].phase = "agent" /\ job[q].own # None => job[q].saw = job[q].own

\* Every evaluation ends, on both sides, also if the agent never answers and if
\* the evaluations themselves hold every connection their chats wait for.
EvaluationEnds == \A q \in Req : (Waiting(q) \/ job[q].phase # "idle") ~> Idle(q)
=============================================================================
