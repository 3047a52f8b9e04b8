----------------------------- MODULE MCProgress -----------------------------
(***************************************************************************)
(* What must come to an end: evaluations, scheduled runs, and runs that    *)
(* lock each other's lessons.  The three modules share no variable, so a   *)
(* behaviour of all of them is one of each; each behaviour here is one of  *)
(* a single module, the others rest (Parts chooses among them).            *)
(***************************************************************************)
EXTENDS Naturals, TLC

CONSTANTS
    Parts,
    Req, Scen, None,
    Runs, s1, j1, w1, MaxTries,
    LessonIds, LessonRuns, NoRow, Gone, Clean

VARIABLES
    part,
    scen, runs, settings, agent, req, job, stray, evals, events,
    wfs, db, mem, pc, sess, tries, sent, crashes,
    row, dirty, place, kind, seen, verdict, mingled

evalVars == <<scen, runs, settings, agent, req, job, stray, evals, events>>
runVars == <<wfs, db, mem, pc, sess, tries, sent, crashes>>
lessonVars == <<row, dirty, place, kind, seen, verdict, mingled>>
vars == <<part, evalVars, runVars, lessonVars>>

\* One evaluation whose check reads the answer, and one that needs a judge; they
\* set the same switch, differently.  Two connections, which the two evaluations
\* may hold while their chats want one.
Def(check, set) == [turns |-> 1, check |-> check, route |-> TRUE, set |-> set]
Evals == INSTANCE EvalRuns WITH
    Defs <- {Def("positive", FALSE), Def("judge", TRUE)},
    Mock <- FALSE, Pool <- 2, MaxEvals <- 2, MaxEvents <- 1

\* A sync run and a job on one workflow, no crash, the database up.
KindOf == [r \in Runs |-> IF r = s1 THEN "sync" ELSE "scheduled"]
Executors == INSTANCE WorkflowRuns WITH
    Workflows <- {w1}, WfOf <- [r \in Runs |-> w1],
    Faults <- {"prepare", "lesson"}, MaxCrashes <- 0

\* Two sync runs over at most two lessons of earlier runs.
NewStrategy == {[cat |-> "other", score |-> 0, used |-> 0]}
Learning == INSTANCE Lessons WITH
    Lessons <- LessonIds, Runs <- LessonRuns, Kinds <- {"sync"}, Verdicts <- {"better"},
    MaxLessons <- 1, Loaded <- 1, FirstRows <- NewStrategy, Overcap <- 1,
    MaxScore <- 1, MaxUsed <- 0, pc <- place

Init ==
    /\ part \in Parts
    /\ Evals!Init /\ Executors!Init /\ Learning!Init
    /\ part # "evals" => scen = [s \in Scen |-> None]
    /\ part # "lessons" => row = Learning!Nothing

Next ==
    \/ part = "evals" /\ Evals!Next /\ UNCHANGED <<part, runVars, lessonVars>>
    \/ part = "runs" /\ Executors!Next /\ UNCHANGED <<part, evalVars, lessonVars>>
    \/ part = "lessons" /\ Learning!Next /\ UNCHANGED <<part, evalVars, runVars>>

\* The fairness of the three modules.
EvalStep(A) == part = "evals" /\ A /\ UNCHANGED <<part, runVars, lessonVars>>
RunStep(A) == part = "runs" /\ A /\ UNCHANGED <<part, evalVars, lessonVars>>
LessonStep(A) == part = "lessons" /\ A /\ UNCHANGED <<part, evalVars, runVars>>
Fairness ==
    /\ \A q \in Req :
         /\ WF_vars(EvalStep(Evals!Goes(q)))
         /\ WF_vars(EvalStep(Evals!ChatTimesOut(q)))
         /\ WF_vars(EvalStep(Evals!GivesUp(q)))
    /\ \A r \in Runs : WF_vars(RunStep(Executors!Advance(r)))
    /\ \A r \in LessonRuns :
         WF_vars(LessonStep(Learning!Moves(r))) /\ SF_vars(LessonStep(Learning!Flushes(r)))
Spec == Init /\ [][Next]_vars /\ Fairness

\* Every evaluation ends, on both sides, also if the agent never answers and if
\* the evaluations hold every connection their chats wait for.
EvaluationEnds == Evals!EvaluationEnds

\* A scheduled run recorded as running gets its outcome (scheduler_tasks), also
\* after failed attempts.
ScheduledEnds == Executors!ScheduledEnds

\* Two sync runs that lock each other's lessons for the length of their calls
\* both end.
EveryRunEnds == Learning!EveryRunEnds
=============================================================================
