------------------------------ MODULE Lessons ------------------------------
(***************************************************************************)
(* The lessons of one workflow: what its runs load before they call the    *)
(* agent, and what they store and rescore after it.  Each run works in a   *)
(* PostgreSQL transaction (READ COMMITTED): it reads what is committed and *)
(* its own writes, it locks the rows it writes until it commits, and a     *)
(* write that the ORM makes of a value read earlier is that value, not an  *)
(* increment.  A sync run is one transaction; a stream and a scheduled run *)
(* commit before the call, and the stream never commits again (see         *)
(* WorkflowRuns).  Scores are counted in halves.                           *)
(***************************************************************************)
EXTENDS Integers, FiniteSets

CONSTANTS
    Lessons,      \* ids; an id is never used twice
    Runs,         \* executors that may work at the same time
    Kinds,        \* the kinds of runs: "sync", "stream", "scheduled"
    Verdicts,     \* how a run may go: "failed", "better", "worse", "same"
    MaxLessons,   \* settings.max_lessons_per_workflow
    Loaded,       \* the limit of get_lessons_for_workflow
    FirstRows,    \* what the lessons that earlier runs left look like
    Overcap,      \* how many of them there are beyond MaxLessons
    MaxScore, MaxUsed,   \* bounds on the counters
    NoRow,        \* an id that was not used yet
    Gone,         \* a deleted row
    Clean         \* not written by the transaction

VARIABLES
    row,      \* the committed table
    dirty,    \* what each run's transaction has written and holds locked
    pc,
    kind,     \* the kind of the run an executor is at
    seen,     \* the rows of its last query
    verdict,  \* how its run went
    mingled   \* history: the runs that another run, or the owner, worked beside

vars == <<row, dirty, pc, kind, seen, verdict, mingled>>

LowestScore == -6     \* -3 in halves: below it a lesson is deleted

Row == [cat : {"recovery", "other"}, score : Int, used : Nat]

ASSUME BoundsAssumption ==
    /\ MaxLessons \in Nat \ {0} /\ Loaded \in Nat \ {0} /\ Overcap \in Nat
    /\ MaxUsed \in Nat /\ MaxScore \in Nat
    /\ FirstRows \subseteq {x \in Row : x.score >= LowestScore}
    /\ Verdicts \subseteq {"failed", "better", "worse", "same"}
ASSUME LessonsAssumption == IsFiniteSet(Lessons)
ASSUME RowAssumption ==
    /\ NoRow \notin Row /\ Gone \notin Row /\ Clean \notin Row
    /\ NoRow # Gone /\ NoRow # Clean /\ Gone # Clean

Live(t) == {l \in Lessons : t[l] \notin {NoRow, Gone}}
NoWrites == [l \in Lessons |-> Clean]
Nothing == [l \in Lessons |-> NoRow]

\* What a query of r returns: the committed rows and its own writes.
View(r) == [l \in Lessons |-> IF dirty[r][l] = Clean THEN row[l] ELSE dirty[r][l]]

Init ==
    /\ row \in [Lessons -> {NoRow} \union FirstRows]
    /\ Cardinality(Live(row)) <= MaxLessons + Overcap
    /\ dirty = [r \in Runs |-> NoWrites]
    /\ pc = [r \in Runs |-> "idle"]
    /\ kind = [r \in Runs |-> "none"]
    /\ seen = [r \in Runs |-> Nothing]
    /\ verdict = [r \in Runs |-> "none"]
    /\ mingled = {}

-----------------------------------------------------------------------------
Goto(r, from, to) == pc[r] = from /\ pc' = [pc EXCEPT ![r] = to]

\* The result of a query of r: the rows S of the table it sees.
Result(r, S) == [l \in Lessons |-> IF l \in S THEN View(r)[l] ELSE NoRow]
Reads(r, S) == seen' = [seen EXCEPT ![r] = Result(r, S)]
Seen(r) == Live(seen[r])

\* A flush of r writes the rows w once nobody else holds them.
Unlocked(r, S) == \A q \in Runs \ {r}, l \in S : dirty[q][l] = Clean
Written(r, w) == [l \in Lessons |-> IF l \in DOMAIN w THEN w[l] ELSE dirty[r][l]]
Flush(r, w) ==
    /\ Unlocked(r, DOMAIN w)
    /\ dirty' = [dirty EXCEPT ![r] = Written(r, w)]
FlushCommit(r, w) ==
    /\ Unlocked(r, DOMAIN w)
    /\ row' = [l \in Lessons |-> IF Written(r, w)[l] = Clean THEN row[l] ELSE Written(r, w)[l]]
    /\ dirty' = [dirty EXCEPT ![r] = NoWrites]

\* The end of a transaction, with and without its writes.
Commit(r) ==
    /\ row' = View(r)
    /\ dirty' = [dirty EXCEPT ![r] = NoWrites]
Rollback(r) == UNCHANGED row /\ dirty' = [dirty EXCEPT ![r] = NoWrites]

\* The executor is free for another run; its session is closed.
Leave(r) ==
    /\ pc' = [pc EXCEPT ![r] = "idle"]
    /\ kind' = [kind EXCEPT ![r] = "none"]
    /\ seen' = [seen EXCEPT ![r] = Nothing]
    /\ verdict' = [verdict EXCEPT ![r] = "none"]
    /\ mingled' = mingled \ {r}

-----------------------------------------------------------------------------
\* get_lessons_for_workflow: the lessons of the highest utility.
Top(t, S) ==
    /\ S \subseteq Live(t)
    /\ Cardinality(S) = IF Cardinality(Live(t)) < Loaded THEN Cardinality(Live(t)) ELSE Loaded
    /\ \A l \in S, m \in Live(t) \ S : t[l].score >= t[m].score

Active == {q \in Runs : pc[q] # "idle"}

\* Bound: runs only start while every one of them can store a lesson.
Room(r) == Cardinality({l \in Lessons : row[l] = NoRow}) >= Cardinality(Active \union {r})

Load(r) ==
    /\ Room(r)
    /\ Goto(r, "idle", "touch")
    /\ \E k \in Kinds : kind' = [kind EXCEPT ![r] = k]
    /\ \E S \in SUBSET Lessons : Top(View(r), S) /\ Reads(r, S)
    /\ mingled' = IF Active = {} THEN mingled ELSE mingled \union Active \union {r}
    /\ UNCHANGED <<row, dirty, verdict>>

\* times_used += 1 on the rows that were loaded, before the calls to Letta.
UsedAgain(r) ==
    [l \in Seen(r) |->
        [row[l] EXCEPT !.used = IF seen[r][l].used < MaxUsed THEN seen[r][l].used + 1 ELSE @]]

Touchable(r) == Seen(r) \subseteq Live(row)

\* The flush of prepare_prompt_context; a stream and a scheduled run commit.
Touch(r) ==
    /\ Goto(r, "touch", "calling")
    /\ Touchable(r)
    /\ IF kind[r] = "sync" THEN Flush(r, UsedAgain(r)) /\ UNCHANGED row
       ELSE FlushCommit(r, UsedAgain(r))
    /\ seen' = [seen EXCEPT ![r] = Nothing]
    /\ UNCHANGED <<kind, verdict, mingled>>

\* No lesson reached the archival memory: they do not count as used.
TouchNothing(r) ==
    /\ Goto(r, "touch", "calling")
    /\ seen' = [seen EXCEPT ![r] = Nothing]
    /\ UNCHANGED <<row, dirty, kind, verdict, mingled>>

\* One of the rows is gone: the UPDATE finds nothing (StaleDataError), and
\* the run ends before it called the agent.
TouchStale(r) ==
    /\ pc[r] = "touch" /\ ~Touchable(r)
    /\ Unlocked(r, Seen(r))
    /\ Rollback(r) /\ Leave(r)

\* The agent answered, or failed: a failed run always yields a lesson
\* (extract_lesson_text), a completed one if its output is long enough.
Answer(r) ==
    /\ \E v \in Verdicts :
         /\ verdict' = [verdict EXCEPT ![r] = v]
         /\ \/ Goto(r, "calling", "count")
            \/ v # "failed" /\ Goto(r, "calling", "read")
    /\ UNCHANGED <<row, dirty, kind, seen, mingled>>

-----------------------------------------------------------------------------
\* extract_and_store_lesson.  The rows are counted,
Count(r) ==
    /\ IF Cardinality(Live(View(r))) >= MaxLessons
       THEN Goto(r, "count", "pick")
       ELSE Goto(r, "count", "store")
    /\ UNCHANGED <<row, dirty, kind, seen, verdict, mingled>>

Lowest(t, l) == l \in Live(t) /\ \A m \in Live(t) : t[l].score <= t[m].score

\* the lowest is picked,
Pick(r) ==
    /\ Goto(r, "pick", "store")
    /\ IF Live(View(r)) = {} THEN Reads(r, {})
       ELSE \E l \in Lessons : Lowest(View(r), l) /\ Reads(r, {l})
    /\ UNCHANGED <<row, dirty, kind, verdict, mingled>>

NewLesson(r) ==
    [cat |-> IF verdict[r] = "failed" THEN "recovery" ELSE "other", score |-> 0, used |-> 0]

\* Variant: at the cap, nothing is deleted.
StoreOnly(r, l) == [m \in {l} |-> NewLesson(r)]

\* and deleted with the insertion of the new one.  A DELETE that finds nothing
\* is only a warning.
Replacement(r, l) ==
    [m \in {l} \union {d \in Seen(r) : View(r)[d] # Gone} |->
        IF m = l THEN NewLesson(r) ELSE Gone]

Fresh(l) == row[l] = NoRow /\ \A q \in Runs : dirty[q][l] = Clean

Store(r) ==
    /\ Goto(r, "store", "read")
    /\ Unlocked(r, Seen(r))
    /\ \E l \in Lessons : Fresh(l) /\ Flush(r, Replacement(r, l))
    /\ seen' = [seen EXCEPT ![r] = Nothing]
    /\ UNCHANGED <<row, kind, verdict, mingled>>

\* Variant: the query also returns what was deleted.
ReadDeleted(r) ==
    /\ Goto(r, "read", "score")
    /\ Reads(r, {l \in Lessons : View(r)[l] # NoRow})
    /\ UNCHANGED <<row, dirty, kind, verdict, mingled>>

\* update_lesson_utility.  The lessons are read,
Read(r) ==
    /\ Goto(r, "read", "score")
    /\ Reads(r, Live(View(r)))
    /\ UNCHANGED <<row, dirty, kind, verdict, mingled>>

Delta(v, cat) ==
    CASE v = "failed" /\ cat = "recovery" -> -2
      [] v = "better" -> 2
      [] v = "worse" -> -1
      [] OTHER -> 0

Capped(s) == IF s > MaxScore THEN MaxScore ELSE s
Rescored(r, l) == Capped(seen[r][l].score + Delta(verdict[r], seen[r][l].cat))

\* Variants: no lesson is deleted for its score; a rescored one counts anew.
ScoresUnpruned(r) ==
    [l \in {m \in Seen(r) : Rescored(r, m) # seen[r][m].score /\ View(r)[m] # Gone} |->
        [View(r)[l] EXCEPT !.score = Rescored(r, l)]]
\* Variant: every lesson that was read is written back.
ScoresOfAll(r) ==
    [l \in Seen(r) |->
        IF Rescored(r, l) < LowestScore THEN Gone
        ELSE [seen[r][l] EXCEPT !.score = Rescored(r, l)]]
\* their scores change by the verdict on the run, those that fall below -3
\* are deleted,
Scores(r) ==
    [l \in {m \in Seen(r) : Rescored(r, m) # seen[r][m].score /\ View(r)[m] # Gone} |->
        IF Rescored(r, l) < LowestScore THEN Gone
        ELSE [View(r)[l] EXCEPT !.score = Rescored(r, l)]]

\* An UPDATE, unlike a DELETE, must find its row.
Scorable(r) ==
    \A l \in Seen(r) :
        Rescored(r, l) # seen[r][l].score /\ View(r)[l] = Gone => Rescored(r, l) < LowestScore

\* and flushed.
Score(r) ==
    /\ Goto(r, "score", "commit")
    /\ Scorable(r)
    /\ Flush(r, Scores(r))
    /\ seen' = [seen EXCEPT ![r] = Nothing]
    /\ UNCHANGED <<row, kind, verdict, mingled>>

\* The rows that the next flush of r writes, and the runs it waits for.
Wanted(r) ==
    CASE pc[r] \in {"touch", "store"} -> Seen(r)
      [] pc[r] = "score" -> DOMAIN Scores(r)
      [] OTHER -> {}
WaitsFor(r) == {q \in Runs \ {r} : \E l \in Wanted(r) : dirty[q][l] # Clean}

\* PostgreSQL ends a deadlock by failing the statement of one of its members.
Deadlocked(r) == \E C \in SUBSET Runs : r \in C /\ \A q \in C : WaitsFor(q) \cap C # {}

\* A flush of the extraction fails (StaleDataError, deadlock): the error is
\* swallowed, the transaction is lost and with it the commit to come.
Swallow(r) ==
    /\ \/ pc[r] \in {"store", "score"} /\ Deadlocked(r)
       \/ pc[r] = "score" /\ ~Scorable(r) /\ Unlocked(r, Wanted(r))
    /\ Rollback(r) /\ Leave(r)

\* Variant: the session is not closed, and holds what it locked.
FinishOpen(r) == pc[r] = "commit" /\ Leave(r) /\ UNCHANGED <<row, dirty>>

\* The last commit of the run; nothing commits a stream.
Finish(r) ==
    /\ pc[r] = "commit"
    /\ IF kind[r] = "stream" THEN Rollback(r) ELSE Commit(r)
    /\ Leave(r)

-----------------------------------------------------------------------------
\* A run that is cut short: it raises, its client leaves, the process dies.
Cut(r) == pc[r] # "idle" /\ Rollback(r) /\ Leave(r)

\* delete_lesson, for a row that no run holds.
DeleteLesson(l) ==
    /\ l \in Live(row)
    /\ \A q \in Runs : dirty[q][l] = Clean
    /\ row' = [row EXCEPT ![l] = Gone]
    /\ mingled' = mingled \union Active
    /\ UNCHANGED <<dirty, pc, kind, seen, verdict>>

\* The steps a run takes of its own accord; its flushes may wait for a lock.
Moves(r) ==
    \/ TouchNothing(r) \/ Answer(r) \/ Count(r) \/ Pick(r) \/ Read(r) \/ Finish(r)
Flushes(r) == Touch(r) \/ TouchStale(r) \/ Store(r) \/ Score(r) \/ Swallow(r)

Next ==
    \/ \E r \in Runs : Load(r) \/ Moves(r) \/ Flushes(r) \/ Cut(r)
    \/ \E l \in Lessons : DeleteLesson(l)

Spec == Init /\ [][Next]_vars

\* The event loop resumes every run that can go on, and the database serves
\* the waiters of a row in turn.
FairSpec == Spec /\ \A r \in Runs : WF_vars(Moves(r)) /\ SF_vars(Flushes(r))

-----------------------------------------------------------------------------
\* The table, the transactions and the executors' places (lessons.models).
TypeOK ==
    /\ row \in [Lessons -> Row \union {NoRow, Gone}]
    /\ dirty \in [Runs -> [Lessons -> Row \union {Gone, Clean}]]
    /\ pc \in [Runs -> {"idle", "touch", "calling", "count", "pick", "store", "read",
                        "score", "commit"}]
    /\ kind \in [Runs -> Kinds \union {"none"}]
    /\ seen \in [Runs -> [Lessons -> Row \union {NoRow}]]
    /\ verdict \in [Runs -> Verdicts \union {"none"}]
    /\ mingled \subseteq Runs

\* "scores below -3 trigger auto-deletion" (README): whatever runs race, no
\* lesson is left in the table with a score below -3.
NoLowScore == \A l \in Live(row) : row[l].score >= LowestScore

\* A lesson that was deleted, by a run, for its score or by its owner, never
\* comes back: no flush of a run that still knows it writes it again.
DeletedStaysDeleted == [][\A l \in Lessons : row[l] = Gone => row'[l] = Gone]_vars

\* "Enforces the max lessons per workflow limit" (extract_and_store_lesson):
\* no step takes the table over the cap, or further over it.
CapEnforced ==
    [][\/ Cardinality(Live(row')) <= MaxLessons
       \/ Cardinality(Live(row')) <= Cardinality(Live(row))]_vars

\* Runs that nobody works beside keep the cap, whatever they have stored, deleted
\* and rescored before, and never add to a table that is over it.
CapKeptAlone ==
    [][mingled = {} =>
          \/ Cardinality(Live(row')) <= MaxLessons
          \/ Cardinality(Live(row')) <= Cardinality(Live(row))]_vars

\* Every run ends: the locks that runs hold on each other's lessons, for the
\* length of a call to the agent, never stop them for good.
EveryRunEnds == \A r \in Runs : pc[r] # "idle" ~> pc[r] = "idle"
=============================================================================
