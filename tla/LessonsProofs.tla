---------------------------- MODULE LessonsProofs ----------------------------
(***************************************************************************)
(* What racing runs keep of the lessons, for every number of lessons and   *)
(* runs, every cap, every limit of the query and every way runs may go.    *)
(***************************************************************************)
EXTENDS Lessons, FiniteSetTheorems, TLAPS

\* No row is locked twice.
Exclusive ==
    \A q, r \in Runs, l \in Lessons :
        q # r => dirty[q][l] = Clean \/ dirty[r][l] = Clean

\* A transaction deletes what exists, and writes no row that is gone.
WritesLive == \A r \in Runs, l \in Lessons : row[l] = Gone => dirty[r][l] \in {Clean, Gone}

HighEnough(x) == x.score >= LowestScore
NoneLow ==
    /\ \A l \in Lessons : row[l] \in Row => HighEnough(row[l])
    /\ \A r \in Runs, l \in Lessons : dirty[r][l] \in Row => HighEnough(dirty[r][l])
    /\ \A r \in Runs, l \in Lessons : seen[r][l] \in Row => HighEnough(seen[r][l])

\* A row that a query returned was inserted, by somebody or by the run itself.
SeenExist ==
    \A r \in Runs, l \in Lessons :
        seen[r][l] \in Row => row[l] # NoRow \/ dirty[r][l] # Clean

IInv == TypeOK /\ Exclusive /\ WritesLive /\ SeenExist /\ NoneLow

\* The runs in progress beside another one know it, and who rests has written
\* nothing.
Beside ==
    /\ \A r \in Runs : pc[r] = "idle" => dirty[r] = NoWrites
    /\ \A q, r \in Active : q # r => q \in mingled

\* The cap, or what the table has beyond it already, and no more.
Kept(t) ==
    Cardinality(Live(t)) <= MaxLessons \/ Cardinality(Live(t)) <= Cardinality(Live(row))

\* What a run that nobody works beside knows of the table at each place.
Alone(r) ==
    /\ pc[r] = "touch" => dirty[r] = NoWrites
    /\ pc[r] \in {"calling", "count", "pick", "store"} => Live(View(r)) = Live(row)
    /\ pc[r] = "pick" => Cardinality(Live(row)) >= MaxLessons
    /\ pc[r] = "store" =>
         Cardinality(Live(row)) < MaxLessons \/ \E l \in Live(row) : Seen(r) = {l}
    /\ pc[r] \in {"read", "score", "commit"} => Kept(View(r))

AloneInv == Beside /\ \A r \in Active \ mingled : Alone(r)

-----------------------------------------------------------------------------
LEMMA InitIInv == Init => IInv
  <1> SUFFICES ASSUME Init PROVE IInv
    OBVIOUS
  <1>1. TypeOK
    BY BoundsAssumption DEF Init, TypeOK, NoWrites, Nothing
  <1>2. Exclusive /\ WritesLive /\ SeenExist
    BY RowAssumption DEF Init, Exclusive, WritesLive, SeenExist, NoWrites, Nothing
  <1>3. NoneLow
    BY BoundsAssumption, RowAssumption DEF Init, NoneLow, NoWrites, Nothing, HighEnough
  <1>. QED
    BY <1>1, <1>2, <1>3 DEF IInv

\* What a query of r returns is in the table or in its own transaction.
LEMMA ViewIsRow ==
    ASSUME IInv, NEW r \in Runs, NEW l \in Lessons
    PROVE  /\ View(r)[l] \in Row \union {NoRow, Gone}
           /\ View(r)[l] \in Row => HighEnough(View(r)[l]) /\ row[l] # Gone
           /\ l \in Live(View(r)) <=> View(r)[l] \in Row
           /\ View(r)[l] = NoRow <=> row[l] = NoRow /\ dirty[r][l] = Clean
  BY RowAssumption DEF IInv, TypeOK, View, NoneLow, Live, WritesLive

\* Steps of a run that write nothing keep the invariant: a query returns what
\* is there.
LEMMA QueryIInv ==
    ASSUME IInv, NEW r \in Runs, UNCHANGED <<row, dirty>>, TypeOK',
           NEW S \in SUBSET Live(View(r)),
           Reads(r, S) \/ seen' = seen \/ seen' = [seen EXCEPT ![r] = Nothing]
    PROVE  IInv'
  <1>1. Exclusive' /\ WritesLive'
    BY DEF IInv, Exclusive, WritesLive
  <1>2. ASSUME NEW q \in Runs, NEW l \in Lessons, seen'[q][l] \in Row
        PROVE  HighEnough(seen'[q][l]) /\ (row[l] # NoRow \/ dirty[q][l] # Clean)
    <2>1. CASE seen'[q] = seen[q]
      BY <1>2, <2>1 DEF IInv, NoneLow, SeenExist
    <2>2. CASE q = r /\ seen'[q] = Result(r, S)
      BY <1>2, <2>2, ViewIsRow, RowAssumption DEF Result
    <2>3. CASE seen'[q] = Nothing
      BY <1>2, <2>3, RowAssumption DEF Nothing
    <2>. QED
      BY <2>1, <2>2, <2>3 DEF Reads, IInv, TypeOK
  <1>. QED
    BY <1>1, <1>2 DEF IInv, SeenExist, NoneLow

\* The end of a transaction without its writes.
LEMMA RollbackIInv ==
    ASSUME IInv, NEW r \in Runs, Rollback(r), Leave(r)
    PROVE  IInv'
  <1>1. TypeOK'
    BY DEF IInv, TypeOK, Rollback, Leave, NoWrites, Nothing
  <1>2. \A q \in Runs, l \in Lessons :
          /\ dirty'[q][l] = IF q = r THEN Clean ELSE dirty[q][l]
          /\ seen'[q][l] = IF q = r THEN NoRow ELSE seen[q][l]
    BY DEF IInv, TypeOK, Rollback, Leave, NoWrites, Nothing
  <1>3. row' = row
    BY DEF Rollback
  <1>. QED
    BY <1>1, <1>2, <1>3, RowAssumption
    DEF IInv, Exclusive, WritesLive, SeenExist, NoneLow

\* The end of a transaction with its writes: nobody else holds the rows.
LEMMA CommitIInv ==
    ASSUME IInv, NEW r \in Runs, Commit(r), Leave(r)
    PROVE  IInv'
  <1>0. row' \in [Lessons -> Row \union {NoRow, Gone}]
    BY ViewIsRow DEF Commit, View
  <1>1. TypeOK'
    BY <1>0 DEF IInv, TypeOK, Commit, Leave, NoWrites, Nothing
  <1>2. \A q \in Runs, l \in Lessons :
          /\ dirty'[q][l] = IF q = r THEN Clean ELSE dirty[q][l]
          /\ seen'[q][l] = IF q = r THEN NoRow ELSE seen[q][l]
    BY DEF IInv, TypeOK, Commit, Leave, NoWrites, Nothing
  <1>3. \A l \in Lessons : row'[l] = IF dirty[r][l] = Clean THEN row[l] ELSE dirty[r][l]
    BY DEF Commit, View
  <1>4. Exclusive' /\ WritesLive'
    BY <1>2, <1>3, RowAssumption DEF IInv, TypeOK, Exclusive, WritesLive
  <1>5. SeenExist'
    BY <1>2, <1>3, RowAssumption DEF IInv, TypeOK, SeenExist
  <1>6. NoneLow'
    <2>1. NoneLow /\ dirty \in [Runs -> [Lessons -> Row \union {Gone, Clean}]]
      BY DEF IInv, TypeOK
    <2>. QED
      BY <1>2, <1>3, <2>1, RowAssumption DEF NoneLow
  <1>. QED
    BY <1>1, <1>4, <1>5, <1>6 DEF IInv

\* What the flushes write: rows or deletions, of rows that are not gone, and
\* no row with a score below the lowest.
GoodWrites(r, w) ==
    /\ DOMAIN w \subseteq Lessons
    /\ \A l \in DOMAIN w :
         (w[l] \in Row /\ HighEnough(w[l]) /\ row[l] # Gone) \/ w[l] = Gone

LEMMA WrittenIsGood ==
    ASSUME IInv, NEW r \in Runs, NEW w, GoodWrites(r, w), Unlocked(r, DOMAIN w)
    PROVE  /\ Written(r, w) \in [Lessons -> Row \union {Gone, Clean}]
           /\ \A l \in Lessons :
                /\ Written(r, w)[l] \in Row => HighEnough(Written(r, w)[l]) /\ row[l] # Gone
                /\ Written(r, w)[l] # Clean => \A q \in Runs \ {r} : dirty[q][l] = Clean
                /\ Written(r, w)[l] = Clean => dirty[r][l] = Clean
  <1>1. ASSUME NEW l \in Lessons, l \in DOMAIN w
        PROVE  /\ Written(r, w)[l] = w[l] /\ w[l] \in Row \union {Gone}
               /\ w[l] \in Row => HighEnough(w[l]) /\ row[l] # Gone
               /\ \A q \in Runs \ {r} : dirty[q][l] = Clean
    BY <1>1, RowAssumption DEF Written, GoodWrites, Unlocked
  <1>2. ASSUME NEW l \in Lessons, l \notin DOMAIN w
        PROVE  /\ Written(r, w)[l] = dirty[r][l] /\ dirty[r][l] \in Row \union {Gone, Clean}
               /\ dirty[r][l] \in Row => HighEnough(dirty[r][l]) /\ row[l] # Gone
               /\ dirty[r][l] # Clean => \A q \in Runs \ {r} : dirty[q][l] = Clean
    BY <1>2, RowAssumption DEF Written, IInv, TypeOK, NoneLow, WritesLive, Exclusive
  <1>3. Written(r, w) = [l \in Lessons |-> Written(r, w)[l]]
    BY DEF Written
  <1>. QED
    BY <1>1, <1>2, <1>3, RowAssumption

\* A flush locks what it writes.
LEMMA FlushIInv ==
    ASSUME IInv, NEW r \in Runs, NEW w, GoodWrites(r, w), Flush(r, w),
           row' = row, seen' = [seen EXCEPT ![r] = Nothing],
           pc' \in [Runs -> {"idle", "touch", "calling", "count", "pick", "store", "read",
                             "score", "commit"}],
           UNCHANGED <<kind, verdict, mingled>>
    PROVE  IInv'
  <1>. DEFINE d == Written(r, w)
  <1>1. /\ d \in [Lessons -> Row \union {Gone, Clean}]
        /\ \A l \in Lessons :
             /\ d[l] \in Row => HighEnough(d[l]) /\ row[l] # Gone
             /\ d[l] # Clean => \A q \in Runs \ {r} : dirty[q][l] = Clean
             /\ d[l] = Clean => dirty[r][l] = Clean
    BY WrittenIsGood DEF Flush
  <1>. HIDE DEF d
  <1>2. dirty' = [dirty EXCEPT ![r] = d]
    BY DEF Flush, d
  <1>3. TypeOK'
    BY <1>1, <1>2, RowAssumption DEF IInv, TypeOK, Nothing
  <1>4. \A q \in Runs, l \in Lessons :
          /\ dirty'[q][l] = IF q = r THEN d[l] ELSE dirty[q][l]
          /\ seen'[q][l] = IF q = r THEN NoRow ELSE seen[q][l]
    BY <1>2 DEF IInv, TypeOK, Nothing
  <1>5. Exclusive'
    BY <1>1, <1>4 DEF IInv, Exclusive
  <1>6. WritesLive'
    BY <1>1, <1>4 DEF IInv, WritesLive
  <1>7. SeenExist'
    BY <1>4, RowAssumption DEF IInv, SeenExist
  <1>8. NoneLow'
    BY <1>1, <1>4, RowAssumption DEF IInv, NoneLow
  <1>. QED
    BY <1>3, <1>5, <1>6, <1>7, <1>8 DEF IInv

\* A flush that is committed at once.
LEMMA FlushCommitIInv ==
    ASSUME IInv, NEW r \in Runs, NEW w, GoodWrites(r, w), FlushCommit(r, w),
           seen' = [seen EXCEPT ![r] = Nothing],
           pc' \in [Runs -> {"idle", "touch", "calling", "count", "pick", "store", "read",
                             "score", "commit"}],
           UNCHANGED <<kind, verdict, mingled>>
    PROVE  IInv'
  <1>. DEFINE d == Written(r, w)
  <1>1. /\ d \in [Lessons -> Row \union {Gone, Clean}]
        /\ \A l \in Lessons :
             /\ d[l] \in Row => HighEnough(d[l]) /\ row[l] # Gone
             /\ d[l] # Clean => \A q \in Runs \ {r} : dirty[q][l] = Clean
             /\ d[l] = Clean => dirty[r][l] = Clean
    BY WrittenIsGood DEF FlushCommit
  <1>. HIDE DEF d
  <1>2. /\ row' = [l \in Lessons |-> IF d[l] = Clean THEN row[l] ELSE d[l]]
        /\ dirty' = [dirty EXCEPT ![r] = NoWrites]
    BY DEF FlushCommit, d
  <1>3. TypeOK'
    BY <1>1, <1>2, RowAssumption DEF IInv, TypeOK, Nothing, NoWrites
  <1>4. \A q \in Runs, l \in Lessons :
          /\ dirty'[q][l] = IF q = r THEN Clean ELSE dirty[q][l]
          /\ seen'[q][l] = IF q = r THEN NoRow ELSE seen[q][l]
          /\ row'[l] = IF d[l] = Clean THEN row[l] ELSE d[l]
    BY <1>2 DEF IInv, TypeOK, Nothing, NoWrites
  <1>5. Exclusive'
    BY <1>4 DEF IInv, Exclusive
  <1>6. WritesLive'
    BY <1>1, <1>4 DEF IInv, WritesLive
  <1>7. SeenExist'
    BY <1>1, <1>4, RowAssumption DEF IInv, SeenExist
  <1>8. NoneLow'
    BY <1>1, <1>4, RowAssumption DEF IInv, NoneLow
  <1>. QED
    BY <1>3, <1>5, <1>6, <1>7, <1>8 DEF IInv

-----------------------------------------------------------------------------
LEMMA PcSteps ==
    ASSUME IInv, NEW r \in Runs, NEW from, NEW to,
           to \in {"idle", "touch", "calling", "count", "pick", "store", "read", "score", "commit"},
           Goto(r, from, to)
    PROVE  pc' \in [Runs -> {"idle", "touch", "calling", "count", "pick", "store", "read",
                             "score", "commit"}]
  BY DEF IInv, TypeOK, Goto

\* The rows that a run saw are rows.
LEMMA SeenAreRows ==
    ASSUME IInv, NEW r \in Runs, NEW l \in Seen(r)
    PROVE  l \in Lessons /\ seen[r][l] \in Row /\ HighEnough(seen[r][l])
  BY RowAssumption DEF Seen, Live, IInv, TypeOK, NoneLow

LEMMA TouchIInv == ASSUME IInv, NEW r \in Runs, Touch(r) PROVE IInv'
  <1>. DEFINE w == UsedAgain(r)
  <1>1. DOMAIN w = Seen(r)
    BY DEF UsedAgain
  <1>2. ASSUME NEW l \in Seen(r)
        PROVE  l \in Lessons /\ w[l] \in Row /\ HighEnough(w[l]) /\ row[l] # Gone
    <2>1. l \in Lessons /\ row[l] \in Row /\ HighEnough(row[l])
      BY SeenAreRows, RowAssumption DEF Touch, Touchable, Live, IInv, TypeOK, NoneLow
    <2>2. seen[r][l] \in Row
      BY SeenAreRows
    <2>. QED
      BY <2>1, <2>2, RowAssumption DEF UsedAgain, Row, HighEnough
  <1>3. GoodWrites(r, w)
    BY <1>1, <1>2 DEF GoodWrites
  <1>. HIDE DEF w
  <1>4. (Flush(r, w) /\ row' = row) \/ FlushCommit(r, w)
    BY DEF Touch, w
  <1>. QED
    BY <1>3, <1>4, PcSteps, FlushIInv, FlushCommitIInv DEF Touch

LEMMA StoreIInv == ASSUME IInv, NEW r \in Runs, Store(r) PROVE IInv'
  <1>1. PICK l \in Lessons : Fresh(l) /\ Flush(r, Replacement(r, l))
    BY DEF Store
  <1>. DEFINE w == Replacement(r, l)
  <1>2. NewLesson(r) \in Row /\ HighEnough(NewLesson(r))
    BY DEF NewLesson, Row, HighEnough, LowestScore
  <1>3. DOMAIN w \subseteq Lessons
    BY <1>1, SeenAreRows DEF Replacement
  <1>4. ASSUME NEW m \in DOMAIN w
        PROVE  (w[m] \in Row /\ HighEnough(w[m]) /\ row[m] # Gone) \/ w[m] = Gone
    BY <1>1, <1>2, <1>4, RowAssumption DEF Replacement, Fresh
  <1>5. GoodWrites(r, w)
    BY <1>3, <1>4 DEF GoodWrites
  <1>. QED
    BY <1>1, <1>5, PcSteps, FlushIInv DEF Store

LEMMA ScoreIInv == ASSUME IInv, NEW r \in Runs, Score(r) PROVE IInv'
  <1>. DEFINE w == Scores(r)
  <1>1. ASSUME NEW l \in DOMAIN w
        PROVE  l \in Lessons /\ ((w[l] \in Row /\ HighEnough(w[l]) /\ row[l] # Gone) \/ w[l] = Gone)
    <2>1. l \in Seen(r) /\ View(r)[l] # Gone
      BY <1>1 DEF Scores
    <2>2. l \in Lessons /\ seen[r][l] \in Row
      BY <2>1, SeenAreRows
    <2>3. View(r)[l] \in Row /\ row[l] # Gone
      BY <2>1, <2>2, ViewIsRow DEF IInv, SeenExist
    <2>4. Delta(verdict[r], seen[r][l].cat) \in Int
      BY DEF Delta
    <2>5. Rescored(r, l) \in Int
      BY <2>2, <2>4, BoundsAssumption DEF Rescored, Capped, Row
    <2>6. w[l] = IF Rescored(r, l) < LowestScore THEN Gone
                 ELSE [View(r)[l] EXCEPT !.score = Rescored(r, l)]
      BY <1>1 DEF Scores
    <2>7. CASE Rescored(r, l) < LowestScore
      BY <2>2, <2>6, <2>7
    <2>8. CASE ~(Rescored(r, l) < LowestScore)
      BY <2>2, <2>3, <2>5, <2>6, <2>8 DEF Row, HighEnough, LowestScore
    <2>. QED
      BY <2>7, <2>8
  <1>2. GoodWrites(r, w)
    BY <1>1 DEF GoodWrites
  <1>. HIDE DEF w
  <1>3. Flush(r, w)
    BY DEF Score, w
  <1>. QED
    BY <1>2, <1>3, PcSteps, FlushIInv DEF Score

LEMMA QuietStepsIInv ==
    ASSUME IInv, NEW r \in Runs,
           Load(r) \/ TouchNothing(r) \/ Answer(r) \/ Count(r) \/ Pick(r) \/ Read(r)
    PROVE  IInv'
  <1>1. {} \in SUBSET Live(View(r))
    OBVIOUS
  <1>2. \A S : Reads(r, S) => seen' \in [Runs -> [Lessons -> Row \union {NoRow}]]
                              \/ ~(S \subseteq Live(View(r)))
    <2> SUFFICES ASSUME NEW S \in SUBSET Live(View(r)), Reads(r, S)
                 PROVE  seen' \in [Runs -> [Lessons -> Row \union {NoRow}]]
      OBVIOUS
    <2>1. Result(r, S) \in [Lessons -> Row \union {NoRow}]
      BY ViewIsRow DEF Result
    <2>. QED
      BY <2>1 DEF Reads, IInv, TypeOK
  <1>3. CASE Load(r)
    <2>1. PICK S \in SUBSET Lessons : Top(View(r), S) /\ Reads(r, S)
      BY <1>3 DEF Load
    <2>2. S \in SUBSET Live(View(r))
      BY <2>1 DEF Top
    <2>3. TypeOK'
      BY <1>2, <1>3, <2>1, <2>2 DEF Load, Active, Goto, IInv, TypeOK
    <2>. QED
      BY <1>3, <2>1, <2>2, <2>3, QueryIInv DEF Load
  <1>4. CASE TouchNothing(r)
    <2>1. TypeOK'
      BY <1>4 DEF TouchNothing, Goto, IInv, TypeOK, Nothing
    <2>. QED
      BY <1>1, <1>4, <2>1, QueryIInv DEF TouchNothing
  <1>5. CASE Answer(r)
    <2>1. TypeOK'
      BY <1>5 DEF Answer, Goto, IInv, TypeOK
    <2>. QED
      BY <1>1, <1>5, <2>1, QueryIInv DEF Answer
  <1>6. CASE Count(r)
    <2>1. TypeOK'
      BY <1>6 DEF Count, Goto, IInv, TypeOK
    <2>. QED
      BY <1>1, <1>6, <2>1, QueryIInv DEF Count
  <1>7. CASE Pick(r)
    <2>1. PICK S \in SUBSET Live(View(r)) : Reads(r, S)
      BY <1>7 DEF Pick, Lowest
    <2>2. TypeOK'
      BY <1>2, <1>7, <2>1 DEF Pick, Goto, IInv, TypeOK
    <2>. QED
      BY <1>7, <2>1, <2>2, QueryIInv DEF Pick
  <1>8. CASE Read(r)
    <2>1. TypeOK'
      BY <1>2, <1>8 DEF Read, Goto, IInv, TypeOK
    <2>. QED
      BY <1>8, <2>1, QueryIInv DEF Read
  <1>. QED
    BY <1>3, <1>4, <1>5, <1>6, <1>7, <1>8

LEMMA DeleteIInv == ASSUME IInv, NEW l \in Lessons, DeleteLesson(l) PROVE IInv'
  <1>1. TypeOK'
    BY DEF DeleteLesson, Active, IInv, TypeOK
  <1>2. \A m \in Lessons : row'[m] = IF m = l THEN Gone ELSE row[m]
    BY DEF DeleteLesson, Active, IInv, TypeOK
  <1>3. UNCHANGED <<dirty, seen>> /\ \A q \in Runs : dirty[q][l] = Clean
    BY DEF DeleteLesson
  <1>. QED
    BY <1>1, <1>2, <1>3, RowAssumption
    DEF IInv, Exclusive, WritesLive, SeenExist, NoneLow

LEMMA NextIInv == IInv /\ [Next]_vars => IInv'
  <1> SUFFICES ASSUME IInv, [Next]_vars PROVE IInv'
    OBVIOUS
  <1>1. ASSUME NEW r \in Runs,
               \/ Load(r) \/ TouchNothing(r) \/ Answer(r) \/ Count(r) \/ Pick(r) \/ Read(r)
        PROVE  IInv'
    BY <1>1, QuietStepsIInv
  <1>2. ASSUME NEW r \in Runs, Touch(r) \/ Store(r) \/ Score(r) PROVE IInv'
    BY <1>2, TouchIInv, StoreIInv, ScoreIInv
  <1>3. ASSUME NEW r \in Runs, TouchStale(r) \/ Swallow(r) \/ Finish(r) \/ Cut(r) PROVE IInv'
    BY <1>3, RollbackIInv, CommitIInv DEF TouchStale, Swallow, Finish, Cut
  <1>4. ASSUME NEW l \in Lessons, DeleteLesson(l) PROVE IInv'
    BY <1>4, DeleteIInv
  <1>5. CASE UNCHANGED vars
    BY <1>5 DEF vars, IInv, TypeOK, Exclusive, WritesLive, SeenExist, NoneLow
  <1>. QED
    BY <1>1, <1>2, <1>3, <1>4, <1>5 DEF Next, Moves, Flushes

\* The invariant of the lessons holds throughout.
THEOREM SpecIInv == Spec => []IInv
  BY InitIInv, NextIInv, PTL DEF Spec

\* The table, the transactions and what the runs read keep their types.
THEOREM SpecTypeOK == Spec => []TypeOK
  <1>1. IInv => TypeOK
    BY DEF IInv
  <1>. QED
    BY <1>1, SpecIInv, PTL

\* No race leaves a lesson with a score below -3 (update_lesson_utility).
THEOREM LowScoresGo == Spec => []NoLowScore
  <1>1. IInv => NoLowScore
    BY DEF IInv, TypeOK, NoneLow, NoLowScore, Live, HighEnough
  <1>. QED
    BY <1>1, SpecIInv, PTL

\* No flush of a run brings a deleted lesson back (extract_and_store_lesson,
\* update_lesson_utility, prepare_prompt_context).
THEOREM DeletionIsFinal == Spec => DeletedStaysDeleted
  <1>1. IInv /\ [Next]_vars => \A l \in Lessons : row[l] = Gone => row'[l] = Gone
    <2> SUFFICES ASSUME IInv, [Next]_vars, NEW l \in Lessons, row[l] = Gone
                 PROVE  row'[l] = Gone
      OBVIOUS
    <2>1. ASSUME NEW r \in Runs, Touch(r) PROVE row'[l] = Gone
      <3>1. Seen(r) \subseteq Live(row) /\ l \notin Live(row)
        BY <2>1 DEF Touch, Touchable, Live
      <3>2. CASE FlushCommit(r, UsedAgain(r))
        <4>1. Written(r, UsedAgain(r))[l] = dirty[r][l]
          BY <3>1 DEF Written, UsedAgain
        <4>. QED
          BY <3>2, <4>1 DEF FlushCommit, IInv, WritesLive
      <3>. QED
        BY <2>1, <3>2 DEF Touch
    <2>2. ASSUME NEW r \in Runs, Finish(r) PROVE row'[l] = Gone
      BY <2>2 DEF Finish, Commit, Rollback, View, IInv, WritesLive
    <2>3. ASSUME NEW m \in Lessons, DeleteLesson(m) PROVE row'[l] = Gone
      BY <2>3 DEF DeleteLesson, IInv, TypeOK
    <2>4. CASE row' = row
      BY <2>4
    <2>. QED
      BY <2>1, <2>2, <2>3, <2>4
      DEF Next, Moves, Flushes, vars, Load, TouchNothing, TouchStale, Answer, Count, Pick,
          Store, Read, Score, Swallow, Cut, Rollback
  <1>. QED
    BY <1>1, SpecIInv, PTL DEF Spec, DeletedStaysDeleted
-----------------------------------------------------------------------------
\* The lessons of a table are finitely many.
LEMMA LiveFinite ==
    ASSUME NEW t
    PROVE  IsFiniteSet(Live(t)) /\ Cardinality(Live(t)) \in Nat
  <1>1. Live(t) \in SUBSET Lessons
    BY DEF Live
  <1>. QED
    BY <1>1, LessonsAssumption, FS_Subset, FS_CardinalityType

\* A table with no lesson that another one lacks has no more of them.
LEMMA LiveFewer ==
    ASSUME NEW t, NEW u, Live(t) \subseteq Live(u)
    PROVE  Cardinality(Live(t)) <= Cardinality(Live(u))
  BY LiveFinite, FS_Subset

\* Without writes of its own, a query of r returns the table.
LEMMA CleanView ==
    ASSUME IInv, NEW r \in Runs, dirty[r] = NoWrites
    PROVE  View(r) = row
  BY DEF View, NoWrites, IInv, TypeOK

LEMMA AloneInit == Init => AloneInv
  BY DEF Init, AloneInv, Beside, Active

\* A step of a run in progress that leaves the others as they are.
LEMMA OwnStep ==
    ASSUME IInv, AloneInv, NEW r \in Runs, NEW from, NEW to, Goto(r, from, to),
           from # "idle", to # "idle", mingled' = mingled,
           \A q \in Runs \ {r} : dirty'[q] = dirty[q],
           r \notin mingled => Alone(r)'
    PROVE  AloneInv'
  <1>1. \A q \in Runs : pc'[q] = IF q = r THEN to ELSE pc[q]
    BY DEF Goto, IInv, TypeOK
  <1>2. Active' = Active /\ r \in Active
    BY <1>1 DEF Active, Goto
  <1>3. Beside'
    BY <1>1, <1>2 DEF AloneInv, Beside
  <1>4. \A q \in Active \ mingled : q = r
    BY <1>2 DEF AloneInv, Beside
  <1>. QED
    BY <1>2, <1>3, <1>4 DEF AloneInv

\* A run that ends leaves nobody behind that knows of no other.
LEMMA LeaveAlone ==
    ASSUME IInv, AloneInv, NEW r \in Runs, pc[r] # "idle", Leave(r),
           dirty' = [dirty EXCEPT ![r] = NoWrites]
    PROVE  AloneInv'
  <1>0. DOMAIN pc = Runs /\ DOMAIN dirty = Runs
    BY DEF IInv, TypeOK
  <1>1. \A q \in Runs : pc'[q] = IF q = r THEN "idle" ELSE pc[q]
    BY <1>0 DEF Leave
  <1>5. \A q \in Runs : dirty'[q] = IF q = r THEN NoWrites ELSE dirty[q]
    BY <1>0
  <1>2. r \in Active /\ Active' = Active \ {r} /\ mingled' = mingled \ {r}
    BY <1>1 DEF Active, Leave
  <1>3. Beside'
    BY <1>1, <1>2, <1>5 DEF AloneInv, Beside
  <1>4. Active' \ mingled' = {}
    BY <1>2 DEF AloneInv, Beside
  <1>. QED
    BY <1>3, <1>4 DEF AloneInv

LEMMA LoadAlone == ASSUME IInv, AloneInv, NEW r \in Runs, Load(r) PROVE AloneInv'
  <1>1. \A q \in Runs : pc'[q] = IF q = r THEN "touch" ELSE pc[q]
    BY DEF Load, Goto, IInv, TypeOK
  <1>2. Active' = Active \union {r} /\ dirty' = dirty /\ dirty[r] = NoWrites
    BY <1>1 DEF Active, Load, AloneInv, Beside, Goto
  <1>3. CASE Active = {}
    <2>1. Beside'
      BY <1>1, <1>2, <1>3 DEF AloneInv, Beside
    <2>2. Alone(r)'
      BY <1>1, <1>2 DEF Alone
    <2>. QED
      BY <1>2, <1>3, <2>1, <2>2 DEF AloneInv
  <1>4. CASE Active # {}
    <2>1. Active' \subseteq mingled'
      BY <1>2, <1>4 DEF Load
    <2>2. Beside'
      BY <1>1, <1>2, <2>1 DEF AloneInv, Beside
    <2>. QED
      BY <2>1, <2>2 DEF AloneInv
  <1>. QED
    BY <1>3, <1>4

\* The counted rows were there, and stay.
LEMMA TouchAlone ==
    ASSUME IInv, AloneInv, NEW r \in Runs, Touch(r)
    PROVE  AloneInv' /\ (r \notin mingled => Live(row') = Live(row))
  <1>. DEFINE w == UsedAgain(r)
             d == Written(r, w)
  <1>1. Goto(r, "touch", "calling") /\ mingled' = mingled /\ r \in Active
    BY DEF Touch, Goto, Active
  <1>2. DOMAIN w = Seen(r) /\ Seen(r) \subseteq Live(row)
    BY DEF UsedAgain, Touch, Touchable
  <1>3. ASSUME NEW l \in Seen(r) PROVE w[l] \in Row
    <2>1. row[l] \in Row
      BY <1>2, RowAssumption DEF Live, IInv, TypeOK
    <2>2. seen[r][l] \in Row
      BY SeenAreRows
    <2>. QED
      BY <2>1, <2>2 DEF UsedAgain, Row
  <1>4. ASSUME r \notin mingled
        PROVE  \A l \in Lessons : IF l \in Seen(r) THEN d[l] \in Row ELSE d[l] = Clean
    <2>1. dirty[r] = NoWrites
      BY <1>1, <1>4 DEF AloneInv, Alone, Goto
    <2>2. \A l \in Lessons : d[l] = IF l \in Seen(r) THEN w[l] ELSE Clean
      BY <1>2, <2>1 DEF Written, NoWrites
    <2>. QED
      BY <1>3, <2>2
  <1>. HIDE DEF w, d
  <1>5. \/ dirty' = [dirty EXCEPT ![r] = d] /\ row' = row
        \/ /\ row' = [l \in Lessons |-> IF d[l] = Clean THEN row[l] ELSE d[l]]
           /\ dirty' = [dirty EXCEPT ![r] = NoWrites]
    BY DEF Touch, Flush, FlushCommit, d, w
  <1>6. \A q \in Runs \ {r} : dirty'[q] = dirty[q]
    BY <1>5 DEF IInv, TypeOK
  <1>7. pc'[r] = "calling"
    BY <1>1 DEF Goto, IInv, TypeOK
  <1>8. ASSUME r \notin mingled PROVE Live(row') = Live(row) /\ Live(View(r)') = Live(row)
    <2>1. CASE dirty' = [dirty EXCEPT ![r] = d] /\ row' = row
      <3>1. dirty'[r] = d
        BY <2>1 DEF IInv, TypeOK
      <3>2. \A l \in Lessons : View(r)'[l] = IF l \in Seen(r) THEN d[l] ELSE row[l]
        BY <1>4, <1>8, <2>1, <3>1, RowAssumption DEF View
      <3>3. \A l \in Lessons : View(r)'[l] \in {NoRow, Gone} <=> row[l] \in {NoRow, Gone}
        BY <1>2, <1>4, <1>8, <3>2, RowAssumption DEF Live
      <3>. QED
        BY <2>1, <3>3 DEF Live
    <2>2. CASE /\ row' = [l \in Lessons |-> IF d[l] = Clean THEN row[l] ELSE d[l]]
               /\ dirty' = [dirty EXCEPT ![r] = NoWrites]
      <3>1. dirty'[r] = NoWrites
        BY <2>2 DEF IInv, TypeOK
      <3>2. \A l \in Lessons : row'[l] = IF l \in Seen(r) THEN d[l] ELSE row[l]
        BY <1>4, <1>8, <2>2, RowAssumption
      <3>3. \A l \in Lessons : View(r)'[l] = row'[l]
        BY <3>1 DEF View, NoWrites
      <3>4. \A l \in Lessons : row'[l] \in {NoRow, Gone} <=> row[l] \in {NoRow, Gone}
        BY <1>2, <1>4, <1>8, <3>2, RowAssumption DEF Live
      <3>. QED
        BY <3>3, <3>4 DEF Live
    <2>. QED
      BY <1>5, <2>1, <2>2
  <1>9. r \notin mingled => Alone(r)'
    BY <1>7, <1>8 DEF Alone
  <1>. QED
    BY <1>1, <1>6, <1>8, <1>9, OwnStep

\* Steps that write nothing.
LEMMA QuietAlone ==
    ASSUME IInv, AloneInv, NEW r \in Runs,
           TouchNothing(r) \/ Answer(r) \/ Count(r) \/ Pick(r) \/ Read(r)
    PROVE  AloneInv'
  <1>1. UNCHANGED <<row, dirty, mingled>> /\ r \in Runs /\ View(r)' = View(r)
    BY DEF TouchNothing, Answer, Count, Pick, Read, View
  <1>2. ASSUME NEW from \in {"touch", "calling", "count", "pick", "read"},
               NEW to \in {"calling", "count", "pick", "store", "read", "score"},
               Goto(r, from, to), r \notin mingled => Alone(r)'
        PROVE  AloneInv'
    BY <1>1, <1>2, OwnStep
  <1>3. \A from, to : Goto(r, from, to) => pc[r] = from /\ pc'[r] = to
    BY DEF Goto, IInv, TypeOK
  <1>4. r \notin mingled /\ pc[r] # "idle" => Alone(r)
    BY DEF AloneInv, Active
  <1>5. CASE TouchNothing(r)
    <2>1. Goto(r, "touch", "calling")
      BY <1>5 DEF TouchNothing
    <2>2. r \notin mingled => Alone(r)'
      BY <1>1, <1>3, <1>4, <2>1, CleanView DEF Alone
    <2>. QED
      BY <1>2, <2>1, <2>2
  <1>6. CASE Answer(r)
    <2>1. PICK to \in {"count", "read"} : Goto(r, "calling", to)
      BY <1>6 DEF Answer
    <2>2. r \notin mingled => Live(View(r)) = Live(row)
      BY <1>3, <1>4, <2>1 DEF Alone
    <2>3. r \notin mingled => Alone(r)'
      BY <1>1, <1>3, <2>1, <2>2, LiveFinite DEF Alone, Kept, Live
    <2>. QED
      BY <1>2, <2>1, <2>3
  <1>7. CASE Count(r)
    <2>1. PICK to \in {"pick", "store"} :
            /\ Goto(r, "count", to)
            /\ to = "pick" <=> Cardinality(Live(View(r))) >= MaxLessons
      BY <1>7 DEF Count
    <2>2. r \notin mingled => Live(View(r)) = Live(row)
      BY <1>3, <1>4, <2>1 DEF Alone
    <2>3. Cardinality(Live(View(r))) \in Nat /\ MaxLessons \in Nat
      BY LiveFinite, BoundsAssumption
    <2>4. r \notin mingled => Alone(r)'
      BY <1>1, <1>3, <2>1, <2>2, <2>3 DEF Alone, Live
    <2>. QED
      BY <1>2, <2>1, <2>4
  <1>8. CASE Pick(r)
    <2>1. Goto(r, "pick", "store")
      BY <1>8 DEF Pick
    <2>2. ASSUME r \notin mingled PROVE \E l \in Live(row) : Seen(r)' = {l}
      <3>1. Live(View(r)) = Live(row) /\ Cardinality(Live(row)) >= MaxLessons
        BY <1>3, <1>4, <2>1, <2>2 DEF Alone
      <3>2. Live(row) # {}
        BY <3>1, BoundsAssumption, FS_EmptySet
      <3>3. PICK l \in Live(View(r)) : Reads(r, {l})
        BY <1>8, <3>1, <3>2 DEF Pick, Lowest
      <3>4. seen'[r] = Result(r, {l})
        BY <3>3 DEF Reads, IInv, TypeOK
      <3>5. Seen(r)' = {l}
        BY <3>3, <3>4, RowAssumption DEF Seen, Live, Result
      <3>. QED
        BY <3>1, <3>5
    <2>3. r \notin mingled => Alone(r)'
      BY <1>1, <1>3, <1>4, <2>1, <2>2 DEF Alone, Live
    <2>. QED
      BY <1>2, <2>1, <2>3
  <1>9. CASE Read(r)
    <2>1. Goto(r, "read", "score")
      BY <1>9 DEF Read
    <2>2. r \notin mingled => Alone(r)'
      BY <1>1, <1>3, <1>4, <2>1 DEF Alone, Kept, Live
    <2>. QED
      BY <1>2, <2>1, <2>2
  <1>. QED
    BY <1>5, <1>6, <1>7, <1>8, <1>9

\* Below the cap a lesson is added; at the cap, or over it, one goes for it.
LEMMA StoreAlone == ASSUME IInv, AloneInv, NEW r \in Runs, Store(r) PROVE AloneInv'
  <1>1. PICK l \in Lessons : Fresh(l) /\ Flush(r, Replacement(r, l))
    BY DEF Store
  <1>. DEFINE d == Written(r, Replacement(r, l))
  <1>2. /\ Goto(r, "store", "read") /\ mingled' = mingled /\ row' = row
        /\ dirty' = [dirty EXCEPT ![r] = d]
    BY <1>1 DEF Store, Flush
  <1>3. pc[r] = "store" /\ pc'[r] = "read" /\ dirty'[r] = d
        /\ \A q \in Runs \ {r} : dirty'[q] = dirty[q]
    BY <1>2 DEF Goto, IInv, TypeOK
  <1>4. ASSUME r \notin mingled PROVE Kept(View(r))'
    <2>1. /\ Live(View(r)) = Live(row)
          /\ Cardinality(Live(row)) < MaxLessons \/ \E m \in Live(row) : Seen(r) = {m}
      BY <1>3, <1>4 DEF AloneInv, Active, Alone
    <2>2. Seen(r) \subseteq Lessons
      BY DEF Seen, Live
    <2>3. ASSUME NEW m \in Lessons
          PROVE  d[m] = IF m = l THEN NewLesson(r)
                        ELSE IF m \in Seen(r) /\ View(r)[m] # Gone THEN Gone ELSE dirty[r][m]
      BY DEF Written, Replacement
    <2>4. NewLesson(r) \in Row
      BY DEF NewLesson, Row
    <2>. HIDE DEF d
    <2>5. \A m \in Lessons : View(r)'[m] = IF d[m] = Clean THEN row[m] ELSE d[m]
      BY <1>2, <1>3 DEF View
    <2>6. \A m \in Lessons : View(r)[m] = IF dirty[r][m] = Clean THEN row[m] ELSE dirty[r][m]
      BY DEF View
    <2>7. l \notin Live(row)
      BY <1>1 DEF Fresh, Live
    <2>8. Live(View(r)') = (Live(row) \ Seen(r)) \union {l}
      <3>1. ASSUME NEW m \in Lessons
            PROVE  m \in Live(View(r)') <=> m \in (Live(View(r)) \ Seen(r)) \union {l}
        <4>1. CASE m = l
          BY <2>3, <2>4, <2>5, <4>1, RowAssumption DEF Live
        <4>2. CASE m # l /\ m \in Seen(r) /\ View(r)[m] # Gone
          BY <2>3, <2>5, <4>2, RowAssumption DEF Live
        <4>3. CASE m # l /\ ~(m \in Seen(r) /\ View(r)[m] # Gone)
          BY <2>3, <2>5, <2>6, <4>3 DEF Live
        <4>. QED
          BY <4>1, <4>2, <4>3
      <3>2. Live(View(r)') \subseteq Lessons /\ Live(View(r)) \subseteq Lessons
        BY DEF Live
      <3>. QED
        BY <2>1, <3>1, <3>2
    <2>. DEFINE L == Live(row)
    <2>9. IsFiniteSet(L) /\ Cardinality(L) \in Nat /\ MaxLessons \in Nat
      BY LiveFinite, BoundsAssumption
    <2>10. CASE \E m \in L : Seen(r) = {m}
      <3>1. PICK m \in L : Seen(r) = {m}
        BY <2>10
      <3>2. IsFiniteSet(L \ {m}) /\ Cardinality(L \ {m}) = Cardinality(L) - 1
        BY <2>9, <3>1, FS_RemoveElement
      <3>3. Cardinality((L \ {m}) \union {l}) = Cardinality(L \ {m}) + 1
        BY <2>7, <3>2, FS_AddElement
      <3>. QED
        BY <1>2, <2>8, <2>9, <3>1, <3>2, <3>3 DEF Kept
    <2>11. CASE Cardinality(L) < MaxLessons
      <3>1. IsFiniteSet(L \ Seen(r)) /\ Cardinality(L \ Seen(r)) <= Cardinality(L)
            /\ Cardinality(L \ Seen(r)) \in Nat
        BY <2>9, FS_Subset, FS_CardinalityType
      <3>2. Cardinality((L \ Seen(r)) \union {l}) = Cardinality(L \ Seen(r)) + 1
        BY <2>7, <3>1, FS_AddElement
      <3>. QED
        BY <2>8, <2>9, <2>11, <3>1, <3>2 DEF Kept
    <2>. QED
      BY <2>1, <2>10, <2>11
  <1>5. r \notin mingled => Alone(r)'
    BY <1>3, <1>4 DEF Alone
  <1>. QED
    BY <1>2, <1>3, <1>5, OwnStep

\* What is rescored was there.
LEMMA ScoreAlone == ASSUME IInv, AloneInv, NEW r \in Runs, Score(r) PROVE AloneInv'
  <1>. DEFINE w == Scores(r)
             d == Written(r, w)
  <1>1. /\ Goto(r, "score", "commit") /\ mingled' = mingled /\ row' = row
        /\ dirty' = [dirty EXCEPT ![r] = d]
    BY DEF Score, Flush
  <1>2. pc[r] = "score" /\ pc'[r] = "commit" /\ dirty'[r] = d
        /\ \A q \in Runs \ {r} : dirty'[q] = dirty[q]
    BY <1>1 DEF Goto, IInv, TypeOK
  <1>3. \A l \in DOMAIN w : l \in Seen(r) /\ View(r)[l] # Gone
    BY DEF Scores
  <1>4. ASSUME NEW l \in Lessons, l \in DOMAIN w PROVE View(r)[l] \in Row
    <2>1. seen[r][l] \in Row
      BY <1>3, <1>4, SeenAreRows
    <2>. QED
      BY <1>3, <1>4, <2>1, ViewIsRow DEF IInv, SeenExist
  <1>5. \A l \in Lessons : l \notin DOMAIN w => d[l] = dirty[r][l]
    BY DEF Written
  <1>. HIDE DEF w, d
  <1>6. ASSUME NEW l \in Live(View(r)') PROVE l \in Live(View(r))
    <2>1. l \in Lessons /\ View(r)'[l] \notin {NoRow, Gone}
      BY DEF Live
    <2>2. CASE l \in DOMAIN w
      BY <1>4, <2>1, <2>2, ViewIsRow
    <2>3. CASE l \notin DOMAIN w
      <3>1. View(r)'[l] = View(r)[l]
        BY <1>1, <1>2, <1>5, <2>1, <2>3 DEF View
      <3>. QED
        BY <2>1, <3>1 DEF Live
    <2>. QED
      BY <2>2, <2>3
  <1>7. ASSUME r \notin mingled PROVE Kept(View(r))'
    <2>1. Kept(View(r))
      BY <1>2, <1>7 DEF AloneInv, Active, Alone
    <2>2. Cardinality(Live(View(r)')) <= Cardinality(Live(View(r)))
      BY <1>6, LiveFewer
    <2>3. /\ Cardinality(Live(View(r)')) \in Nat /\ Cardinality(Live(View(r))) \in Nat
          /\ Cardinality(Live(row)) \in Nat /\ MaxLessons \in Nat
      BY LiveFinite, BoundsAssumption
    <2>4. Live(row') = Live(row)
      BY <1>1
    <2>. QED
      BY <2>1, <2>2, <2>3, <2>4 DEF Kept
  <1>8. r \notin mingled => Alone(r)'
    BY <1>2, <1>7 DEF Alone
  <1>. QED
    BY <1>1, <1>2, <1>8, OwnStep

LEMMA DeleteAlone == ASSUME IInv, AloneInv, NEW l \in Lessons, DeleteLesson(l) PROVE AloneInv'
  <1>1. dirty' = dirty /\ pc' = pc /\ mingled' = mingled \union Active
    BY DEF DeleteLesson
  <1>4. Active' = Active
    BY <1>1 DEF Active
  <1>2. Beside'
    <2>1. \A q \in Runs : pc'[q] = "idle" => dirty'[q] = NoWrites
      BY <1>1 DEF AloneInv, Beside
    <2>2. \A q, r \in Active' : q # r => q \in mingled'
      BY <1>1, <1>4 DEF AloneInv, Beside
    <2>. QED
      BY <2>1, <2>2 DEF Beside
  <1>3. Active' \ mingled' = {}
    BY <1>1, <1>4
  <1>. QED
    BY <1>2, <1>3 DEF AloneInv

LEMMA NextAlone == IInv /\ AloneInv /\ [Next]_vars => AloneInv'
  <1> SUFFICES ASSUME IInv, AloneInv, [Next]_vars PROVE AloneInv'
    OBVIOUS
  <1>1. ASSUME NEW r \in Runs, TouchStale(r) \/ Swallow(r) \/ Finish(r) \/ Cut(r) PROVE AloneInv'
    BY <1>1, LeaveAlone DEF TouchStale, Swallow, Finish, Cut, Commit, Rollback
  <1>2. ASSUME NEW r \in Runs, Load(r) PROVE AloneInv'
    BY <1>2, LoadAlone
  <1>3. ASSUME NEW r \in Runs, TouchNothing(r) \/ Answer(r) \/ Count(r) \/ Pick(r) \/ Read(r)
        PROVE  AloneInv'
    BY <1>3, QuietAlone
  <1>4. ASSUME NEW r \in Runs, Touch(r) \/ Store(r) \/ Score(r) PROVE AloneInv'
    BY <1>4, TouchAlone, StoreAlone, ScoreAlone
  <1>5. ASSUME NEW l \in Lessons, DeleteLesson(l) PROVE AloneInv'
    BY <1>5, DeleteAlone
  <1>6. CASE UNCHANGED vars
    <2>1. row' = row /\ dirty' = dirty /\ pc' = pc /\ seen' = seen /\ mingled' = mingled
      BY <1>6 DEF vars
    <2>2. \A r \in Runs : View(r)' = View(r) /\ Seen(r)' = Seen(r)
      BY <2>1 DEF View, Seen
    <2>3. \A r \in Runs : Alone(r)' <=> Alone(r)
      BY <2>1, <2>2 DEF Alone, Kept
    <2>4. Active' = Active /\ (Beside' <=> Beside)
      BY <2>1 DEF Active, Beside
    <2>. QED
      BY <2>1, <2>3, <2>4 DEF AloneInv, Active
  <1>. QED
    BY <1>1, <1>2, <1>3, <1>4, <1>5, <1>6 DEF Next, Moves, Flushes

\* "Enforces the max lessons per workflow limit" (extract_and_store_lesson) is
\* true of a run that nobody works beside: it leaves the table within the cap,
\* or with no more lessons than it found.
THEOREM CapHoldsAlone == Spec => CapKeptAlone
  <1>. DEFINE Bounded == \/ Cardinality(Live(row')) <= MaxLessons
                        \/ Cardinality(Live(row')) <= Cardinality(Live(row))
  <1>1. IInv /\ AloneInv /\ [Next]_vars => (mingled = {} => Bounded)
    <2> SUFFICES ASSUME IInv, AloneInv, [Next]_vars, mingled = {} PROVE Bounded
      OBVIOUS
    <2>0. Cardinality(Live(row)) \in Nat /\ Cardinality(Live(row')) \in Nat
      BY LiveFinite
    <2>1. ASSUME NEW r \in Runs, Touch(r) PROVE Bounded
      BY <2>0, <2>1, TouchAlone
    <2>2. ASSUME NEW r \in Runs, Finish(r) PROVE Bounded
      <3>1. Kept(View(r))
        BY <2>2 DEF Finish, AloneInv, Active, Alone
      <3>. QED
        BY <2>0, <2>2, <3>1 DEF Finish, Commit, Rollback, Kept
    <2>3. ASSUME NEW l \in Lessons, DeleteLesson(l) PROVE Bounded
      <3>1. Live(row') \subseteq Live(row)
        BY <2>3, RowAssumption DEF DeleteLesson, Live, IInv, TypeOK
      <3>. QED
        BY <3>1, LiveFewer
    <2>4. CASE row' = row
      BY <2>0, <2>4
    <2>. QED
      BY <2>1, <2>2, <2>3, <2>4
      DEF Next, Moves, Flushes, vars, Load, TouchNothing, TouchStale, Answer, Count, Pick,
          Store, Read, Score, Swallow, Cut, Rollback
  <1>. QED
    BY <1>1, SpecIInv, AloneInit, NextAlone, PTL DEF Spec, CapKeptAlone
=============================================================================
