------------------------ MODULE ToolRegistryProofs ------------------------
(***************************************************************************)
(* ToolRegistry for any number of requests, rows, tools, names and codes.  *)
(* The inductive invariant Inv says what a request may rely on of the row  *)
(* it has read: everything, unless the row is torn; and, torn or not, that *)
(* a tool it has registered is still its own.                              *)
(***************************************************************************)
EXTENDS ToolRegistry, TLAPS

\* What a request may have in hand at each of its steps.
Shape(f) ==
    \/ f = IdleReq
    \/ /\ f.kind = "create" /\ f.row = None
       /\ \/ f.pc \in {"register", "commit"} /\ f.tool = None
          \/ f.pc = "insert" /\ f.tool # None
    \/ /\ f.kind = "propose" /\ f.row = None
       /\ \/ f.pc \in {"dry", "insert", "commit"} /\ f.tool = None
          \/ f.pc = "undry" /\ f.tool # None
    \/ /\ f.kind = "import" /\ f.row = None
       /\ \/ f.pc = "next" /\ f.tool = None
          \/ f.pc = "register" /\ f.tool = None /\ f.name # None /\ f.left # 0
          \/ f.pc = "insert" /\ f.tool # None /\ f.name # None /\ f.left # 0
    \/ /\ f.kind = "approve" /\ f.row # None
       /\ \/ f.pc = "register" /\ f.tool = None
          \/ f.pc = "commit" /\ f.tool # None
    \/ /\ f.kind = "reject" /\ f.row # None /\ f.pc = "commit" /\ f.tool = None
    \/ /\ f.kind = "update" /\ f.row # None /\ f.pc \in {"letta", "commit"}
       /\ f.pc = "commit" /\ f.tool = None => "code" \notin f.sets
    \/ f.kind = "delete" /\ f.row # None /\ f.pc \in {"letta", "commit"}

RequestShape == \A q \in Req : Shape(reqs[q])

\* An absent row is blank; only an active one has a tool.
RowShape ==
    \A r \in Row : /\ rows[r].st = "none" => rows[r] = NoRow
                   /\ rows[r].st = "pending" => rows[r].tool = None
                   /\ rows[r].st = "active" => rows[r].tool # None

Base == TypeOK /\ RequestShape /\ RowShape

-----------------------------------------------------------------------------
LEMMA NoneFacts == /\ None \notin Req /\ None \notin Row /\ None \notin Tool
                   /\ None \notin Name /\ None \notin Code
                   /\ MaxImport \in Nat /\ MaxArrivals \in Nat
  BY ConstantsAssumption

LEMMA FirstFact == ASSUME NEW S, S # {} PROVE First(S) \in S
  BY DEF First

\* The new id is one nobody refers to.
LEMMA NewToolFact ==
    ASSUME UnusedTools # {}
    PROVE  /\ NewTool \in Tool /\ ~letta[NewTool].live
           /\ \A r \in Row : rows[r].tool # NewTool
           /\ \A q \in Req : reqs[q].tool # NewTool
  <1>1. NewTool \in UnusedTools
    BY FirstFact DEF NewTool
  <1>. QED
    BY <1>1 DEF UnusedTools

LEMMA NewRowFact ==
    ASSUME UnusedRows # {}
    PROVE  /\ NewRow \in Row /\ rows[NewRow].st = "none"
           /\ \A q \in Req : reqs[q].row # NewRow
  <1>1. NewRow \in UnusedRows
    BY FirstFact DEF NewRow
  <1>. QED
    BY <1>1 DEF UnusedRows, Busy

LEMMA IdleReqFact == IdleReq \in Reqs /\ Shape(IdleReq)
  BY NoneFacts DEF IdleReq, Reqs, Shape, Maybe

\* A request that moves leaves the others where they are.
LEMMA MoveFact ==
    ASSUME reqs \in [Req -> Reqs], RequestShape, NEW q \in Req, NEW f \in Reqs, Shape(f),
           Move(q, f)
    PROVE  /\ reqs' \in [Req -> Reqs] /\ RequestShape'
           /\ reqs'[q] = f /\ \A p \in Req \ {q} : reqs'[p] = reqs[p]
  BY DEF Move, RequestShape

LEMMA BaseInit == Init => Base
  <1>. SUFFICES ASSUME Init PROVE Base
    OBVIOUS
  <1>1. /\ First(Tool) \in Tool /\ First(Name) \in Name /\ First(Code) \in Code
    BY FirstFact, ConstantsAssumption
  <1>2. NoRow \in Rows /\ NoTool \in Tools
    BY DEF NoRow, Rows, NoTool, Tools, Maybe
  <1>3. TypeOK
    <2>1. rows \in [Row -> Rows]
      <3>1. /\ Stored("pending", First(Name), First(Code), None) \in Rows
            /\ Stored("active", First(Name), First(Code), First(Tool)) \in Rows
        BY <1>1 DEF Stored, Rows, Maybe
      <3>. QED
        BY <3>1, <1>2 DEF Init
    <2>2. letta \in [Tool -> Tools]
      <3>1. Made(First(Name), First(Code)) \in Tools
        BY <1>1 DEF Made, Tools, Maybe
      <3>. QED
        BY <3>1, <1>2 DEF Init
    <2>. QED
      BY <2>1, <2>2, IdleReqFact DEF Init, TypeOK
  <1>4. RequestShape
    BY IdleReqFact DEF Init, RequestShape
  <1>5. RowShape
    BY <1>1, NoneFacts DEF Init, RowShape, Stored, NoRow
  <1>. QED
    BY <1>3, <1>4, <1>5 DEF Base

\* What a step of request q leaves of the requests.
Moved(q) == /\ reqs' = [reqs EXCEPT ![q] = reqs'[q]]
            /\ reqs'[q] \in Reqs /\ Shape(reqs'[q])

LEMMA MovedFact ==
    ASSUME NEW q \in Req, NEW f \in Reqs, Shape(f), reqs \in [Req -> Reqs],
           reqs' = [reqs EXCEPT ![q] = f]
    PROVE  Moved(q)
  BY DEF Moved

LEMMA NextToolFact ==
    ASSUME NEW q \in Req, reqs[q] \in Reqs, NEW known \in SUBSET Name, Shape(reqs[q]),
           reqs[q].kind = "import", reqs[q].left # 0
    PROVE  NextTool(q, known) \in Reqs /\ Shape(NextTool(q, known))
  <1>1. reqs[q].left - 1 \in 0..MaxImport
    BY NoneFacts DEF Reqs
  <1>2. NextTool(q, known) \in Reqs
    BY <1>1 DEF NextTool, Reqs, Maybe
  <1>3. Shape(NextTool(q, known))
    BY DEF NextTool, Shape, Reqs, IdleReq
  <1>. QED
    BY <1>2, <1>3

\* Every step moves one request, to a shape it may have.
LEMMA RequestStep ==
    ASSUME Base, NEW q \in Req, Arrive(q) \/ Step(q) \/ Dies(q)
    PROVE  Moved(q)
  <1>0. /\ reqs \in [Req -> Reqs] /\ reqs[q] \in Reqs /\ Shape(reqs[q])
        /\ \A r \in Row : rows[r] \in Rows
    BY DEF Base, TypeOK, RequestShape
  <1>1. ASSUME NEW n \in Name, NEW c \in Code, BeginCreate(q, n, c) PROVE Moved(q)
    <2>. DEFINE f == [IdleReq EXCEPT !.kind = "create", !.pc = "register", !.name = n, !.code = c]
    <2>1. reqs' = [reqs EXCEPT ![q] = f]
      BY <1>1 DEF BeginCreate, Begin, Move
    <2>2. f \in Reqs
      <3>1. f.kind \in Kinds
        BY <1>1, <1>0, IdleReqFact DEF BeginCreate, Begin, Reqs
      <3>. QED
        BY <3>1, <1>1, <1>0, IdleReqFact, NoneFacts DEF BeginCreate, Reqs, Rows, Maybe
    <2>3. Shape(f)
      BY <1>1, <1>0, NoneFacts DEF BeginCreate, Shape, IdleReq, Reqs
    <2>. QED
      BY <2>1, <2>2, <2>3, <1>0, MovedFact
  <1>2. ASSUME NEW n \in Name, NEW c \in Code, BeginPropose(q, n, c) PROVE Moved(q)
    <2>1. PICK p \in {"dry", "insert"} :
             Begin(q, [IdleReq EXCEPT !.kind = "propose", !.pc = p, !.name = n, !.code = c])
      BY <1>2 DEF BeginPropose
    <2>. DEFINE f == [IdleReq EXCEPT !.kind = "propose", !.pc = p, !.name = n, !.code = c]
    <2>2. reqs' = [reqs EXCEPT ![q] = f] /\ f.kind \in Kinds
      BY <2>1 DEF Begin, Move
    <2>3. f \in Reqs
      BY <2>2, IdleReqFact DEF Reqs, Maybe
    <2>4. Shape(f)
      BY NoneFacts DEF Shape, IdleReq
    <2>. QED
      BY <2>2, <2>3, <2>4, <1>0, MovedFact
  <1>3. ASSUME BeginImport(q) PROVE Moved(q)
    <2>. DEFINE known == {m \in Name : Taken(m)}
                f == [IdleReq EXCEPT !.kind = "import", !.pc = "next", !.left = MaxImport,
                                     !.known = known]
    <2>1. reqs' = [reqs EXCEPT ![q] = f] /\ f.kind \in Kinds
      BY <1>3 DEF BeginImport, Begin, Move
    <2>2. known \in SUBSET Name /\ MaxImport \in 0..MaxImport
      BY NoneFacts
    <2>3. Shape(f)
      BY NoneFacts DEF Shape, IdleReq
    <2>4. "import" \in Kinds
      BY <2>1, IdleReqFact DEF Reqs
    <2>. HIDE DEF known
    <2>5. f \in Reqs
      BY <2>2, <2>4, IdleReqFact DEF Reqs
    <2>. QED
      BY <2>1, <2>3, <2>5, <1>0, MovedFact
  <1>4. ASSUME NEW r \in Row, BeginApprove(q, r) PROVE Moved(q)
    <2>. DEFINE f == [IdleReq EXCEPT !.kind = "approve", !.pc = "register", !.name = rows[r].name,
                                     !.code = rows[r].code, !.row = r]
    <2>1. reqs' = [reqs EXCEPT ![q] = f]
      BY <1>4 DEF BeginApprove, BeginOn, Begin, Move
    <2>2. f \in Reqs
      <3>1. f.kind \in Kinds
        BY <1>4, <1>0, IdleReqFact DEF BeginApprove, BeginOn, Begin, Reqs
      <3>. QED
        BY <3>1, <1>4, <1>0, IdleReqFact, NoneFacts DEF BeginApprove, Reqs, Rows, Maybe
    <2>3. Shape(f)
      BY <1>4, <1>0, NoneFacts DEF BeginApprove, Shape, IdleReq, Reqs
    <2>. QED
      BY <2>1, <2>2, <2>3, <1>0, MovedFact
  <1>5. ASSUME NEW r \in Row, BeginReject(q, r) PROVE Moved(q)
    <2>. DEFINE f == [IdleReq EXCEPT !.kind = "reject", !.pc = "commit", !.row = r]
    <2>1. reqs' = [reqs EXCEPT ![q] = f]
      BY <1>5 DEF BeginReject, BeginOn, Begin, Move
    <2>2. f \in Reqs
      <3>1. f.kind \in Kinds
        BY <1>5, <1>0, IdleReqFact DEF BeginReject, BeginOn, Begin, Reqs
      <3>. QED
        BY <3>1, <1>5, <1>0, IdleReqFact, NoneFacts DEF BeginReject, Reqs, Rows, Maybe
    <2>3. Shape(f)
      BY <1>5, <1>0, NoneFacts DEF BeginReject, Shape, IdleReq, Reqs
    <2>. QED
      BY <2>1, <2>2, <2>3, <1>0, MovedFact
  <1>6. ASSUME NEW r \in Row, BeginDelete(q, r) PROVE Moved(q)
    <2>. DEFINE f == [IdleReq EXCEPT !.kind = "delete", !.pc = "letta", !.tool = rows[r].tool, !.row = r]
    <2>1. reqs' = [reqs EXCEPT ![q] = f]
      BY <1>6 DEF BeginDelete, BeginOn, Begin, Move
    <2>2. f \in Reqs
      <3>1. f.kind \in Kinds
        BY <1>6, <1>0, IdleReqFact DEF BeginDelete, BeginOn, Begin, Reqs
      <3>. QED
        BY <3>1, <1>6, <1>0, IdleReqFact, NoneFacts DEF BeginDelete, Reqs, Rows, Maybe
    <2>3. Shape(f)
      BY <1>6, <1>0, NoneFacts DEF BeginDelete, Shape, IdleReq, Reqs
    <2>. QED
      BY <2>1, <2>2, <2>3, <1>0, MovedFact
  <1>7. ASSUME NEW r \in Row, NEW n \in Name, NEW c \in Maybe(Code), BeginUpdate(q, r, n, c) PROVE Moved(q)
    <2>. DEFINE f == [UpdateRequest(r, n, c) EXCEPT !.row = r]
    <2>1. reqs' = [reqs EXCEPT ![q] = f] /\ f.kind \in Kinds
      BY <1>7 DEF BeginUpdate, BeginOn, Begin, Move
    <2>2. f \in Reqs
      <3>. DEFINE sets == {s \in {"name", "code"} :
                                \/ s = "name" /\ n # rows[r].name
                                \/ s = "code" /\ c \notin {None, rows[r].code}}
                  code == IF c = None THEN rows[r].code ELSE c
                  tool == IF CallsLetta(r, c) THEN rows[r].tool ELSE None
                  pc == IF CallsLetta(r, c) THEN "letta" ELSE "commit"
      <3>1. /\ sets \in SUBSET {"name", "code"} /\ code \in Maybe(Code)
            /\ tool \in Maybe(Tool) /\ pc \in {"letta", "commit"}
        BY <1>0 DEF Rows, Maybe
      <3>2. f = [IdleReq EXCEPT !.kind = "update", !.pc = pc, !.name = n, !.code = code,
                                !.tool = tool, !.sets = sets, !.row = r]
        BY DEF UpdateRequest
      <3>3. "update" \in Kinds
        BY <2>1, <3>2, IdleReqFact DEF Reqs
      <3>. HIDE DEF sets, code, tool, pc, f
      <3>. QED
        BY <3>1, <3>2, <3>3, IdleReqFact DEF Reqs, Maybe
    <2>3. Shape(f)
      BY NoneFacts DEF Shape, IdleReq, UpdateRequest, CallsLetta
    <2>. QED
      BY <2>1, <2>2, <2>3, <1>0, MovedFact
  <1>8. ASSUME DryRun(q) PROVE Moved(q)
    <2>. DEFINE f == [reqs[q] EXCEPT !.pc = "undry", !.tool = NewTool]
                g == [reqs[q] EXCEPT !.pc = "insert"]
    <2>1. reqs' = [reqs EXCEPT ![q] = f] \/ reqs' = [reqs EXCEPT ![q] = g]
      BY <1>8 DEF DryRun, Move
    <2>2. f \in Reqs /\ g \in Reqs
      BY <1>8, <1>0, NewToolFact DEF DryRun, Reqs, Maybe
    <2>3. Shape(f) /\ Shape(g)
      BY <1>8, <1>0, NoneFacts, NewToolFact DEF DryRun, Shape, IdleReq, Reqs
    <2>. QED
      BY <2>1, <2>2, <2>3, <1>0, MovedFact
  <1>9. ASSUME DryRunFails(q) PROVE Moved(q)
    <2>. DEFINE f == [reqs[q] EXCEPT !.pc = "insert"]
    <2>1. reqs' = [reqs EXCEPT ![q] = f]
      BY <1>9 DEF DryRunFails, Move
    <2>2. f \in Reqs
      <3>1. reqs[q].pc # "idle"
        BY <1>9, <1>0, IdleReqFact DEF DryRunFails, Reqs
      <3>. QED
        BY <3>1, <1>9, <1>0, IdleReqFact, NoneFacts DEF DryRunFails, Reqs, Rows, Maybe
    <2>3. Shape(f)
      BY <1>9, <1>0, NoneFacts DEF DryRunFails, Shape, IdleReq, Reqs
    <2>. QED
      BY <2>1, <2>2, <2>3, <1>0, MovedFact
  <1>10. ASSUME DryDelete(q) PROVE Moved(q)
    <2>. DEFINE f == [reqs[q] EXCEPT !.pc = "insert", !.tool = None]
    <2>1. reqs' = [reqs EXCEPT ![q] = f]
      BY <1>10 DEF DryDelete, Move
    <2>2. f \in Reqs
      <3>1. reqs[q].pc # "idle"
        BY <1>10, <1>0, IdleReqFact DEF DryDelete, Reqs
      <3>. QED
        BY <3>1, <1>10, <1>0, IdleReqFact, NoneFacts DEF DryDelete, Reqs, Rows, Maybe
    <2>3. Shape(f)
      BY <1>10, <1>0, NoneFacts DEF DryDelete, Shape, IdleReq, Reqs
    <2>. QED
      BY <2>1, <2>2, <2>3, <1>0, MovedFact
  <1>11. ASSUME NEW n \in Name, NEW c \in Code, ImportNext(q, n, c) PROVE Moved(q)
    <2>. DEFINE f == [reqs[q] EXCEPT !.pc = "register", !.name = n, !.code = c]
    <2>1. reqs' = [reqs EXCEPT ![q] = f]
      BY <1>11 DEF ImportNext, Move
    <2>2. f \in Reqs
      <3>1. reqs[q].pc # "idle"
        BY <1>11, <1>0, IdleReqFact DEF ImportNext, Reqs
      <3>. QED
        BY <3>1, <1>11, <1>0, IdleReqFact, NoneFacts DEF ImportNext, Reqs, Rows, Maybe
    <2>3. Shape(f)
      BY <1>11, <1>0, NoneFacts DEF ImportNext, Shape, IdleReq, Reqs
    <2>. QED
      BY <2>1, <2>2, <2>3, <1>0, MovedFact
  <1>12. ASSUME ImportSkip(q) PROVE Moved(q)
    <2>1. reqs[q].kind = "import" /\ reqs[q].left # 0 /\ reqs[q].known \in SUBSET Name
      BY <1>12, <1>0 DEF ImportSkip, Shape, IdleReq, Reqs
    <2>. QED
      BY <1>12, <2>1, <1>0, NextToolFact, MovedFact DEF ImportSkip, Move
  <1>13. ASSUME Register(q) PROVE Moved(q)
    <2>. DEFINE pc == IF reqs[q].kind = "approve" THEN "commit" ELSE "insert"
                f == [reqs[q] EXCEPT !.tool = NewTool, !.pc = pc]
    <2>1. reqs' = [reqs EXCEPT ![q] = f]
      BY <1>13 DEF Register, Move
    <2>2. f \in Reqs
      <3>1. pc \in {"commit", "insert"} /\ NewTool \in Maybe(Tool)
        BY <1>13, NewToolFact DEF Register, Maybe
      <3>. HIDE DEF pc
      <3>. QED
        BY <3>1, <1>0 DEF Reqs
    <2>3. Shape(f)
      BY <1>13, <1>0, NoneFacts, NewToolFact DEF Register, Shape, IdleReq, Reqs
    <2>. QED
      BY <2>1, <2>2, <2>3, <1>0, MovedFact
  <1>14. ASSUME RegisterFails(q) PROVE Moved(q)
    <2>1. CASE reqs[q].kind = "import"
      <3>1. reqs[q].left # 0 /\ reqs[q].known \in SUBSET Name
        BY <2>1, <1>14, <1>0 DEF RegisterFails, Shape, IdleReq, Reqs
      <3>. QED
        BY <2>1, <1>14, <3>1, <1>0, NextToolFact, MovedFact DEF RegisterFails, Move
    <2>2. CASE reqs[q].kind # "import"
      BY <2>2, <1>14, <1>0, IdleReqFact, MovedFact DEF RegisterFails, Move
    <2>. QED
      BY <2>1, <2>2
  <1>15. ASSUME Insert(q) PROVE Moved(q)
    <2>1. CASE reqs[q].kind = "import"
      <3>1. /\ reqs[q].known \union {reqs[q].name} \in SUBSET Name
            /\ reqs[q].left # 0
        BY <2>1, <1>15, <1>0 DEF Insert, Shape, IdleReq, Reqs, Maybe
      <3>. QED
        BY <2>1, <3>1, <1>15, <1>0, NextToolFact, MovedFact DEF Insert, Move
    <2>2. CASE reqs[q].kind # "import"
      <3>. DEFINE f == [reqs[q] EXCEPT !.pc = "commit", !.tool = None]
      <3>1. reqs' = [reqs EXCEPT ![q] = f]
        BY <2>2, <1>15 DEF Insert, Move
      <3>3. f \in Reqs
        <4>1. reqs[q].pc = "insert"
          BY <1>15 DEF Insert
        <4>. QED
          BY <4>1, <1>15, <1>0, IdleReqFact, NoneFacts DEF Insert, Reqs, Rows, Maybe
      <3>2. Shape(f)
        BY <2>2, <1>15, <1>0, NoneFacts DEF Insert, Shape, IdleReq, Reqs
      <3>. QED
        BY <3>1, <3>2, <3>3, <1>0, MovedFact
    <2>. QED
      BY <2>1, <2>2
  <1>16. ASSUME InsertConflict(q) PROVE Moved(q)
    BY <1>16, <1>0, IdleReqFact, MovedFact DEF InsertConflict, Fail, End, Move
  <1>17. ASSUME Deadlock(q) PROVE Moved(q)
    BY <1>17, <1>0, IdleReqFact, MovedFact DEF Deadlock, Fail, End, Move
  <1>18. ASSUME CommitInserts(q) PROVE Moved(q)
    BY <1>18, <1>0, IdleReqFact, MovedFact DEF CommitInserts, End, Move
  <1>19. ASSUME CommitApprove(q) PROVE Moved(q)
    BY <1>19, <1>0, IdleReqFact, MovedFact DEF CommitApprove, End, Move
  <1>20. ASSUME ApproveStale(q) PROVE Moved(q)
    BY <1>20, <1>0, IdleReqFact, MovedFact DEF ApproveStale, End, Move
  <1>21. ASSUME CommitRemoval(q) PROVE Moved(q)
    BY <1>21, <1>0, IdleReqFact, MovedFact DEF CommitRemoval, End, Move
  <1>22. ASSUME LettaDelete(q) PROVE Moved(q)
    <2>. DEFINE f == [reqs[q] EXCEPT !.pc = "commit"]
    <2>1. reqs' = [reqs EXCEPT ![q] = f]
      BY <1>22 DEF LettaDelete, Move
    <2>2. f \in Reqs
      <3>1. reqs[q].pc # "idle"
        BY <1>22, <1>0, IdleReqFact DEF LettaDelete, Reqs
      <3>. QED
        BY <3>1, <1>22, <1>0, IdleReqFact, NoneFacts DEF LettaDelete, Reqs, Rows, Maybe
    <2>3. Shape(f)
      BY <1>22, <1>0, NoneFacts DEF LettaDelete, Shape, IdleReq, Reqs
    <2>. QED
      BY <2>1, <2>2, <2>3, <1>0, MovedFact
  <1>23. ASSUME LettaUpdate(q) PROVE Moved(q)
    <2>. DEFINE f == [reqs[q] EXCEPT !.pc = "commit"]
    <2>1. reqs' = [reqs EXCEPT ![q] = f]
      BY <1>23 DEF LettaUpdate, Move
    <2>2. f \in Reqs
      <3>1. reqs[q].pc # "idle"
        BY <1>23, <1>0, IdleReqFact DEF LettaUpdate, Reqs
      <3>. QED
        BY <3>1, <1>23, <1>0, IdleReqFact, NoneFacts DEF LettaUpdate, Reqs, Rows, Maybe
    <2>3. Shape(f)
      BY <1>23, <1>0, NoneFacts DEF LettaUpdate, Shape, IdleReq, Reqs
    <2>. QED
      BY <2>1, <2>2, <2>3, <1>0, MovedFact
  <1>24. ASSUME LettaUpdateFails(q) PROVE Moved(q)
    BY <1>24, <1>0, IdleReqFact, MovedFact DEF LettaUpdateFails, End, Move
  <1>25. ASSUME CommitUpdate(q) PROVE Moved(q)
    BY <1>25, <1>0, IdleReqFact, MovedFact DEF CommitUpdate, End, Move
  <1>26. ASSUME UpdateConflict(q) PROVE Moved(q)
    BY <1>26, <1>0, IdleReqFact, MovedFact DEF UpdateConflict, End, Move
  <1>27. ASSUME Dies(q) PROVE Moved(q)
    BY <1>27, <1>0, IdleReqFact, MovedFact DEF Dies, Fail, End, Move
  <1>. QED
    BY <1>1, <1>2, <1>3, <1>4, <1>5, <1>6, <1>7, <1>8, <1>9, <1>10, <1>11, <1>12, <1>13, <1>14, <1>15, <1>16, <1>17, <1>18, <1>19, <1>20, <1>21, <1>22, <1>23, <1>24, <1>25, <1>26, <1>27
     DEF Arrive, Step

-----------------------------------------------------------------------------
\* The types of the other variables.
Types == rows \in [Row -> Rows] /\ letta \in [Tool -> Tools] /\ torn \subseteq Row
         /\ excused \subseteq Tool /\ arrivals \in Nat

LEMMA RollbackFact ==
    ASSUME rows \in [Row -> Rows], RowShape, NEW q \in Req, Rollback(q)
    PROVE  rows' \in [Row -> Rows] /\ RowShape'
  <1>1. NoRow \in Rows /\ NoRow.st = "none"
    BY DEF NoRow, Rows, Maybe
  <1>2. rows' \in [Row -> Rows]
    BY <1>1 DEF Rollback
  <1>3. \A r \in Row : rows'[r] \in {rows[r], NoRow}
    BY DEF Rollback
  <1>. QED
    BY <1>1, <1>2, <1>3 DEF RowShape

LEMMA HoldsFact ==
    ASSUME NEW q \in Req
    PROVE  Holds(q) \subseteq Tool
  BY DEF Holds

LEMMA MadeFact ==
    ASSUME NEW q \in Req, reqs[q] \in Reqs
    PROVE  Made(reqs[q].name, reqs[q].code) \in Tools /\ NoTool \in Tools
  BY DEF Made, NoTool, Tools, Reqs, Maybe

LEMMA StoreFact ==
    ASSUME NEW q \in Req, reqs[q] \in Reqs, reqs[q].row \in Row, rows[reqs[q].row] \in Rows
    PROVE  /\ Store(q) \in Rows
           /\ Store(q).st = rows[reqs[q].row].st
           /\ Store(q).tool = rows[reqs[q].row].tool
           /\ Store(q).by = rows[reqs[q].row].by
           /\ "name" \notin reqs[q].sets => Store(q).name = rows[reqs[q].row].name
           /\ Store(q).code = IF "code" \in reqs[q].sets THEN reqs[q].code
                              ELSE rows[reqs[q].row].code
  <1>. DEFINE n == IF Renames(q) THEN reqs[q].name ELSE rows[reqs[q].row].name
              c == IF "code" \in reqs[q].sets THEN reqs[q].code ELSE rows[reqs[q].row].code
  <1>1. n \in Maybe(Name) /\ c \in Maybe(Code)
    BY DEF Rows, Reqs
  <1>2. Store(q) = [rows[reqs[q].row] EXCEPT !.name = n, !.code = c]
    BY DEF Store
  <1>3. "name" \notin reqs[q].sets => n = rows[reqs[q].row].name
    BY DEF Renames
  <1>. HIDE DEF n
  <1>. QED
    BY <1>1, <1>2, <1>3 DEF Rows

\* Every step keeps the tables well formed.
LEMMA TableStep ==
    ASSUME Base, NEW q \in Req, Arrive(q) \/ Step(q) \/ Dies(q)
    PROVE  Types' /\ RowShape'
  <1>0. /\ rows \in [Row -> Rows] /\ letta \in [Tool -> Tools] /\ torn \subseteq Row
        /\ excused \subseteq Tool /\ arrivals \in Nat /\ RowShape
        /\ reqs[q] \in Reqs /\ Shape(reqs[q])
    BY DEF Base, TypeOK, RequestShape
  <1>1. ASSUME NEW n \in Name, NEW c \in Code, BeginCreate(q, n, c) PROVE (Types' /\ RowShape')
    BY <1>1, <1>0 DEF BeginCreate, Begin, Types, RowShape
  <1>2. ASSUME NEW n \in Name, NEW c \in Code, BeginPropose(q, n, c) PROVE (Types' /\ RowShape')
    BY <1>2, <1>0 DEF BeginPropose, Begin, Types, RowShape
  <1>3. ASSUME BeginImport(q) PROVE (Types' /\ RowShape')
    BY <1>3, <1>0 DEF BeginImport, Begin, Types, RowShape
  <1>4. ASSUME NEW r \in Row, BeginApprove(q, r) PROVE (Types' /\ RowShape')
    BY <1>4, <1>0 DEF BeginApprove, BeginOn, Begin, Types, RowShape
  <1>5. ASSUME NEW r \in Row, BeginReject(q, r) PROVE (Types' /\ RowShape')
    BY <1>5, <1>0 DEF BeginReject, BeginOn, Begin, Types, RowShape
  <1>6. ASSUME NEW r \in Row, BeginDelete(q, r) PROVE (Types' /\ RowShape')
    BY <1>6, <1>0 DEF BeginDelete, BeginOn, Begin, Types, RowShape
  <1>7. ASSUME NEW r \in Row, NEW n \in Name, NEW c \in Maybe(Code), BeginUpdate(q, r, n, c) PROVE (Types' /\ RowShape')
    BY <1>7, <1>0 DEF BeginUpdate, BeginOn, Begin, Types, RowShape
  <1>8. ASSUME DryRun(q) PROVE (Types' /\ RowShape')
    BY <1>8, <1>0, NewToolFact, MadeFact DEF DryRun, Types, RowShape
  <1>9. ASSUME DryRunFails(q) PROVE (Types' /\ RowShape')
    BY <1>9, <1>0 DEF DryRunFails, Types, RowShape
  <1>10. ASSUME DryDelete(q) PROVE (Types' /\ RowShape')
    <2>1. reqs[q].tool \in Tool
      BY <1>10, <1>0 DEF DryDelete, Shape, IdleReq, Reqs, Maybe
    <2>. QED
      BY <1>10, <1>0, <2>1, MadeFact DEF DryDelete, DropsDryTool, Types, RowShape
  <1>11. ASSUME NEW n \in Name, NEW c \in Code, ImportNext(q, n, c) PROVE (Types' /\ RowShape')
    BY <1>11, <1>0 DEF ImportNext, Types, RowShape
  <1>12. ASSUME ImportSkip(q) PROVE (Types' /\ RowShape')
    BY <1>12, <1>0 DEF ImportSkip, Types, RowShape
  <1>13. ASSUME Register(q) PROVE (Types' /\ RowShape')
    BY <1>13, <1>0, NewToolFact, MadeFact DEF Register, Types, RowShape
  <1>14. ASSUME RegisterFails(q) PROVE (Types' /\ RowShape')
    BY <1>14, <1>0, NewToolFact, MadeFact DEF RegisterFails, Types, RowShape
  <1>15. ASSUME Insert(q) PROVE (Types' /\ RowShape')
    <2>. DEFINE new == [Stored(InsertStatus(q), reqs[q].name, reqs[q].code, reqs[q].tool)
                           EXCEPT !.by = q]
    <2>1. NewRow \in Row
      BY <1>15, NewRowFact DEF Insert
    <2>2. rows' = [rows EXCEPT ![NewRow] = new] /\ torn' \subseteq torn
          /\ UNCHANGED <<letta, excused, arrivals>>
      BY <1>15 DEF Insert
    <2>3. InsertStatus(q) \in {"pending", "active"}
      BY DEF InsertStatus
    <2>4. new \in Rows
      BY <2>3, <1>0 DEF Stored, Rows, Reqs, Maybe
    <2>5. /\ new.st = "pending" => new.tool = None
          /\ new.st = "active" => new.tool # None
          /\ new.st # "none"
      BY <1>15, <1>0 DEF Insert, InsertStatus, Stored, Shape, IdleReq
    <2>6. rows' \in [Row -> Rows] /\ RowShape'
      <3>. HIDE DEF new
      <3>. QED
        BY <1>0, <2>1, <2>2, <2>4, <2>5 DEF RowShape
    <2>. QED
      BY <1>0, <2>2, <2>6 DEF Types
  <1>16. ASSUME InsertConflict(q) PROVE (Types' /\ RowShape')
    BY <1>16, <1>0, RollbackFact, HoldsFact DEF InsertConflict, Fail, Types
  <1>17. ASSUME Deadlock(q) PROVE (Types' /\ RowShape')
    BY <1>17, <1>0, RollbackFact, HoldsFact DEF Deadlock, Fail, Types
  <1>18. ASSUME CommitInserts(q) PROVE (Types' /\ RowShape')
    <2>. DEFINE done(r) == [rows[r] EXCEPT !.by = None]
    <2>1. /\ rows' = [r \in Row |-> IF rows[r].by = q THEN done(r) ELSE rows[r]]
          /\ UNCHANGED <<letta, torn, excused, arrivals>>
      BY <1>18 DEF CommitInserts
    <2>2. \A r \in Row : /\ done(r) \in Rows /\ done(r).st = rows[r].st
                         /\ done(r).tool = rows[r].tool
      BY <1>0 DEF Rows, Maybe
    <2>3. \A r \in Row : rows[r].st = "none" => rows[r].by # q
      BY <1>0, NoneFacts DEF RowShape, NoRow
    <2>. HIDE DEF done
    <2>4. rows' \in [Row -> Rows] /\ RowShape'
      BY <1>0, <2>1, <2>2, <2>3 DEF RowShape
    <2>. QED
      BY <1>0, <2>1, <2>4 DEF Types
  <1>19. ASSUME CommitApprove(q) PROVE (Types' /\ RowShape')
    <2>. DEFINE r == reqs[q].row
                new == [rows[r] EXCEPT !.st = "active", !.tool = reqs[q].tool]
    <2>1. /\ r \in Row /\ reqs[q].tool \in Tool /\ reqs[q].tool # None
      BY <1>19, <1>0, NoneFacts DEF CommitApprove, Shape, IdleReq, Reqs, Maybe
    <2>2. \A t : t \in Maybe(Tool) => Lost(reqs[q].row, t) \subseteq Tool
      BY DEF Lost, Maybe
    <2>3. /\ rows' = [rows EXCEPT ![r] = new]
          /\ excused' = excused \union Lost(r, rows[r].tool)
          /\ UNCHANGED <<letta, torn, arrivals>>
      BY <1>19, <1>0, <2>1 DEF CommitApprove, Activate
    <2>4. new \in Rows /\ new.st = "active" /\ new.tool # None /\ rows[r].tool \in Maybe(Tool)
      BY <2>1, <1>0 DEF Rows, Maybe
    <2>5. rows' \in [Row -> Rows] /\ RowShape'
      <3>. HIDE DEF new, r
      <3>. QED
        BY <1>0, <2>1, <2>3, <2>4 DEF RowShape
    <2>. QED
      BY <1>0, <2>2, <2>3, <2>4, <2>5 DEF Types
  <1>20. ASSUME ApproveStale(q) PROVE (Types' /\ RowShape')
    <2>1. reqs[q].tool \in Maybe(Tool)
      BY <1>0 DEF Reqs
    <2>2. \A t : t \in Maybe(Tool) => Lost(reqs[q].row, t) \subseteq Tool
      BY DEF Lost, Maybe
    <2>. QED
      BY <1>20, <1>0, <2>1, <2>2 DEF ApproveStale, Types, RowShape
  <1>21. ASSUME CommitRemoval(q) PROVE (Types' /\ RowShape')
    <2>. DEFINE r == reqs[q].row
    <2>1. r \in Row
      BY <1>21, <1>0 DEF CommitRemoval, Shape, IdleReq, Reqs, Maybe
    <2>2. \A t : t \in Maybe(Tool) => Lost(reqs[q].row, t) \subseteq Tool
      BY DEF Lost, Maybe
    <2>3. CASE Gone(q)
      BY <1>21, <1>0, <2>3 DEF CommitRemoval, Types, RowShape
    <2>4. CASE ~Gone(q)
      <3>1. /\ rows' = [rows EXCEPT ![r] = NoRow]
            /\ excused' = excused \union Lost(r, rows[r].tool)
            /\ UNCHANGED <<letta, torn, arrivals>>
        BY <1>21, <2>4 DEF CommitRemoval
      <3>2. NoRow \in Rows /\ NoRow.st = "none" /\ rows[r].tool \in Maybe(Tool)
        BY <1>0, <2>1 DEF NoRow, Rows, Maybe
      <3>3. rows' \in [Row -> Rows] /\ RowShape'
        BY <1>0, <2>1, <3>1, <3>2 DEF RowShape
      <3>. QED
        BY <1>0, <2>2, <3>1, <3>2, <3>3 DEF Types
    <2>. QED
      BY <2>3, <2>4
  <1>22. ASSUME LettaDelete(q) PROVE (Types' /\ RowShape')
    <2>1. reqs[q].tool \in Maybe(Tool)
      BY <1>0 DEF Reqs
    <2>. QED
      BY <1>22, <1>0, <2>1, MadeFact DEF LettaDelete, DropTool, Types, RowShape, Maybe
  <1>23. ASSUME LettaUpdate(q) PROVE (Types' /\ RowShape')
    BY <1>23, <1>0, MadeFact DEF LettaUpdate, Types, RowShape
  <1>24. ASSUME LettaUpdateFails(q) PROVE (Types' /\ RowShape')
    <2>1. reqs[q].row \in Row
      BY <1>24, <1>0 DEF LettaUpdateFails, Shape, IdleReq, Reqs, Maybe
    <2>. QED
      BY <1>24, <1>0, <2>1, MadeFact DEF LettaUpdateFails, Types, RowShape
  <1>25. ASSUME CommitUpdate(q) PROVE (Types' /\ RowShape')
    <2>1. CASE reqs[q].sets = {}
      BY <1>25, <1>0, <2>1 DEF CommitUpdate, Types, RowShape
    <2>2. CASE reqs[q].sets # {}
      <3>1. reqs[q].row \in Row /\ rows[reqs[q].row].st # "none"
        BY <1>25, <1>0, <2>2, NoneFacts
        DEF CommitUpdate, UpdateFails, Gone, Committed, Shape, IdleReq, Reqs, Maybe
      <3>2. /\ rows' = [rows EXCEPT ![reqs[q].row] = Store(q)]
            /\ UNCHANGED <<letta, torn, excused, arrivals>>
        BY <1>25, <2>2 DEF CommitUpdate
      <3>3. /\ Store(q) \in Rows /\ Store(q).st = rows[reqs[q].row].st
            /\ Store(q).tool = rows[reqs[q].row].tool
        BY <1>0, <3>1, StoreFact
      <3>4. rows' \in [Row -> Rows] /\ RowShape'
        BY <1>0, <3>1, <3>2, <3>3 DEF RowShape
      <3>. QED
        BY <1>0, <3>2, <3>4 DEF Types
    <2>. QED
      BY <2>1, <2>2
  <1>26. ASSUME UpdateConflict(q) PROVE (Types' /\ RowShape')
    <2>1. Touched(q) \subseteq Row
      BY <1>0 DEF Touched, Shape, IdleReq, Reqs, Maybe
    <2>. QED
      BY <1>26, <1>0, <2>1 DEF UpdateConflict, Types, RowShape
  <1>27. ASSUME Dies(q) PROVE (Types' /\ RowShape')
    <2>1. Touched(q) \subseteq Row
      BY <1>0 DEF Touched, Shape, IdleReq, Reqs, Maybe
    <2>. QED
      BY <1>27, <1>0, <2>1, RollbackFact, HoldsFact DEF Dies, Fail, Types
  <1>. QED
    BY <1>1, <1>2, <1>3, <1>4, <1>5, <1>6, <1>7, <1>8, <1>9, <1>10, <1>11, <1>12, <1>13, <1>14, <1>15, <1>16, <1>17, <1>18, <1>19, <1>20, <1>21, <1>22, <1>23, <1>24, <1>25, <1>26, <1>27
     DEF Arrive, Step

-----------------------------------------------------------------------------
(***************************************************************************)
(* The inductive invariant.                                                *)
(***************************************************************************)
\* The tool of a row that a request will change, or delete, in Letta.
Using(q) == reqs[q].kind \in {"update", "delete"} /\ reqs[q].tool # None

Owning(q) == Holding(q) /\ reqs[q].tool # None

\* No tool has two owners: rows, and requests that have registered it.
OneOwner ==
    /\ \A r, s \in Row : rows[r].tool = rows[s].tool /\ rows[r].tool # None => r = s
    /\ \A p, q \in Req : Owning(p) /\ Owning(q) /\ reqs[p].tool = reqs[q].tool => p = q
    /\ \A q \in Req, r \in Row : Owning(q) => rows[r].tool # reqs[q].tool

\* A request that uses its row's tool uses nobody else's, and the row, if it
\* is still there, is active.
OwnTool ==
    \A q \in Req : Using(q) =>
        /\ \A p \in Req : Owning(p) => reqs[p].tool # reqs[q].tool
        /\ \A r \in Row : rows[r].tool = reqs[q].tool => r = reqs[q].row
        /\ \A r \in Row : r = reqs[q].row => rows[r].st # "pending"

\* What a request has registered is in Letta as it meant it.
Held == \A q \in Req : Owning(q) =>
            letta[reqs[q].tool] = Made(reqs[q].name, reqs[q].code)

\* An approval has read the code that is still the row's while it is pending.
Reviewed == \A q \in Req, r \in Row :
    reqs[q].kind = "approve" /\ reqs[q].row = r /\ rows[r].st = "pending"
        => rows[r].code = reqs[q].code

\* Unless its row is torn, a request is alone on it, and what it read is true.
Alone == \A p, q \in Req, r \in Row :
    r \notin torn /\ reqs[p].row = r /\ reqs[q].row = r => p = q
Fresh == \A q \in Req, r \in Row : r \notin torn /\ reqs[q].row = r =>
    /\ Committed(r)
    /\ reqs[q].kind \in {"approve", "reject"} => rows[r].st = "pending"
    /\ reqs[q].kind = "delete" \/ Using(q) => rows[r].tool = reqs[q].tool
    /\ reqs[q].kind = "update" /\ "code" \notin reqs[q].sets => rows[r].code = reqs[q].code

\* Letta has what the row has, or what the request at its commit will store.
InFlux(q, r) == Using(q) /\ reqs[q].pc = "commit" /\ reqs[q].row = r
Has(x, c) == x.live /\ x.code = c
Synced ==
    /\ \A q \in Req, r \in Row : reqs[q].kind = "update" /\ InFlux(q, r) /\ r \notin torn
                                 => Has(letta[reqs[q].tool], reqs[q].code)
    /\ \A r \in Row : rows[r].st = "active" /\ r \notin torn /\ (\A q \in Req : ~InFlux(q, r))
                      => Has(letta[rows[r].tool], rows[r].code)

\* A deletion has deleted the tool, or given it up.
Dropped == \A q \in Req :
    reqs[q].kind = "delete" /\ reqs[q].pc = "commit" /\ reqs[q].tool # None
        => ~letta[reqs[q].tool].live \/ reqs[q].tool \in excused

Accounted == \A t \in Tool : letta[t].live /\ t \notin excused =>
    \/ \E r \in Row : rows[r].tool = t
    \/ \E q \in Req : Owning(q) /\ reqs[q].tool = t

Inv == /\ Base /\ LocksAreHeld /\ OneOwner /\ OwnTool /\ Held /\ Reviewed
       /\ Alone /\ Fresh /\ Synced /\ Dropped /\ Accounted

-----------------------------------------------------------------------------
(***************************************************************************)
(* What steps do, several actions at a time.                               *)
(***************************************************************************)
\* Request f hides a row of name n.
Locks(f, n) == \/ f.kind \in {"create", "propose"} /\ f.pc = "commit"
               \/ f.kind = "import" /\ n \in f.known
LocksKept(q) == \A n : Locks(reqs[q], n) => Locks(reqs'[q], n)

\* A request has read its row.
Arrives(q) ==
    /\ UNCHANGED <<rows, letta, excused>>
    /\ reqs[q] = IdleReq
    /\ reqs'[q].kind \in Registers \/ reqs'[q].pc = "commit" => reqs'[q].tool = None
    /\ reqs'[q].row = None => torn' = torn /\ ~Using(q)'
    /\ reqs'[q].row # None =>
         LET r == reqs'[q].row IN
         /\ Committed(r)
         /\ torn' = IF Busy(r) THEN torn \union {r} ELSE torn
         /\ reqs'[q].kind \in {"approve", "reject"} => rows[r].st = "pending"
         /\ reqs'[q].kind = "approve" => rows[r].code = reqs'[q].code
         /\ reqs'[q].kind = "delete" \/ Using(q)' => rows[r].tool = reqs'[q].tool
         /\ reqs'[q].kind = "update" /\ "code" \notin reqs'[q].sets
               => rows[r].code = reqs'[q].code

\* A request goes on, or ends, without a row and without a tool.
Goes(q) ==
    /\ reqs[q].tool = None /\ reqs'[q].tool = None /\ reqs'[q].row = None
    /\ LocksKept(q)
    /\ UNCHANGED <<rows, torn>>
Quiet(q) == Goes(q) /\ UNCHANGED <<letta, excused>>

MakesTool(q) ==
    /\ UnusedTools # {}
    /\ letta' = [letta EXCEPT ![NewTool] = Made(reqs[q].name, reqs[q].code)]
Loses(q) == Goes(q) /\ MakesTool(q) /\ excused' = excused \union {NewTool}
Creates(q) ==
    /\ MakesTool(q) /\ excused' = excused \ {NewTool}
    /\ reqs[q].tool = None /\ reqs[q].kind \in Registers
    /\ reqs'[q].tool = NewTool
    /\ \A x \in {"kind", "row", "name", "code", "sets"} : reqs'[q][x] = reqs[q][x]
    /\ LocksKept(q)
    /\ UNCHANGED <<rows, torn>>

Fails(q) == Fail(q) /\ letta' = letta /\ torn' = torn \union Touched(q)

\* Every step has one of these effects, or is one of the commits, or of the
\* calls to Letta that concern the tool of a row.
Effect(q) ==
    \/ Arrives(q) \/ Quiet(q) \/ Loses(q) \/ Creates(q) \/ Fails(q)
    \/ DryDelete(q) \/ Insert(q) \/ CommitInserts(q)
    \/ CommitApprove(q) \/ ApproveStale(q) \/ CommitRemoval(q)
    \/ LettaDelete(q) \/ LettaUpdate(q) \/ LettaUpdateFails(q)
    \/ CommitUpdate(q) \/ UpdateConflict(q)

LEMMA EffectFact ==
    ASSUME Base, NEW q \in Req, Arrive(q) \/ Step(q) \/ Dies(q)
    PROVE  Effect(q)
  <1>0. /\ reqs \in [Req -> Reqs] /\ reqs[q] \in Reqs /\ Shape(reqs[q])
        /\ \A r \in Row : rows[r] \in Rows
        /\ RowShape
    BY DEF Base, TypeOK, RequestShape
  <1>i. reqs[q].pc = "idle" => reqs[q] = IdleReq
    BY <1>0 DEF Shape
  <1>1. ASSUME NEW n \in Name, NEW c \in Code, BeginCreate(q, n, c) PROVE Effect(q)
    <2>. DEFINE f == [IdleReq EXCEPT !.kind = "create", !.pc = "register", !.name = n, !.code = c]
    <2>1. /\ reqs[q].pc = "idle" /\ reqs' = [reqs EXCEPT ![q] = f] /\ UNCHANGED <<rows, letta, excused>>
          /\ torn' = torn
      BY <1>1 DEF BeginCreate, Begin, Move
    <2>2. reqs'[q] = f
      BY <2>1, <1>0
    <2>. QED
      BY <2>1, <2>2, <1>0, <1>i, NoneFacts DEF Effect, Arrives, Using, Registers, IdleReq
  <1>2. ASSUME NEW n \in Name, NEW c \in Code, BeginPropose(q, n, c) PROVE Effect(q)
    <2>1. PICK p \in {"dry", "insert"} :
             Begin(q, [IdleReq EXCEPT !.kind = "propose", !.pc = p, !.name = n, !.code = c])
      BY <1>2 DEF BeginPropose
    <2>. DEFINE f == [IdleReq EXCEPT !.kind = "propose", !.pc = p, !.name = n, !.code = c]
    <2>2. /\ reqs[q].pc = "idle" /\ reqs' = [reqs EXCEPT ![q] = f]
          /\ UNCHANGED <<rows, letta, excused, torn>>
      BY <2>1, <1>2 DEF BeginPropose, Begin, Move
    <2>3. reqs'[q] = f
      BY <2>2, <1>0
    <2>. QED
      BY <2>2, <2>3, <1>i, NoneFacts DEF Effect, Arrives, Using, Registers, IdleReq
  <1>3. ASSUME BeginImport(q) PROVE Effect(q)
    <2>. DEFINE f == [IdleReq EXCEPT !.kind = "import", !.pc = "next", !.left = MaxImport,
                                     !.known = {m \in Name : Taken(m)}]
    <2>1. /\ reqs[q].pc = "idle" /\ reqs' = [reqs EXCEPT ![q] = f] /\ UNCHANGED <<rows, letta, excused>>
          /\ torn' = torn
      BY <1>3 DEF BeginImport, Begin, Move
    <2>2. reqs'[q] = f
      BY <2>1, <1>0
    <2>. QED
      BY <2>1, <2>2, <1>0, <1>i, NoneFacts DEF Effect, Arrives, Using, Registers, IdleReq
  <1>4. ASSUME NEW r \in Row, BeginApprove(q, r) PROVE Effect(q)
    <2>. DEFINE f == [IdleReq EXCEPT !.kind = "approve", !.pc = "register", !.name = rows[r].name,
                                     !.code = rows[r].code, !.row = r]
    <2>1. /\ reqs[q].pc = "idle" /\ reqs' = [reqs EXCEPT ![q] = f]
          /\ UNCHANGED <<rows, letta, excused>>
          /\ Committed(r) /\ torn' = IF Busy(r) THEN torn \union {r} ELSE torn
          /\ rows[r].st = "pending"
      BY <1>4 DEF BeginApprove, BeginOn, Begin, Move
    <2>2. reqs'[q] = f
      BY <2>1, <1>0
    <2>3. rows[r].st = "pending" => rows[r].tool = None
      BY <1>0 DEF RowShape
    <2>. QED
      BY <2>1, <2>2, <2>3, <1>0, <1>i, NoneFacts DEF Effect, Arrives, Using, Registers, IdleReq
  <1>5. ASSUME NEW r \in Row, BeginReject(q, r) PROVE Effect(q)
    <2>. DEFINE f == [IdleReq EXCEPT !.kind = "reject", !.pc = "commit", !.row = r]
    <2>1. /\ reqs[q].pc = "idle" /\ reqs' = [reqs EXCEPT ![q] = f]
          /\ UNCHANGED <<rows, letta, excused>>
          /\ Committed(r) /\ torn' = IF Busy(r) THEN torn \union {r} ELSE torn
          /\ rows[r].st = "pending"
      BY <1>5 DEF BeginReject, BeginOn, Begin, Move
    <2>2. reqs'[q] = f
      BY <2>1, <1>0
    <2>3. rows[r].st = "pending" => rows[r].tool = None
      BY <1>0 DEF RowShape
    <2>. QED
      BY <2>1, <2>2, <2>3, <1>0, <1>i, NoneFacts DEF Effect, Arrives, Using, Registers, IdleReq
  <1>6. ASSUME NEW r \in Row, BeginDelete(q, r) PROVE Effect(q)
    <2>. DEFINE f == [IdleReq EXCEPT !.kind = "delete", !.pc = "letta", !.tool = rows[r].tool, !.row = r]
    <2>1. /\ reqs[q].pc = "idle" /\ reqs' = [reqs EXCEPT ![q] = f]
          /\ UNCHANGED <<rows, letta, excused>>
          /\ Committed(r) /\ torn' = IF Busy(r) THEN torn \union {r} ELSE torn
      BY <1>6 DEF BeginDelete, BeginOn, Begin, Move
    <2>2. reqs'[q] = f
      BY <2>1, <1>0
    <2>3. rows[r].st = "pending" => rows[r].tool = None
      BY <1>0 DEF RowShape
    <2>. QED
      BY <2>1, <2>2, <2>3, <1>0, <1>i, NoneFacts DEF Effect, Arrives, Using, Registers, IdleReq
  <1>7. ASSUME NEW r \in Row, NEW n \in Name, NEW c \in Maybe(Code), BeginUpdate(q, r, n, c) PROVE Effect(q)
    <2>. DEFINE f == [UpdateRequest(r, n, c) EXCEPT !.row = r]
    <2>1. /\ reqs[q].pc = "idle" /\ reqs' = [reqs EXCEPT ![q] = f]
          /\ UNCHANGED <<rows, letta, excused>>
          /\ Committed(r) /\ torn' = IF Busy(r) THEN torn \union {r} ELSE torn
      BY <1>7 DEF BeginUpdate, BeginOn, Begin, Move
    <2>2. reqs'[q] = f
      BY <2>1, <1>0
    <2>3. rows[r].st = "pending" => rows[r].tool = None
      BY <1>0 DEF RowShape
    <2>. QED
      BY <2>1, <2>2, <2>3, <1>0, <1>i, NoneFacts DEF Effect, Arrives, Using, Registers, IdleReq, UpdateRequest, CallsLetta
  <1>8. ASSUME DryRun(q) PROVE Effect(q)
    <2>1. CASE Move(q, [reqs[q] EXCEPT !.pc = "undry", !.tool = NewTool])
               /\ excused' = excused \ {NewTool}
      BY <2>1, <1>8, <1>0
      DEF DryRun, Move, Effect, Creates, MakesTool, LocksKept, Locks, Shape, IdleReq, Registers, Reqs
    <2>2. CASE Move(q, [reqs[q] EXCEPT !.pc = "insert"])
               /\ excused' = excused \union {NewTool}
      BY <2>2, <1>8, <1>0
      DEF DryRun, Move, Effect, Loses, Goes, MakesTool, LocksKept, Locks, Shape, IdleReq
    <2>. QED
      BY <2>1, <2>2, <1>8 DEF DryRun
  <1>9. ASSUME DryRunFails(q) PROVE Effect(q)
    BY <1>9, <1>0 DEF DryRunFails, Move, Effect, Quiet, Goes, LocksKept, Locks, Shape, IdleReq
  <1>10. ASSUME DryDelete(q) PROVE Effect(q)
    BY <1>10 DEF Effect
  <1>11. ASSUME NEW n \in Name, NEW c \in Code, ImportNext(q, n, c) PROVE Effect(q)
    BY <1>11, <1>0 DEF ImportNext, Move, Effect, Quiet, Goes, LocksKept, Locks, Shape, IdleReq
  <1>12. ASSUME ImportSkip(q) PROVE Effect(q)
    BY <1>12, <1>0 DEF ImportSkip, Move, Effect, Quiet, Goes, LocksKept, Locks, Shape, IdleReq, NextTool
  <1>13. ASSUME Register(q) PROVE Effect(q)
    <2>. DEFINE pc == IF reqs[q].kind = "approve" THEN "commit" ELSE "insert"
                f == [reqs[q] EXCEPT !.tool = NewTool, !.pc = pc]
    <2>1. reqs'[q] = f
      BY <1>13, <1>0 DEF Register, Move
    <2>2. /\ f.tool = NewTool /\ f.known = reqs[q].known
          /\ \A x \in {"kind", "row", "name", "code", "sets"} : f[x] = reqs[q][x]
      BY <1>0 DEF Reqs
    <2>3. reqs[q].tool = None /\ reqs[q].kind \in Registers /\ LocksKept(q)
      BY <1>13, <1>0, <2>1, <2>2 DEF Register, Shape, IdleReq, Registers, LocksKept, Locks
    <2>. QED
      BY <2>1, <2>2, <2>3, <1>13 DEF Register, Effect, Creates, MakesTool
  <1>14. ASSUME RegisterFails(q) PROVE Effect(q)
    <2>1. Goes(q)
      BY <1>14, <1>0 DEF RegisterFails, Move, Goes, LocksKept, Locks, Shape, IdleReq, NextTool
    <2>2. \/ UNCHANGED <<letta, excused>>
          \/ MakesTool(q) /\ excused' = excused \union {NewTool}
      BY <1>14 DEF RegisterFails, MakesTool
    <2>. QED
      BY <2>1, <2>2 DEF Effect, Quiet, Loses
  <1>15. ASSUME Insert(q) PROVE Effect(q)
    BY <1>15 DEF Effect
  <1>16. ASSUME InsertConflict(q) PROVE Effect(q)
    <2>1. Touched(q) = {}
      BY <1>16 DEF InsertConflict, Touched
    <2>. QED
      BY <1>16, <2>1 DEF InsertConflict, Effect, Fails
  <1>17. ASSUME Deadlock(q) PROVE Effect(q)
    <2>1. Touched(q) = {}
      BY <1>17 DEF Deadlock, WaitsFor, Touched
    <2>. QED
      BY <1>17, <2>1 DEF Deadlock, Effect, Fails
  <1>18. ASSUME CommitInserts(q) PROVE Effect(q)
    BY <1>18 DEF Effect
  <1>19. ASSUME CommitApprove(q) PROVE Effect(q)
    BY <1>19 DEF Effect
  <1>20. ASSUME ApproveStale(q) PROVE Effect(q)
    BY <1>20 DEF Effect
  <1>21. ASSUME CommitRemoval(q) PROVE Effect(q)
    BY <1>21 DEF Effect
  <1>22. ASSUME LettaDelete(q) PROVE Effect(q)
    BY <1>22 DEF Effect
  <1>23. ASSUME LettaUpdate(q) PROVE Effect(q)
    BY <1>23 DEF Effect
  <1>24. ASSUME LettaUpdateFails(q) PROVE Effect(q)
    BY <1>24 DEF Effect
  <1>25. ASSUME CommitUpdate(q) PROVE Effect(q)
    BY <1>25 DEF Effect
  <1>26. ASSUME UpdateConflict(q) PROVE Effect(q)
    BY <1>26 DEF Effect
  <1>27. ASSUME Dies(q) PROVE Effect(q)
    BY <1>27 DEF Dies, Effect, Fails
  <1>. QED
    BY <1>1, <1>2, <1>3, <1>4, <1>5, <1>6, <1>7, <1>8, <1>9, <1>10, <1>11, <1>12, <1>13, <1>14, <1>15, <1>16, <1>17, <1>18, <1>19, <1>20, <1>21, <1>22, <1>23, <1>24, <1>25, <1>26, <1>27
     DEF Arrive, Step

-----------------------------------------------------------------------------
(***************************************************************************)
(* A step of request q, and what is known of the state it starts from.     *)
(***************************************************************************)
Stepped(q) == /\ Inv /\ Effect(q) /\ Types' /\ RowShape' /\ Moved(q)

LEMMA SteppedFact ==
    ASSUME NEW q \in Req, Stepped(q)
    PROVE  /\ rows \in [Row -> Rows] /\ letta \in [Tool -> Tools] /\ reqs \in [Req -> Reqs]
           /\ rows' \in [Row -> Rows] /\ letta' \in [Tool -> Tools] /\ reqs' \in [Req -> Reqs]
           /\ torn \subseteq Row /\ excused \subseteq Tool
           /\ reqs[q] \in Reqs /\ Shape(reqs[q]) /\ reqs'[q] \in Reqs /\ Shape(reqs'[q])
           /\ \A p \in Req : p # q => reqs'[p] = reqs[p]
           /\ \A p \in Req : Shape(reqs[p])
           /\ RowShape /\ RowShape'
           /\ Effect(q)
  BY DEF Stepped, Inv, Base, TypeOK, RequestShape, Moved, Types

\* A row stays hidden by a request that will show or remove it.
LEMMA LocksStep == ASSUME NEW q \in Req, Stepped(q) PROVE LocksAreHeld'
  <1>0. \A r \in Row : rows[r].by # None =>
            rows[r].by \in Req /\ rows[r].st # "none" /\ Locks(reqs[rows[r].by], rows[r].name)
    BY SteppedFact DEF Stepped, Inv, LocksAreHeld, Locks, Rows, Maybe
  <1>g. SUFFICES \A r \in Row : rows'[r].by # None =>
            rows'[r].st # "none" /\ Locks(reqs'[rows'[r].by], rows'[r].name)
    BY DEF LocksAreHeld, Locks
  <1>h. ASSUME rows' = rows, LocksKept(q) PROVE
            \A r \in Row : rows'[r].by # None =>
                rows'[r].st # "none" /\ Locks(reqs'[rows'[r].by], rows'[r].name)
    BY <1>0, <1>h, SteppedFact DEF LocksKept
  <1>i. ASSUME ~\E n : Locks(reqs[q], n) PROVE LocksKept(q) /\ \A r \in Row : rows[r].by # q
    BY <1>0, <1>i, NoneFacts DEF LocksKept
  <1>s. Effect(q)
    BY SteppedFact
  <1>1. CASE Arrives(q)
    <2>1. ~\E n : Locks(reqs[q], n)
      BY <1>1, SteppedFact DEF Arrives, Locks, IdleReq
    <2>. QED
      BY <1>1, <2>1, <1>h, <1>i DEF Arrives
  <1>2. CASE Quiet(q)
    BY <1>2, <1>h DEF Quiet, Goes
  <1>3. CASE Loses(q)
    BY <1>3, <1>h DEF Loses, Goes, MakesTool
  <1>4. CASE Creates(q)
    BY <1>4, <1>h DEF Creates, MakesTool
  <1>5. CASE Fails(q)
    BY <1>5, <1>0, SteppedFact DEF Fails, Fail, Rollback, NoRow
  <1>6. CASE DryDelete(q)
    <2>1. LocksKept(q)
      BY <1>6, SteppedFact DEF DryDelete, Move, LocksKept, Locks, Shape, IdleReq
    <2>. QED
      BY <1>6, <2>1, <1>h DEF DryDelete
  <1>7. CASE Insert(q)
    <2>1. /\ NewRow \in Row /\ rows'[NewRow].by = q /\ rows'[NewRow].name = reqs[q].name
          /\ rows'[NewRow].st # "none" /\ \A r \in Row : r # NewRow => rows'[r] = rows[r]
      BY <1>7, NewRowFact, SteppedFact DEF Insert, Stored, InsertStatus
    <2>2. LocksKept(q) /\ Locks(reqs'[q], reqs[q].name)
      <3>1. CASE reqs[q].kind = "import"
        <4>1. reqs'[q].kind = "import" /\ reqs'[q].known = reqs[q].known \union {reqs[q].name}
          BY <1>7, <3>1, SteppedFact DEF Insert, Move, NextTool, Reqs
        <4>. QED
          BY <3>1, <4>1 DEF LocksKept, Locks
      <3>2. CASE reqs[q].kind # "import"
        BY <1>7, <3>2, SteppedFact DEF Insert, Move, Shape, IdleReq, LocksKept, Locks
      <3>. QED
        BY <3>1, <3>2
    <2>. QED
      BY <2>1, <2>2, <1>0, SteppedFact DEF LocksKept
  <1>8. CASE CommitInserts(q)
    <2>1. \A r \in Row : /\ rows[r].by # q => rows'[r] = rows[r]
                         /\ rows[r].by = q => rows'[r].by = None
      BY <1>8, SteppedFact DEF CommitInserts, Rows
    <2>. QED
      BY <2>1, <1>0, SteppedFact
  <1>9. CASE CommitApprove(q)
    <2>1. ~\E n : Locks(reqs[q], n)
      BY <1>9 DEF CommitApprove, Locks
    <2>2. reqs[q].row \in Row /\ rows[reqs[q].row].by = None
      BY <1>9, SteppedFact, NoneFacts DEF CommitApprove, Gone, Committed, Shape, IdleReq, Reqs, Maybe
    <2>3. /\ rows'[reqs[q].row].by = None
          /\ \A r \in Row : r # reqs[q].row => rows'[r] = rows[r]
      BY <1>9, <2>2, SteppedFact DEF CommitApprove, Activate, Rows
    <2>. QED
      BY <2>2, <2>3, <1>0, <1>i, <2>1, SteppedFact DEF LocksKept
  <1>10. CASE ApproveStale(q)
    <2>1. ~\E n : Locks(reqs[q], n)
      BY <1>10, SteppedFact DEF ApproveStale, Locks, IdleReq
    <2>. QED
      BY <1>10, <2>1, <1>h, <1>i DEF ApproveStale
  <1>11. CASE CommitRemoval(q)
    <2>1. ~\E n : Locks(reqs[q], n)
      BY <1>11 DEF CommitRemoval, Locks
    <2>2. \A r \in Row : rows'[r] = rows[r] \/ rows'[r] = NoRow
      BY <1>11, SteppedFact DEF CommitRemoval
    <2>. QED
      BY <2>2, <1>0, <1>i, <2>1, SteppedFact DEF LocksKept, NoRow
  <1>12. CASE LettaDelete(q)
    <2>1. ~\E n : Locks(reqs[q], n)
      BY <1>12, SteppedFact DEF LettaDelete, Locks, IdleReq
    <2>. QED
      BY <1>12, <2>1, <1>h, <1>i DEF LettaDelete
  <1>13. CASE LettaUpdate(q)
    <2>1. ~\E n : Locks(reqs[q], n)
      BY <1>13, SteppedFact DEF LettaUpdate, Locks, IdleReq
    <2>. QED
      BY <1>13, <2>1, <1>h, <1>i DEF LettaUpdate
  <1>14. CASE LettaUpdateFails(q)
    <2>1. ~\E n : Locks(reqs[q], n)
      BY <1>14, SteppedFact DEF LettaUpdateFails, Locks, IdleReq
    <2>. QED
      BY <1>14, <2>1, <1>h, <1>i DEF LettaUpdateFails
  <1>15. CASE CommitUpdate(q)
    <2>1. ~\E n : Locks(reqs[q], n)
      BY <1>15 DEF CommitUpdate, Locks
    <2>2. CASE reqs[q].sets = {}
      BY <1>15, <2>1, <2>2, <1>h, <1>i DEF CommitUpdate
    <2>3. CASE reqs[q].sets # {}
      <3>1. reqs[q].row \in Row /\ rows[reqs[q].row].by = None
        BY <1>15, <2>3, SteppedFact, NoneFacts
        DEF CommitUpdate, UpdateFails, Gone, Committed, Shape, IdleReq, Reqs, Maybe
      <3>2. /\ rows'[reqs[q].row].by = None
            /\ \A r \in Row : r # reqs[q].row => rows'[r] = rows[r]
        BY <1>15, <2>3, <3>1, StoreFact, SteppedFact DEF CommitUpdate
      <3>. QED
        BY <3>1, <3>2, <1>0, <1>i, <2>1, SteppedFact DEF LocksKept
    <2>. QED
      BY <2>2, <2>3
  <1>16. CASE UpdateConflict(q)
    <2>1. ~\E n : Locks(reqs[q], n)
      BY <1>16, SteppedFact DEF UpdateConflict, Locks, IdleReq
    <2>. QED
      BY <1>16, <2>1, <1>h, <1>i DEF UpdateConflict
  <1>. QED
    BY <1>s, <1>1, <1>2, <1>3, <1>4, <1>5, <1>6, <1>7, <1>8, <1>9, <1>10, <1>11, <1>12, <1>13, <1>14, <1>15, <1>16 DEF Effect

-----------------------------------------------------------------------------
(***************************************************************************)
(* Who owns a tool.                                                        *)
(***************************************************************************)
\* Rows lose tools, or one gets the tool that q had registered.
RowTools(q) ==
    \/ \A r \in Row : rows'[r].tool \in {rows[r].tool, None}
    \/ /\ Owning(q) /\ reqs'[q].tool = None
       /\ \E s \in Row : /\ rows'[s].tool = reqs[q].tool
                         /\ \A r \in Row : r # s => rows'[r].tool = rows[r].tool

\* Request q keeps its tool, or has none, or a new one, or that of its row.
ReqTool(q) ==
    \/ reqs'[q].tool = None
    \/ /\ \A x \in {"kind", "row", "tool", "name", "code"} : reqs'[q][x] = reqs[q][x]
       /\ reqs[q].kind \notin Registers
    \/ reqs'[q].tool = NewTool /\ reqs'[q].kind \in Registers /\ Creates(q)
    \/ reqs'[q].kind \notin Registers /\ \E s \in Row : /\ reqs'[q].row = s
                                                        /\ reqs'[q].tool = rows[s].tool

LEMMA ReqToolFact == ASSUME NEW q \in Req, Stepped(q) PROVE ReqTool(q)
  <1>1. CASE Arrives(q)
    <2>1. CASE reqs'[q].row = None
      BY <1>1, <2>1, SteppedFact DEF Arrives, ReqTool, Using, Shape, IdleReq, Registers
    <2>2. CASE reqs'[q].row # None
      <3>1. reqs'[q].row \in Row
        BY <2>2, SteppedFact DEF Reqs, Maybe
      <3>. QED
        BY <1>1, <2>2, <3>1, SteppedFact DEF Arrives, ReqTool, Using, Shape, IdleReq, Registers
    <2>. QED
      BY <2>1, <2>2
  <1>2. CASE Creates(q)
    <2>1. reqs'[q].kind = reqs[q].kind
      BY <1>2 DEF Creates
    <2>. QED
      BY <1>2, <2>1 DEF Creates, MakesTool, ReqTool
  <1>3. CASE LettaDelete(q) \/ LettaUpdate(q)
    BY <1>3, SteppedFact DEF LettaDelete, LettaUpdate, Move, ReqTool, Reqs, Registers
  <1>4. CASE Quiet(q) \/ Loses(q)
    BY <1>4 DEF Quiet, Loses, Goes, ReqTool
  <1>5. CASE DryDelete(q)
    BY <1>5, SteppedFact DEF DryDelete, Move, ReqTool
  <1>6. CASE Insert(q)
    BY <1>6, SteppedFact DEF Insert, Move, NextTool, ReqTool
  <1>7. CASE reqs' = [reqs EXCEPT ![q] = IdleReq]
    BY <1>7, SteppedFact DEF IdleReq, ReqTool
  <1>. QED
    BY <1>1, <1>2, <1>3, <1>4, <1>5, <1>6, <1>7, SteppedFact
    DEF Effect, Fails, Fail, CommitInserts, CommitApprove, ApproveStale, CommitRemoval,
        LettaUpdateFails, CommitUpdate, UpdateConflict, End, Move

LEMMA RowToolsFact == ASSUME NEW q \in Req, Stepped(q) PROVE RowTools(q)
  <1>1. CASE rows' = rows
    BY <1>1 DEF RowTools
  <1>2. CASE Fails(q)
    BY <1>2 DEF Fails, Fail, Rollback, NoRow, RowTools
  <1>3. CASE Insert(q)
    <2>1. /\ NewRow \in Row /\ rows'[NewRow].tool = reqs[q].tool
          /\ \A r \in Row : r # NewRow => rows'[r] = rows[r]
          /\ rows[NewRow].tool = None
      BY <1>3, NewRowFact, SteppedFact DEF Insert, Stored, RowShape, NoRow
    <2>2. reqs[q].kind \in Registers /\ reqs'[q].tool = None
      BY <1>3, SteppedFact DEF Insert, Shape, IdleReq, Registers, Move, NextTool
    <2>. QED
      BY <2>1, <2>2 DEF RowTools, Owning, Holding
  <1>4. CASE CommitInserts(q)
    BY <1>4, SteppedFact DEF CommitInserts, Rows, RowTools
  <1>5. CASE CommitApprove(q)
    <2>1. reqs[q].row \in Row /\ Owning(q)
      BY <1>5, SteppedFact, NoneFacts
      DEF CommitApprove, Shape, IdleReq, Reqs, Maybe, Owning, Holding, Registers
    <2>2. /\ rows'[reqs[q].row].tool = reqs[q].tool
          /\ \A r \in Row : r # reqs[q].row => rows'[r] = rows[r]
          /\ reqs'[q].tool = None
      BY <1>5, <2>1, SteppedFact DEF CommitApprove, Activate, End, Move, IdleReq, Rows
    <2>. QED
      BY <2>1, <2>2 DEF RowTools
  <1>6. CASE CommitRemoval(q)
    BY <1>6, SteppedFact DEF CommitRemoval, NoRow, RowTools
  <1>7. CASE CommitUpdate(q) /\ reqs[q].sets # {}
    <2>1. reqs[q].row \in Row
      BY <1>7, SteppedFact, NoneFacts DEF CommitUpdate, Shape, IdleReq, Reqs, Maybe
    <2>. QED
      BY <1>7, <2>1, StoreFact, SteppedFact DEF CommitUpdate, RowTools
  <1>. QED
    BY <1>1, <1>2, <1>3, <1>4, <1>5, <1>6, <1>7, SteppedFact
    DEF Effect, Arrives, Quiet, Loses, Goes, Creates, DryDelete, ApproveStale, LettaDelete,
        LettaUpdate, LettaUpdateFails, CommitUpdate, UpdateConflict

LEMMA OwnersStep == ASSUME NEW q \in Req, Stepped(q) PROVE OneOwner'
  <1>0. OneOwner /\ OwnTool
    BY DEF Stepped, Inv
  <1>1. \A p \in Req : p # q => Owning(p)' = Owning(p) /\ reqs'[p].tool = reqs[p].tool
    BY SteppedFact DEF Owning, Holding
  <1>2. Owning(q)' => /\ UnusedTools # {} /\ reqs'[q].tool = NewTool
                      /\ \A r \in Row : rows'[r].tool # NewTool
    <2>. SUFFICES ASSUME Owning(q)' PROVE /\ UnusedTools # {} /\ reqs'[q].tool = NewTool
                                          /\ \A r \in Row : rows'[r].tool # NewTool
      OBVIOUS
    <2>1. reqs'[q].tool # None /\ reqs'[q].kind \in Registers
      BY DEF Owning, Holding
    <2>2. UnusedTools # {} /\ reqs'[q].tool = NewTool
      BY <2>1, ReqToolFact DEF ReqTool, Creates, MakesTool
    <2>. QED
      BY <2>1, <2>2, RowToolsFact, NewToolFact DEF RowTools
  <1>3. \A r, s \in Row : rows'[r].tool = rows'[s].tool /\ rows'[r].tool # None => r = s
    BY <1>0, RowToolsFact DEF RowTools, OneOwner
  <1>4. \A p, o \in Req : Owning(p)' /\ Owning(o)' /\ reqs'[p].tool = reqs'[o].tool => p = o
    BY <1>0, <1>1, <1>2, NewToolFact DEF OneOwner
  <1>5. \A p \in Req, r \in Row : Owning(p)' => rows'[r].tool # reqs'[p].tool
    BY <1>0, <1>1, <1>2, RowToolsFact DEF RowTools, OneOwner, Owning
  <1>. QED
    BY <1>3, <1>4, <1>5 DEF OneOwner

\* A row becomes pending when it is inserted; nobody is busy with it then.
LEMMA PendingFact ==
    ASSUME NEW q \in Req, Stepped(q), NEW r \in Row, rows'[r].st = "pending"
    PROVE  /\ rows[r].st # "pending" => \A p \in Req : reqs'[p].row # r
           /\ rows[r].st = "pending" => rows'[r].code = rows[r].code
  <1>1. CASE rows'[r] = rows[r]
    BY <1>1
  <1>2. CASE Fails(q)
    BY <1>1, <1>2 DEF Fails, Fail, Rollback, NoRow
  <1>3. CASE Insert(q) /\ r = NewRow
    <2>1. reqs'[q].row \in {reqs[q].row, None}
      BY <1>3, SteppedFact DEF Insert, Move, NextTool, Shape, IdleReq, Reqs
    <2>. QED
      BY <1>3, <2>1, NewRowFact, SteppedFact, NoneFacts DEF Insert
  <1>4. CASE CommitInserts(q)
    BY <1>4, SteppedFact DEF CommitInserts, Rows
  <1>5. CASE CommitApprove(q)
    BY <1>1, <1>5, SteppedFact DEF CommitApprove, Activate, Rows
  <1>6. CASE CommitRemoval(q)
    BY <1>1, <1>6, SteppedFact DEF CommitRemoval, NoRow
  <1>7. CASE CommitUpdate(q) /\ r = reqs[q].row /\ reqs[q].sets # {}
    <2>1. rows' = [rows EXCEPT ![r] = Store(q)] /\ Shape(reqs[q])
          /\ reqs[q].kind = "update" /\ reqs[q].pc = "commit"
      BY <1>7, SteppedFact DEF CommitUpdate
    <2>2. Store(q).st = rows[r].st /\ ("code" \notin reqs[q].sets => Store(q).code = rows[r].code)
      BY <1>7, StoreFact, SteppedFact
    <2>3. rows[r].st = "pending" => "code" \notin reqs[q].sets
      BY <2>1, <1>7 DEF Stepped, Inv, OwnTool, Using, Shape, IdleReq
    <2>. QED
      BY <2>1, <2>2, <2>3, SteppedFact
  <1>. QED
    BY <1>1, <1>2, <1>3, <1>4, <1>5, <1>6, <1>7, SteppedFact
    DEF Effect, Arrives, Quiet, Loses, Goes, Creates, DryDelete, Insert, ApproveStale,
        LettaDelete, LettaUpdate, LettaUpdateFails, CommitUpdate, UpdateConflict

LEMMA OwnToolStep == ASSUME NEW q \in Req, Stepped(q) PROVE OwnTool'
  <1>0. OneOwner /\ OwnTool
    BY DEF Stepped, Inv
  <1>1. SUFFICES ASSUME NEW p \in Req, Using(p)'
                 PROVE  /\ \A o \in Req : Owning(o)' => reqs'[o].tool # reqs'[p].tool
                        /\ \A r \in Row : rows'[r].tool = reqs'[p].tool => r = reqs'[p].row
                        /\ \A r \in Row : r = reqs'[p].row => rows'[r].st # "pending"
    BY DEF OwnTool
  <1>. DEFINE t == reqs'[p].tool
  <1>2. t # None /\ (UnusedTools # {} => t # NewTool)
    BY <1>1, ReqToolFact, NewToolFact, SteppedFact DEF ReqTool, Using, Registers
  <1>3. /\ \A o \in Req : Owning(o) => reqs[o].tool # t
        /\ \A r \in Row : rows[r].tool = t => r = reqs'[p].row
        /\ \A r \in Row : r = reqs'[p].row => rows[r].st # "pending"
    <2>1. CASE reqs'[p].kind = reqs[p].kind /\ reqs'[p].tool = reqs[p].tool
               /\ reqs'[p].row = reqs[p].row
      BY <2>1, <1>1, <1>0 DEF OwnTool, Using
    <2>2. CASE p = q /\ \E s \in Row : reqs'[q].row = s /\ reqs'[q].tool = rows[s].tool
      BY <2>2, <1>2, <1>0, SteppedFact DEF OneOwner, Owning, RowShape
    <2>. QED
      BY <2>1, <2>2, <1>1, <1>2, ReqToolFact, NewToolFact, SteppedFact
      DEF ReqTool, Using, Registers
  <1>4. \A o \in Req : Owning(o)' => reqs'[o].tool # t
    <2>1. \A o \in Req : o # q => Owning(o)' = Owning(o) /\ reqs'[o].tool = reqs[o].tool
      BY SteppedFact DEF Owning, Holding
    <2>2. Owning(q)' => UnusedTools # {} /\ reqs'[q].tool = NewTool
      BY ReqToolFact DEF ReqTool, Owning, Holding, Creates, MakesTool
    <2>. QED
      BY <2>1, <2>2, <1>2, <1>3
  <1>5. \A r \in Row : rows'[r].tool = t => r = reqs'[p].row
    <2>1. Owning(q) => reqs[q].tool # t
      BY <1>3
    <2>. QED
      BY <1>2, <1>3, <2>1, RowToolsFact DEF RowTools
  <1>6. \A r \in Row : r = reqs'[p].row => rows'[r].st # "pending"
    BY <1>3, PendingFact
  <1>. QED
    BY <1>4, <1>5, <1>6

-----------------------------------------------------------------------------
(***************************************************************************)
(* What Letta has.                                                         *)
(***************************************************************************)
\* Letta's tools change one at a time: a new one, or one that q owns, or uses.
LettaChange(q) ==
    \/ letta' = letta
    \/ UnusedTools # {} /\ \A t \in Tool : t # NewTool => letta'[t] = letta[t]
    \/ Owning(q) /\ \A t \in Tool : t # reqs[q].tool => letta'[t] = letta[t]
    \/ Using(q) /\ \A t \in Tool : t # reqs[q].tool => letta'[t] = letta[t]

LEMMA LettaFact == ASSUME NEW q \in Req, Stepped(q) PROVE LettaChange(q)
  <1>1. CASE Loses(q) \/ Creates(q)
    BY <1>1, SteppedFact DEF Loses, Creates, MakesTool, LettaChange
  <1>2. CASE DryDelete(q)
    BY <1>2, SteppedFact
    DEF DryDelete, DropsDryTool, LettaChange, Owning, Holding, Shape, IdleReq, Registers
  <1>3. CASE LettaDelete(q)
    BY <1>3, SteppedFact DEF LettaDelete, DropTool, LettaChange, Using
  <1>4. CASE LettaUpdate(q) \/ LettaUpdateFails(q)
    BY <1>4, SteppedFact DEF LettaUpdate, LettaUpdateFails, LettaChange, Using
  <1>. QED
    BY <1>1, <1>2, <1>3, <1>4, SteppedFact
    DEF Effect, Arrives, Quiet, Fails, Insert, CommitInserts, CommitApprove, ApproveStale,
        CommitRemoval, CommitUpdate, UpdateConflict, LettaChange

\* What another request has registered stays as it is.
LEMMA HeldStep == ASSUME NEW q \in Req, Stepped(q) PROVE Held'
  <1>0. Held /\ OneOwner /\ OwnTool
    BY DEF Stepped, Inv
  <1>1. SUFFICES ASSUME NEW p \in Req, Owning(p)'
                 PROVE  letta'[reqs'[p].tool] = Made(reqs'[p].name, reqs'[p].code)
    BY DEF Held
  <1>2. CASE p = q
    <2>1. Creates(q)
      BY <1>1, <1>2, ReqToolFact DEF ReqTool, Owning, Holding
    <2>. QED
      BY <1>2, <2>1, NewToolFact, SteppedFact DEF Creates, MakesTool
  <1>3. CASE p # q
    <2>1. reqs'[p] = reqs[p] /\ Owning(p) /\ reqs[p].tool \in Tool
      BY <1>1, <1>3, SteppedFact DEF Owning, Holding, Reqs, Maybe
    <2>2. letta'[reqs[p].tool] = letta[reqs[p].tool]
      BY <1>0, <1>3, <2>1, LettaFact, NewToolFact DEF LettaChange, OneOwner, OwnTool
    <2>. QED
      BY <1>0, <2>1, <2>2 DEF Held
  <1>. QED
    BY <1>2, <1>3

-----------------------------------------------------------------------------
(***************************************************************************)
(* What a request knows of its row.                                        *)
(***************************************************************************)
\* A request that is busy with a row arrived with it, or goes on.
GoesOn(q) ==
    /\ \A x \in {"kind", "row", "name", "code", "sets"} : reqs'[q][x] = reqs[q][x]
    /\ Creates(q) \/ LettaDelete(q) \/ LettaUpdate(q)
    /\ ~Creates(q) => reqs'[q].tool = reqs[q].tool
    /\ rows' = rows /\ torn' = torn

LEMMA GoesOnFact ==
    ASSUME NEW q \in Req, Stepped(q), reqs'[q].row # None
    PROVE  Arrives(q) \/ GoesOn(q)
  <1>1. CASE Creates(q)
    BY <1>1 DEF Creates, GoesOn
  <1>2. CASE LettaDelete(q) \/ LettaUpdate(q)
    <2>1. ~Creates(q)
      BY <1>2, SteppedFact DEF LettaDelete, LettaUpdate, Creates, Registers
    <2>. QED
      BY <1>2, <2>1, SteppedFact DEF LettaDelete, LettaUpdate, Move, GoesOn, Reqs
  <1>3. CASE Insert(q)
    BY <1>3, SteppedFact, NoneFacts DEF Insert, Move, NextTool, Shape, IdleReq, Reqs
  <1>4. CASE DryDelete(q)
    BY <1>4, SteppedFact, NoneFacts DEF DryDelete, Move, Shape, IdleReq, Reqs
  <1>5. CASE Quiet(q) \/ Loses(q)
    BY <1>5 DEF Quiet, Loses, Goes
  <1>6. CASE reqs' = [reqs EXCEPT ![q] = IdleReq]
    BY <1>6, SteppedFact DEF IdleReq
  <1>. QED
    BY <1>1, <1>2, <1>3, <1>4, <1>5, <1>6, SteppedFact
    DEF Effect, Fails, Fail, CommitInserts, CommitApprove, ApproveStale, CommitRemoval,
        LettaUpdateFails, CommitUpdate, UpdateConflict, End, Move

\* A row is mended only when it is inserted again.
LEMMA TornFact ==
    ASSUME NEW q \in Req, Stepped(q), NEW r \in Row, r \notin torn'
    PROVE  /\ r \notin torn \/ (Insert(q) /\ r = NewRow)
           /\ Insert(q) /\ r = NewRow => \A p \in Req : reqs'[p].row # r
  <1>1. CASE Insert(q)
    <2>1. reqs'[q].row \in {reqs[q].row, None}
      BY <1>1, SteppedFact DEF Insert, Move, NextTool, Shape, IdleReq, Reqs
    <2>2. r \notin torn \/ r = NewRow
      BY <1>1 DEF Insert
    <2>3. \A p \in Req : reqs'[p].row # NewRow
      BY <1>1, <2>1, NewRowFact, SteppedFact, NoneFacts DEF Insert
    <2>. QED
      BY <1>1, <2>2, <2>3
  <1>2. CASE Arrives(q) /\ ~Insert(q)
    BY <1>2 DEF Arrives
  <1>. QED
    BY <1>1, <1>2, SteppedFact
    DEF Effect, Quiet, Loses, Goes, Creates, Fails, DryDelete, CommitInserts,
        CommitApprove, ApproveStale, CommitRemoval, LettaDelete, LettaUpdate,
        LettaUpdateFails, CommitUpdate, UpdateConflict

\* A step of q changes its own row, the rows it hides, and a new one.
LEMMA RowKeptFact ==
    ASSUME NEW q \in Req, Stepped(q), NEW r \in Row, r # reqs[q].row,
           rows[r].by # q, ~(Insert(q) /\ r = NewRow)
    PROVE  rows'[r] = rows[r]
  <1>1. CASE rows' = rows
    BY <1>1
  <1>2. CASE Fails(q)
    BY <1>2 DEF Fails, Fail, Rollback
  <1>3. CASE Insert(q)
    BY <1>3, SteppedFact DEF Insert
  <1>4. CASE CommitInserts(q)
    BY <1>4 DEF CommitInserts
  <1>5. CASE CommitApprove(q) \/ CommitRemoval(q) \/ CommitUpdate(q)
    BY <1>5, SteppedFact DEF CommitApprove, Activate, CommitRemoval, CommitUpdate
  <1>. QED
    BY <1>1, <1>2, <1>3, <1>4, <1>5, SteppedFact
    DEF Effect, Arrives, Quiet, Loses, Goes, Creates, DryDelete, ApproveStale, LettaDelete,
        LettaUpdate, LettaUpdateFails, UpdateConflict

LEMMA ReviewedStep == ASSUME NEW q \in Req, Stepped(q) PROVE Reviewed'
  <1>0. Reviewed
    BY DEF Stepped, Inv
  <1>1. SUFFICES ASSUME NEW p \in Req, NEW r \in Row, reqs'[p].kind = "approve",
                        reqs'[p].row = r, rows'[r].st = "pending"
                 PROVE  rows'[r].code = reqs'[p].code
    BY DEF Reviewed
  <1>2. rows[r].st = "pending" /\ rows'[r].code = rows[r].code
    BY <1>1, PendingFact
  <1>3. CASE p # q
    BY <1>0, <1>1, <1>2, <1>3, SteppedFact DEF Reviewed
  <1>4. CASE p = q
    <2>1. reqs'[q].row # None
      BY <1>1, <1>4, NoneFacts
    <2>2. CASE Arrives(q)
      BY <1>1, <1>2, <1>4, <2>1, <2>2 DEF Arrives
    <2>3. CASE GoesOn(q)
      BY <1>0, <1>1, <1>2, <1>4, <2>3 DEF GoesOn, Reviewed
    <2>. QED
      BY <2>1, <2>2, <2>3, GoesOnFact
  <1>. QED
    BY <1>3, <1>4

LEMMA AloneStep == ASSUME NEW q \in Req, Stepped(q) PROVE Alone'
  <1>0. Alone
    BY DEF Stepped, Inv
  <1>1. SUFFICES ASSUME NEW p \in Req, NEW r \in Row, r \notin torn', p # q,
                        reqs'[p].row = r, reqs'[q].row = r
                 PROVE  FALSE
    <2>. SUFFICES ASSUME NEW p \in Req, NEW o \in Req, NEW r \in Row, r \notin torn',
                         reqs'[p].row = r, reqs'[o].row = r, p # o
                  PROVE  FALSE
      BY DEF Alone
    <2>1. r \notin torn
      BY TornFact
    <2>2. CASE p # q /\ o # q
      BY <1>0, <2>1, <2>2, SteppedFact DEF Alone
    <2>. QED
      BY <1>1, <2>2
  <1>2. r \notin torn /\ reqs[p].row = r /\ reqs'[q].row # None
    BY <1>1, TornFact, SteppedFact, NoneFacts
  <1>3. CASE Arrives(q)
    BY <1>1, <1>2, <1>3 DEF Arrives, Busy
  <1>4. CASE GoesOn(q)
    BY <1>0, <1>1, <1>2, <1>4 DEF GoesOn, Alone
  <1>. QED
    BY <1>2, <1>3, <1>4, GoesOnFact

LEMMA FreshStep == ASSUME NEW q \in Req, Stepped(q) PROVE Fresh'
  <1>0. Fresh /\ Alone
    BY DEF Stepped, Inv
  <1>1. SUFFICES ASSUME NEW p \in Req, NEW r \in Row, r \notin torn', reqs'[p].row = r
                 PROVE  /\ Committed(r)'
                        /\ reqs'[p].kind \in {"approve", "reject"} => rows'[r].st = "pending"
                        /\ reqs'[p].kind = "delete" \/ Using(p)'
                              => rows'[r].tool = reqs'[p].tool
                        /\ reqs'[p].kind = "update" /\ "code" \notin reqs'[p].sets
                              => rows'[r].code = reqs'[p].code
    BY DEF Fresh
  <1>2. r \notin torn /\ ~(Insert(q) /\ r = NewRow)
    BY <1>1, TornFact
  <1>3. CASE p # q
    <2>1. reqs'[p] = reqs[p]
      BY <1>3, SteppedFact
    <2>2. r # reqs[q].row
      BY <1>0, <1>1, <1>2, <1>3, <2>1 DEF Alone
    <2>3. Committed(r)
      BY <1>0, <1>1, <1>2, <2>1 DEF Fresh
    <2>4. rows'[r] = rows[r]
      BY <1>2, <2>2, <2>3, RowKeptFact, NoneFacts DEF Committed
    <2>. QED
      BY <1>0, <1>1, <1>2, <2>1, <2>3, <2>4 DEF Fresh, Committed, Using
  <1>4. CASE p = q
    <2>1. reqs'[q].row # None
      BY <1>1, <1>4, NoneFacts
    <2>2. CASE Arrives(q)
      BY <1>1, <1>4, <2>1, <2>2 DEF Arrives, Committed
    <2>3. CASE GoesOn(q)
      BY <1>0, <1>1, <1>2, <1>4, <2>3 DEF GoesOn, Fresh, Committed, Using, Creates, Registers
    <2>. QED
      BY <2>1, <2>2, <2>3, GoesOnFact
  <1>. QED
    BY <1>3, <1>4

\* Whose tool Letta changes: nobody's that relies on it, in a row that is whole.
LEMMA SameToolFact ==
    ASSUME NEW q \in Req, Stepped(q), NEW p \in Req, p # q, Using(p),
           reqs[p].row \in Row, reqs[p].row \notin torn
    PROVE  letta'[reqs[p].tool] = letta[reqs[p].tool]
  <1>0. OneOwner /\ OwnTool /\ Alone /\ Fresh
    BY DEF Stepped, Inv
  <1>1. reqs[p].tool \in Tool /\ rows[reqs[p].row].tool = reqs[p].tool
    BY <1>0, SteppedFact DEF Fresh, Using, Reqs, Maybe
  <1>2. UnusedTools # {} => reqs[p].tool # NewTool
    BY NewToolFact
  <1>3. Owning(q) => reqs[q].tool # reqs[p].tool
    BY <1>0 DEF OwnTool
  <1>4. Using(q) => reqs[q].tool # reqs[p].tool
    BY <1>0, <1>1 DEF OwnTool, Alone
  <1>. QED
    BY <1>1, <1>2, <1>3, <1>4, LettaFact DEF LettaChange

\* Likewise the tool of a row that q is not busy with.
LEMMA OtherToolFact ==
    ASSUME NEW q \in Req, Stepped(q), NEW r \in Row, rows[r].tool # None, reqs[q].row # r
    PROVE  letta'[rows[r].tool] = letta[rows[r].tool]
  <1>0. OneOwner /\ OwnTool
    BY DEF Stepped, Inv
  <1>1. rows[r].tool \in Tool
    BY SteppedFact DEF Rows, Maybe
  <1>2. UnusedTools # {} => rows[r].tool # NewTool
    BY NewToolFact
  <1>3. Owning(q) \/ Using(q) => reqs[q].tool # rows[r].tool
    BY <1>0 DEF OneOwner, OwnTool
  <1>. QED
    BY <1>1, <1>2, <1>3, LettaFact DEF LettaChange

\* A row that q is not busy with keeps what it says, if it is still there.
LEMMA RowSaysFact ==
    ASSUME NEW q \in Req, Stepped(q), NEW r \in Row, r # reqs[q].row,
           ~(Insert(q) /\ r = NewRow), rows'[r].st # "none"
    PROVE  /\ rows'[r].st = rows[r].st /\ rows'[r].tool = rows[r].tool
           /\ rows'[r].code = rows[r].code
  <1>1. CASE rows' = rows
    BY <1>1
  <1>2. CASE Fails(q)
    BY <1>2 DEF Fails, Fail, Rollback, NoRow
  <1>3. CASE Insert(q)
    BY <1>3, SteppedFact DEF Insert
  <1>4. CASE CommitInserts(q)
    BY <1>4, SteppedFact DEF CommitInserts, Rows
  <1>5. CASE CommitApprove(q) \/ CommitRemoval(q) \/ CommitUpdate(q)
    BY <1>5, SteppedFact DEF CommitApprove, Activate, CommitRemoval, CommitUpdate
  <1>. QED
    BY <1>1, <1>2, <1>3, <1>4, <1>5, SteppedFact
    DEF Effect, Arrives, Quiet, Loses, Goes, Creates, DryDelete, ApproveStale, LettaDelete,
        LettaUpdate, LettaUpdateFails, UpdateConflict

\* The row that q is busy with: what a commit stores, Letta has.
LEMMA OwnRowFact ==
    ASSUME NEW q \in Req, Stepped(q), NEW r \in Row, reqs[q].row = r, r \notin torn,
           r \notin torn', rows'[r].st = "active", ~InFlux(q, r)',
           \A p \in Req : p # q => ~InFlux(p, r)
    PROVE  Has(letta'[rows'[r].tool], rows'[r].code)
  <1>0. Synced /\ Fresh /\ Held /\ Reviewed
    BY DEF Stepped, Inv
  <1>a. Committed(r) /\ r # None
    BY <1>0, NoneFacts DEF Fresh
  <1>b. ASSUME ~InFlux(q, r), rows[r].st = "active"
        PROVE  Has(letta[rows[r].tool], rows[r].code) /\ rows[r].tool \in Tool
    <2>1. \A p \in Req : ~InFlux(p, r)
      BY <1>b
    <2>. QED
      BY <1>0, <1>b, <2>1, SteppedFact DEF Synced, RowShape, Rows, Maybe
  <1>1. CASE Arrives(q)
    BY <1>1, <1>a DEF Arrives, IdleReq
  <1>2. CASE Quiet(q) \/ Loses(q) \/ Creates(q)
    <2>1. ~InFlux(q, r) /\ rows' = rows
      BY <1>2 DEF Quiet, Loses, Goes, Creates, InFlux, Using
    <2>2. letta' = letta \/ (letta' = [letta EXCEPT ![NewTool] = Made(reqs[q].name, reqs[q].code)]
                             /\ UnusedTools # {})
      BY <1>2 DEF Quiet, Loses, Goes, Creates, MakesTool
    <2>. QED
      BY <1>b, <2>1, <2>2, NewToolFact, SteppedFact DEF Has
  <1>3. CASE Fails(q)
    <2>1. ~InFlux(q, r)
      BY <1>3 DEF Fails, Touched, InFlux, Using
    <2>2. rows'[r] = rows[r] /\ letta' = letta
      BY <1>3 DEF Fails, Fail, Rollback, NoRow
    <2>. QED
      BY <1>b, <2>1, <2>2 DEF Has
  <1>4. CASE DryDelete(q) \/ Insert(q) \/ CommitInserts(q)
    BY <1>4, <1>a, SteppedFact DEF DryDelete, Insert, CommitInserts, Shape, IdleReq
  <1>5. CASE CommitApprove(q)
    <2>1. /\ rows'[r].tool = reqs[q].tool /\ rows'[r].code = rows[r].code /\ letta' = letta
      BY <1>5, SteppedFact DEF CommitApprove, Activate, Rows
    <2>2. Owning(q) /\ rows[r].st = "pending"
      BY <1>0, <1>5, <1>a, SteppedFact
      DEF CommitApprove, Owning, Holding, Registers, Shape, IdleReq, Fresh
    <2>3. rows[r].code = reqs[q].code /\ letta[reqs[q].tool] = Made(reqs[q].name, reqs[q].code)
      BY <1>0, <1>5, <2>2 DEF Reviewed, Held, CommitApprove
    <2>. QED
      BY <2>1, <2>3 DEF Has, Made
  <1>6. CASE ApproveStale(q)
    BY <1>6, <1>a DEF ApproveStale, Gone
  <1>7. CASE CommitRemoval(q)
    BY <1>7, <1>a, SteppedFact DEF CommitRemoval, Gone, NoRow
  <1>8. CASE LettaDelete(q) \/ LettaUpdate(q)
    <2>1. /\ reqs'[q].pc = "commit" /\ reqs'[q].tool = reqs[q].tool
          /\ reqs'[q].kind = reqs[q].kind /\ reqs'[q].row = reqs[q].row
          /\ reqs[q].pc = "letta" /\ rows' = rows /\ reqs[q].kind \in {"update", "delete"}
      BY <1>8, SteppedFact DEF LettaDelete, LettaUpdate, Move, Reqs
    <2>2. reqs[q].tool = None
      BY <2>1 DEF InFlux, Using
    <2>3. letta' = letta
      BY <1>8, <2>2 DEF LettaDelete, LettaUpdate, DropTool
    <2>. QED
      BY <1>b, <2>1, <2>3 DEF InFlux, Has
  <1>9. CASE LettaUpdateFails(q)
    <2>1. rows' = rows /\ letta' = letta /\ ~InFlux(q, r)
      BY <1>9 DEF LettaUpdateFails, InFlux
    <2>. QED
      BY <1>b, <2>1 DEF Has
  <1>10. CASE CommitUpdate(q)
    <2>1. letta' = letta /\ reqs[q].kind = "update" /\ reqs[q].pc = "commit"
      BY <1>10 DEF CommitUpdate
    <2>2. /\ rows'[r].st = rows[r].st /\ rows'[r].tool = rows[r].tool
          /\ rows'[r].code = reqs[q].code
      <3>1. CASE reqs[q].sets = {}
        BY <1>0, <1>10, <2>1, <3>1 DEF CommitUpdate, Fresh
      <3>2. CASE reqs[q].sets # {}
        BY <1>0, <1>10, <2>1, <3>2, StoreFact, SteppedFact DEF CommitUpdate, Fresh
      <3>. QED
        BY <3>1, <3>2
    <2>3. CASE reqs[q].tool # None
      <3>1. InFlux(q, r) /\ rows[r].tool = reqs[q].tool
        BY <1>0, <2>1, <2>3 DEF InFlux, Using, Fresh
      <3>. QED
        BY <1>0, <2>1, <2>2, <3>1 DEF Synced, Has
    <2>4. CASE reqs[q].tool = None
      <3>1. ~InFlux(q, r) /\ "code" \notin reqs[q].sets
        BY <2>1, <2>4, SteppedFact DEF InFlux, Using, Shape, IdleReq
      <3>2. rows[r].code = reqs[q].code
        BY <1>0, <2>1, <3>1 DEF Fresh
      <3>. QED
        BY <1>b, <2>1, <2>2, <3>1, <3>2 DEF Has
    <2>. QED
      BY <2>3, <2>4
  <1>11. CASE UpdateConflict(q)
    <2>1. ~InFlux(q, r) /\ rows' = rows /\ letta' = letta
      BY <1>11 DEF UpdateConflict, Touched, InFlux, Using
    <2>. QED
      BY <1>b, <2>1 DEF Has
  <1>. QED
    BY <1>1, <1>2, <1>3, <1>4, <1>5, <1>6, <1>7, <1>8, <1>9, <1>10, <1>11, SteppedFact DEF Effect

LEMMA SyncedStep == ASSUME NEW q \in Req, Stepped(q) PROVE Synced'
  <1>0. Synced /\ Fresh /\ Alone /\ Held /\ Reviewed /\ OwnTool
    BY DEF Stepped, Inv
  <1>1. ASSUME NEW p \in Req, NEW r \in Row, reqs'[p].kind = "update", InFlux(p, r)', r \notin torn'
        PROVE  Has(letta'[reqs'[p].tool], reqs'[p].code)
    <2>1. reqs'[p].row = r /\ r \notin torn /\ reqs'[p].row # None
      BY <1>1, TornFact, NoneFacts DEF InFlux
    <2>2. CASE p # q
      <3>1. reqs'[p] = reqs[p] /\ Using(p) /\ InFlux(p, r)
        BY <1>1, <2>2, SteppedFact DEF InFlux, Using
      <3>2. letta'[reqs[p].tool] = letta[reqs[p].tool]
        BY <2>1, <2>2, <3>1, SameToolFact
      <3>. QED
        BY <1>0, <1>1, <2>1, <3>1, <3>2 DEF Synced, Has
    <2>3. CASE p = q
      <3>1. ~Arrives(q)
        BY <1>1, <2>3 DEF Arrives, InFlux, Using
      <3>2. GoesOn(q) /\ reqs[q].kind = "update"
        BY <1>1, <2>1, <2>3, <3>1, GoesOnFact DEF GoesOn
      <3>3. LettaUpdate(q)
        BY <3>2 DEF GoesOn, Creates, LettaDelete, Registers
      <3>4. reqs'[q].tool = reqs[q].tool /\ reqs'[q].code = reqs[q].code
        BY <3>3, SteppedFact DEF LettaUpdate, Move
      <3>5. letta'[reqs[q].tool] = Made(reqs[q].name, reqs[q].code)
        BY <3>3, SteppedFact DEF LettaUpdate, Reqs, Maybe
      <3>. QED
        BY <2>3, <3>4, <3>5 DEF Has, Made
    <2>. QED
      BY <2>2, <2>3
  <1>2. ASSUME NEW r \in Row, rows'[r].st = "active", r \notin torn',
               \A p \in Req : ~InFlux(p, r)'
        PROVE  Has(letta'[rows'[r].tool], rows'[r].code)
    <2>1. CASE Insert(q) /\ r = NewRow
      <3>1. reqs[q].kind \in Registers /\ reqs[q].tool # None
        BY <1>2, <2>1, NewRowFact, SteppedFact
        DEF Insert, Shape, IdleReq, Registers, RowShape, Stored, InsertStatus
      <3>2. letta[reqs[q].tool] = Made(reqs[q].name, reqs[q].code)
        BY <1>0, <3>1 DEF Held, Owning, Holding
      <3>3. rows'[r].tool = reqs[q].tool /\ rows'[r].code = reqs[q].code /\ letta' = letta
        BY <2>1, NewRowFact, SteppedFact DEF Insert, Stored
      <3>. QED
        BY <3>2, <3>3 DEF Has, Made
    <2>2. CASE ~(Insert(q) /\ r = NewRow) /\ reqs[q].row # r
      <3>1. r \notin torn
        BY <1>2, <2>2, TornFact
      <3>2. rows'[r].st = rows[r].st /\ rows'[r].tool = rows[r].tool /\ rows'[r].code = rows[r].code
        BY <1>2, <2>2, RowSaysFact
      <3>3. \A p \in Req : ~InFlux(p, r)
        BY <1>2, <2>2, SteppedFact DEF InFlux, Using
      <3>4. rows[r].tool # None
        BY <1>2, <3>2, SteppedFact DEF RowShape
      <3>5. letta'[rows[r].tool] = letta[rows[r].tool]
        BY <2>2, <3>4, OtherToolFact
      <3>. QED
        BY <1>0, <1>2, <3>1, <3>2, <3>3, <3>5 DEF Synced, Has
    <2>3. CASE ~(Insert(q) /\ r = NewRow) /\ reqs[q].row = r
      <3>1. r \notin torn /\ Committed(r) /\ \A p \in Req : p # q => reqs[p].row # r
        BY <1>0, <1>2, <2>3, TornFact DEF Fresh, Alone
      <3>2. \A p \in Req : p # q => ~InFlux(p, r)
        BY <3>1 DEF InFlux
      <3>. QED
        BY <1>0, <1>2, <2>3, <3>1, <3>2, OwnRowFact
    <2>. QED
      BY <2>1, <2>2, <2>3
  <1>. QED
    BY <1>1, <1>2 DEF Synced

-----------------------------------------------------------------------------
(***************************************************************************)
(* What is left in Letta.                                                  *)
(***************************************************************************)
\* Only a tool that is made is taken off the list of the excused.
LEMMA ExcusedFact ==
    ASSUME NEW q \in Req, Stepped(q), NEW t \in Tool, t \in excused
    PROVE  t \in excused' \/ (Creates(q) /\ t = NewTool)
  BY SteppedFact
  DEF Effect, Arrives, Quiet, Loses, Goes, Creates, Fails, Fail, DryDelete, DropsDryTool,
      Insert, CommitInserts, CommitApprove, ApproveStale, CommitRemoval, LettaDelete,
      DropTool, LettaUpdate, LettaUpdateFails, CommitUpdate, UpdateConflict

\* A tool comes to life when it is made.
LEMMA LivesFact ==
    ASSUME NEW q \in Req, Stepped(q), NEW t \in Tool, letta'[t].live
    PROVE  letta[t].live \/ (UnusedTools # {} /\ t = NewTool /\ (Loses(q) \/ Creates(q)))
  <1>1. CASE Loses(q) \/ Creates(q)
    BY <1>1, SteppedFact DEF Loses, Creates, MakesTool
  <1>2. CASE DryDelete(q)
    BY <1>2, SteppedFact DEF DryDelete, DropsDryTool, NoTool
  <1>3. CASE LettaDelete(q)
    BY <1>3, SteppedFact DEF LettaDelete, DropTool, NoTool
  <1>4. CASE LettaUpdate(q) \/ LettaUpdateFails(q)
    BY <1>4, SteppedFact DEF LettaUpdate, LettaUpdateFails
  <1>. QED
    BY <1>1, <1>2, <1>3, <1>4, SteppedFact
    DEF Effect, Arrives, Quiet, Fails, Insert, CommitInserts, CommitApprove, ApproveStale,
        CommitRemoval, CommitUpdate, UpdateConflict

LEMMA DroppedStep == ASSUME NEW q \in Req, Stepped(q) PROVE Dropped'
  <1>0. Dropped
    BY DEF Stepped, Inv
  <1>1. SUFFICES ASSUME NEW p \in Req, reqs'[p].kind = "delete", reqs'[p].pc = "commit",
                        reqs'[p].tool # None
                 PROVE  ~letta'[reqs'[p].tool].live \/ reqs'[p].tool \in excused'
    BY DEF Dropped
  <1>2. CASE p # q
    <2>1. reqs'[p] = reqs[p] /\ reqs[p].tool \in Tool
      BY <1>1, <1>2, SteppedFact DEF Reqs, Maybe
    <2>2. ~letta[reqs[p].tool].live \/ reqs[p].tool \in excused
      BY <1>0, <1>1, <2>1 DEF Dropped
    <2>3. UnusedTools # {} => reqs[p].tool # NewTool
      BY NewToolFact
    <2>. QED
      BY <2>1, <2>2, <2>3, LivesFact, ExcusedFact DEF Creates, MakesTool
  <1>3. CASE p = q
    <2>1. ~Arrives(q)
      BY <1>1, <1>3 DEF Arrives
    <2>2. reqs'[q].row # None
      BY <1>1, <1>3, SteppedFact DEF Shape, IdleReq
    <2>3. LettaDelete(q)
      BY <1>1, <1>3, <2>1, <2>2, GoesOnFact DEF GoesOn, Creates, LettaUpdate, Registers
    <2>4. reqs'[q].tool = reqs[q].tool /\ reqs[q].tool \in Tool
      BY <1>1, <1>3, <2>3, SteppedFact DEF LettaDelete, Move, Reqs, Maybe
    <2>. QED
      BY <1>1, <1>3, <2>3, <2>4, SteppedFact DEF LettaDelete, DropTool, NoTool
  <1>. QED
    BY <1>2, <1>3

\* A row gives its tool up to the list of the excused, or it is not in Letta.
LEMMA RowGivesFact ==
    ASSUME NEW q \in Req, Stepped(q), NEW r \in Row, NEW t \in Tool,
           rows[r].tool = t, rows'[r].tool # t
    PROVE  t \in excused' \/ ~letta'[t].live
  <1>0. Fresh /\ Dropped
    BY DEF Stepped, Inv
  <1>1. CASE Fails(q)
    <2>1. rows[r].by = q
      BY <1>1 DEF Fails, Fail, Rollback
    <2>. QED
      BY <1>1, <2>1 DEF Fails, Fail, Holds
  <1>2. CASE Insert(q)
    <2>1. rows[NewRow].tool = None
      BY <1>2, NewRowFact, SteppedFact DEF Insert, RowShape, NoRow
    <2>. QED
      BY <1>2, <2>1, NoneFacts, SteppedFact DEF Insert
  <1>3. CASE CommitInserts(q)
    BY <1>3, SteppedFact DEF CommitInserts, Rows
  <1>4. CASE CommitApprove(q)
    <2>1. r = reqs[q].row /\ excused' = excused \union Lost(r, t)
      BY <1>4, SteppedFact DEF CommitApprove, Activate, Rows
    <2>2. r \in torn
      BY <1>0, <1>4, <2>1, SteppedFact, NoneFacts DEF CommitApprove, Fresh, RowShape
    <2>. QED
      BY <2>1, <2>2, NoneFacts DEF Lost
  <1>5. CASE CommitRemoval(q)
    <2>1. /\ r = reqs[q].row /\ excused' = excused \union Lost(r, t) /\ letta' = letta
          /\ reqs[q].kind \in {"reject", "delete"} /\ reqs[q].pc = "commit"
      BY <1>5, SteppedFact DEF CommitRemoval
    <2>2. CASE r \in torn
      BY <2>1, <2>2, NoneFacts DEF Lost
    <2>3. CASE r \notin torn
      <3>1. reqs[q].kind = "delete" /\ reqs[q].tool = t
        BY <1>0, <2>1, <2>3, SteppedFact, NoneFacts DEF Fresh, RowShape
      <3>. QED
        BY <1>0, <2>1, <3>1, NoneFacts DEF Dropped
    <2>. QED
      BY <2>2, <2>3
  <1>6. CASE CommitUpdate(q)
    BY <1>6, StoreFact, SteppedFact DEF CommitUpdate
  <1>. QED
    BY <1>1, <1>2, <1>3, <1>4, <1>5, <1>6, SteppedFact
    DEF Effect, Arrives, Quiet, Loses, Goes, Creates, DryDelete, ApproveStale, LettaDelete,
        LettaUpdate, LettaUpdateFails, UpdateConflict

\* And a request gives its tool to a row, or likewise.
LEMMA OwnerGivesFact ==
    ASSUME NEW q \in Req, Stepped(q), NEW t \in Tool, Owning(q), reqs[q].tool = t
    PROVE  \/ Owning(q)' /\ reqs'[q].tool = t
           \/ \E r \in Row : rows'[r].tool = t
           \/ t \in excused' \/ ~letta'[t].live
  <1>0. Fresh
    BY DEF Stepped, Inv
  <1>1. t # None
    BY NoneFacts
  <1>2. CASE Arrives(q) \/ Quiet(q) \/ Loses(q) \/ Creates(q)
    BY <1>1, <1>2 DEF Arrives, IdleReq, Quiet, Loses, Goes, Creates
  <1>3. CASE Fails(q)
    BY <1>3 DEF Fails, Fail, Holds, Owning
  <1>4. CASE DryDelete(q)
    BY <1>4, SteppedFact DEF DryDelete, DropsDryTool, NoTool
  <1>5. CASE Insert(q)
    <2>1. NewRow \in Row /\ rows'[NewRow].tool = t
      BY <1>5, NewRowFact, SteppedFact DEF Insert, Stored
    <2>. QED
      BY <2>1
  <1>6. CASE CommitInserts(q)
    BY <1>1, <1>6, SteppedFact DEF CommitInserts, Shape, IdleReq
  <1>7. CASE CommitApprove(q)
    <2>1. reqs[q].row \in Row
      BY <1>7, SteppedFact DEF CommitApprove, Shape, IdleReq, Reqs, Maybe
    <2>2. rows'[reqs[q].row].tool = t
      BY <1>7, <2>1, SteppedFact DEF CommitApprove, Activate, Rows
    <2>. QED
      BY <2>1, <2>2
  <1>8. CASE ApproveStale(q)
    <2>1. reqs[q].row \in Row
      BY <1>8, SteppedFact DEF ApproveStale, Shape, IdleReq, Reqs, Maybe
    <2>2. reqs[q].row \in torn
      BY <1>0, <1>8, <2>1 DEF ApproveStale, Gone, Fresh
    <2>. QED
      BY <1>1, <1>8, <2>2 DEF ApproveStale, Lost
  <1>9. CASE reqs[q].kind \in {"reject", "delete", "update"}
    BY <1>9 DEF Owning, Holding, Registers
  <1>. QED
    BY <1>2, <1>3, <1>4, <1>5, <1>6, <1>7, <1>8, <1>9, SteppedFact
    DEF Effect, CommitRemoval, LettaDelete, LettaUpdate, LettaUpdateFails, CommitUpdate,
        UpdateConflict

LEMMA AccountedStep == ASSUME NEW q \in Req, Stepped(q) PROVE Accounted'
  <1>0. Accounted
    BY DEF Stepped, Inv
  <1>1. SUFFICES ASSUME NEW t \in Tool, letta'[t].live, t \notin excused'
                 PROVE  \/ \E r \in Row : rows'[r].tool = t
                        \/ \E p \in Req : Owning(p)' /\ reqs'[p].tool = t
    BY DEF Accounted
  <1>2. CASE t = NewTool /\ (Loses(q) \/ Creates(q))
    <2>1. Creates(q)
      BY <1>1, <1>2 DEF Loses
    <2>2. Owning(q)' /\ reqs'[q].tool = t
      BY <1>2, <2>1, NewToolFact, NoneFacts DEF Creates, MakesTool, Owning, Holding
    <2>. QED
      BY <2>2
  <1>3. CASE ~(t = NewTool /\ (Loses(q) \/ Creates(q)))
    <2>1. letta[t].live /\ t \notin excused
      BY <1>1, <1>3, LivesFact, ExcusedFact
    <2>2. CASE \E r \in Row : rows[r].tool = t
      BY <1>1, <2>2, RowGivesFact
    <2>3. CASE \E p \in Req : Owning(p) /\ reqs[p].tool = t
      <3>1. PICK p \in Req : Owning(p) /\ reqs[p].tool = t
        BY <2>3
      <3>2. CASE p # q
        BY <3>1, <3>2, SteppedFact DEF Owning, Holding
      <3>3. CASE p = q
        BY <1>1, <3>1, <3>3, OwnerGivesFact
      <3>. QED
        BY <3>2, <3>3
    <2>. QED
      BY <1>0, <2>1, <2>2, <2>3 DEF Accounted
  <1>. QED
    BY <1>2, <1>3

-----------------------------------------------------------------------------
(***************************************************************************)
(* The theorems.                                                           *)
(***************************************************************************)
LEMMA InvInit == Init => Inv
  <1>. SUFFICES ASSUME Init PROVE Inv
    OBVIOUS
  <1>1. /\ First(Tool) \in Tool /\ First(Row) \in Row
        /\ \A q \in Req : reqs[q] = IdleReq
        /\ IdleReq.row = None /\ IdleReq.tool = None /\ IdleReq.kind = "none"
    BY FirstFact, ConstantsAssumption DEF Init, IdleReq
  <1>2. \A q \in Req, r \in Row : reqs[q].row # r /\ ~Owning(q) /\ ~Using(q)
    BY <1>1, NoneFacts DEF Owning, Using
  <1>3. /\ \A r \in Row : rows[r].by = None
        /\ \A r \in Row : rows[r].tool # None => r = First(Row)
        /\ \A r \in Row : rows[r].st = "active" =>
              rows[r].tool \in Tool /\ Has(letta[rows[r].tool], rows[r].code)
        /\ \A t \in Tool : letta[t].live => rows[First(Row)].tool = t
    <2>1. CASE rows = [r \in Row |-> NoRow] /\ letta = [t \in Tool |-> NoTool]
      BY <1>1, <2>1 DEF NoRow, NoTool
    <2>2. CASE /\ letta = [t \in Tool |-> NoTool]
               /\ rows = [r \in Row |-> IF r = First(Row)
                            THEN Stored("pending", First(Name), First(Code), None) ELSE NoRow]
      BY <1>1, <2>2 DEF NoRow, NoTool, Stored
    <2>3. CASE /\ letta = [t \in Tool |-> IF t = First(Tool)
                             THEN Made(First(Name), First(Code)) ELSE NoTool]
               /\ rows = [r \in Row |-> IF r = First(Row)
                            THEN Stored("active", First(Name), First(Code), First(Tool))
                            ELSE NoRow]
      BY <1>1, <2>3 DEF NoRow, NoTool, Stored, Made, Has
    <2>. QED
      BY <2>1, <2>2, <2>3 DEF Init
  <1>4. LocksAreHeld /\ OneOwner
    <2>1. LocksAreHeld
      BY <1>3 DEF LocksAreHeld
    <2>2. OneOwner
      BY <1>1, <1>2, <1>3 DEF OneOwner
    <2>. QED
      BY <2>1, <2>2
  <1>7. OwnTool /\ Held
    BY <1>1, <1>2 DEF OwnTool, Held
  <1>5. Reviewed /\ Alone /\ Fresh /\ Dropped
    BY <1>1, <1>2 DEF Reviewed, Alone, Fresh, Dropped
  <1>6. Synced /\ Accounted
    BY <1>1, <1>2, <1>3 DEF Synced, InFlux, Accounted
  <1>. QED
    BY <1>4, <1>5, <1>6, <1>7, BaseInit DEF Inv

LEMMA StepFact ==
    ASSUME Inv, NEW q \in Req, Arrive(q) \/ Step(q) \/ Dies(q)
    PROVE  Stepped(q)
  BY RequestStep, TableStep, EffectFact DEF Inv, Stepped

LEMMA InvStep == Inv /\ [Next]_vars => Inv'
  <1>. SUFFICES ASSUME Inv, [Next]_vars PROVE Inv'
    OBVIOUS
  <1>1. CASE UNCHANGED vars
    BY <1>1
    DEF vars, Inv, Base, TypeOK, RequestShape, RowShape, LocksAreHeld, OneOwner, OwnTool,
        Held, Reviewed, Alone, Fresh, Synced, Dropped, Accounted, Owning, Holding, Using,
        Committed, InFlux
  <1>2. ASSUME NEW q \in Req, Arrive(q) \/ Step(q) \/ Dies(q) PROVE Inv'
    <2>1. Stepped(q)
      BY <1>2, StepFact
    <2>2. Base'
      BY <2>1, SteppedFact DEF Stepped, Inv, Base, TypeOK, Types, RequestShape, Moved
    <2>. QED
      BY <2>1, <2>2, LocksStep, OwnersStep, OwnToolStep, HeldStep, ReviewedStep, AloneStep,
         FreshStep, SyncedStep, DroppedStep, AccountedStep DEF Inv
  <1>. QED
    BY <1>1, <1>2 DEF Next

LEMMA InvHolds == Spec => []Inv
  BY InvInit, InvStep, PTL DEF Spec

\* Only an approval activates a pending row.
LEMMA PendingStaysFact ==
    ASSUME NEW q \in Req, Stepped(q), NEW r \in Row, rows[r].st = "pending",
           rows'[r].st = "active"
    PROVE  CommitApprove(q)
  <1>1. CASE rows'[r] = rows[r]
    BY <1>1
  <1>2. CASE Fails(q)
    BY <1>1, <1>2 DEF Fails, Fail, Rollback, NoRow
  <1>3. CASE Insert(q)
    BY <1>3, NewRowFact, SteppedFact DEF Insert
  <1>4. CASE CommitInserts(q)
    BY <1>4, SteppedFact DEF CommitInserts, Rows
  <1>5. CASE CommitRemoval(q)
    BY <1>5, SteppedFact DEF CommitRemoval, NoRow
  <1>6. CASE CommitUpdate(q)
    BY <1>6, StoreFact, SteppedFact DEF CommitUpdate
  <1>. QED
    BY <1>1, <1>2, <1>3, <1>4, <1>5, <1>6, SteppedFact
    DEF Effect, Arrives, Quiet, Loses, Goes, Creates, DryDelete, ApproveStale,
        LettaDelete, LettaUpdate, LettaUpdateFails, UpdateConflict

\* The variables keep their shapes.
THEOREM TypeCorrect == Spec => []TypeOK
  <1>1. Inv => TypeOK
    BY DEF Inv, Base
  <1>. QED
    BY <1>1, InvHolds, PTL

\* No name stays locked by a request that is gone.
THEOREM LocksHeld == Spec => []LocksAreHeld
  <1>1. Inv => LocksAreHeld
    BY DEF Inv
  <1>. QED
    BY <1>1, InvHolds, PTL

\* A row that no request is busy with, or ever tore, and Letta agree.
THEOREM RegistryCorrect == Spec => []RegistryAgrees
  <1>1. Inv => RegistryAgrees
    <2>. SUFFICES ASSUME Inv, NEW r \in Row, Settled(r)
                  PROVE  IF rows[r].st = "pending" THEN rows[r].tool = None
                         ELSE /\ rows[r].tool # None
                              /\ letta[rows[r].tool].live
                              /\ letta[rows[r].tool].code = rows[r].code
      BY DEF RegistryAgrees
    <2>1. rows[r] \in Rows /\ RowShape /\ Synced
      BY DEF Inv, Base, TypeOK
    <2>2. \A q \in Req : ~InFlux(q, r)
      BY DEF Settled, Busy, InFlux
    <2>3. rows[r].st \in {"pending", "active"} /\ r \notin torn
      BY <2>1 DEF Settled, Committed, Rows
    <2>. QED
      BY <2>1, <2>2, <2>3 DEF Synced, RowShape, Has
  <1>. QED
    BY <1>1, InvHolds, PTL

\* No tool of Letta is lost but by a failure or a lost race, and none is shared.
THEOREM ToolsAccounted == Spec => []ToolsAccountedFor
  <1>1. Inv => ToolsAccountedFor
    BY DEF Inv, Accounted, OneOwner, Owning, ToolsAccountedFor
  <1>. QED
    BY <1>1, InvHolds, PTL

\* An approval activates the code that was reviewed, and nothing else does.
THEOREM ReviewedCode == Spec => ReviewedCodeIsActivated
  <1>. DEFINE Activates ==
         \A r \in Row : rows[r].st = "pending" /\ rows'[r].st # "none" =>
            /\ rows'[r].code = rows[r].code
            /\ rows'[r].st = "active" =>
                  LET t == rows'[r].tool IN
                  t # None /\ letta'[t].live /\ letta'[t].code = rows[r].code
  <1>1. Inv /\ [Next]_vars => [Activates]_vars
    <2>. SUFFICES ASSUME Inv, Next PROVE Activates
      OBVIOUS
    <2>1. PICK q \in Req : Arrive(q) \/ Step(q) \/ Dies(q)
      BY DEF Next
    <2>2. Stepped(q) /\ Reviewed /\ Held /\ OwnTool
      BY <2>1, StepFact DEF Inv
    <2>. SUFFICES ASSUME NEW r \in Row, rows[r].st = "pending", rows'[r].st # "none"
                  PROVE  /\ rows'[r].code = rows[r].code
                         /\ rows'[r].st = "active" =>
                               LET t == rows'[r].tool IN
                               t # None /\ letta'[t].live /\ letta'[t].code = rows[r].code
      OBVIOUS
    <2>3. rows'[r].st \in {"pending", "active"}
      BY <2>2, SteppedFact DEF Rows
    <2>4. CASE rows'[r].st = "pending"
      BY <2>2, <2>4, PendingFact
    <2>5. CASE rows'[r].st = "active"
      <3>1. reqs[q].row = r /\ ~Insert(q)
        BY <2>2, <2>5, RowSaysFact, NewRowFact, SteppedFact DEF Insert
      <3>2. CommitApprove(q)
        BY <2>2, <2>5, <3>1, PendingStaysFact
      <3>3. /\ rows'[r].tool = reqs[q].tool /\ rows'[r].code = rows[r].code /\ letta' = letta
            /\ Owning(q) /\ rows[r].code = reqs[q].code
        BY <2>2, <3>1, <3>2, SteppedFact
        DEF CommitApprove, Activate, Rows, Reviewed, Owning, Holding, Registers, Shape, IdleReq
      <3>4. letta[reqs[q].tool] = Made(reqs[q].name, reqs[q].code)
        BY <2>2, <3>3 DEF Held
      <3>. QED
        BY <3>3, <3>4 DEF Made, Owning
    <2>. QED
      BY <2>3, <2>4, <2>5
  <1>. QED
    BY <1>1, InvHolds, PTL DEF Spec, ReviewedCodeIsActivated
===========================================================================
