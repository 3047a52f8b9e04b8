--------------------------- MODULE ToolRegistry ---------------------------
(***************************************************************************)
(* One user's tools.  A tool is a row of the tools table and, once it is   *)
(* active, an object of Letta that agents run.  A user creates a tool or   *)
(* imports several in one transaction; an agent proposes one, which stays  *)
(* pending, unknown to Letta, until the user approves or rejects it; a     *)
(* user updates or deletes one.  Every handler talks to Letta in the       *)
(* middle of its transaction: what it did there is not undone when the     *)
(* transaction is rolled back, and another request may have changed the    *)
(* row while it waited for the answer.                                     *)
(***************************************************************************)
EXTENDS Naturals

CONSTANTS
    Req,           \* slots for requests in flight; a slot is used again
    Row,           \* ids of rows; used again once nothing refers to them
    Tool,          \* ids of Letta's tools; used again likewise
    Name, Code,
    Kinds,         \* among AllKinds
    MaxImport,     \* tools in one import file
    MaxArrivals,   \* requests that ever arrive
    None

VARIABLES
    rows,       \* the tools table; .by is the transaction that still hides a row
    letta,      \* Letta's tools
    reqs,       \* what each request is at, and what it has read
    torn,       \* (history) rows where requests overlapped, or one failed half way
    excused,    \* (history) Letta tools that a failure or a lost race left behind
    arrivals    \* how many requests have arrived

vars == <<rows, letta, reqs, torn, excused, arrivals>>

AllKinds == {"create", "propose", "approve", "reject", "update", "delete", "import"}

ASSUME ConstantsAssumption ==
    /\ Kinds \subseteq AllKinds /\ MaxImport \in Nat /\ MaxArrivals \in Nat
    /\ Row # {} /\ Tool # {} /\ Name # {} /\ Code # {}
    /\ None \notin Req \union Row \union Tool \union Name \union Code

Maybe(S) == S \union {None}
NoRow == [st |-> "none", name |-> None, code |-> None, tool |-> None, by |-> None]
Rows == [st : {"none", "pending", "active"}, name : Maybe(Name), code : Maybe(Code),
         tool : Maybe(Tool), by : Maybe(Req)]
NoTool == [live |-> FALSE, name |-> None, code |-> None]
Tools == [live : BOOLEAN, name : Maybe(Name), code : Maybe(Code)]

\* A tool as it is stored, and as Letta has it.
Stored(st, n, c, t) == [st |-> st, name |-> n, code |-> c, tool |-> t, by |-> None]
Made(n, c) == [live |-> TRUE, name |-> n, code |-> c]
First(S) == CHOOSE x \in S : TRUE

\* row: the row the request was asked for; name, code: what it will store;
\* tool: what it has registered, or the tool its row had when it was read;
\* sets: the columns an update changes; known: the names an import avoids;
\* left: the tools an import still has to look at.
IdleReq == [kind |-> "none", pc |-> "idle", row |-> None, name |-> None, code |-> None,
            tool |-> None, sets |-> {}, known |-> {}, left |-> 0]
Reqs == [kind : Kinds \union {"none"},
         pc : {"idle", "next", "dry", "undry", "register", "letta", "insert", "commit"},
         row : Maybe(Row), name : Maybe(Name), code : Maybe(Code), tool : Maybe(Tool),
         sets : SUBSET {"name", "code"}, known : SUBSET Name, left : 0..MaxImport]

\* The user has no tools yet, or one that was proposed or created earlier.
Init ==
    /\ \/ rows = [r \in Row |-> NoRow] /\ letta = [t \in Tool |-> NoTool]
       \/ /\ letta = [t \in Tool |-> NoTool]
          /\ rows = [r \in Row |-> IF r = First(Row)
                       THEN Stored("pending", First(Name), First(Code), None) ELSE NoRow]
       \/ /\ letta = [t \in Tool |-> IF t = First(Tool)
                       THEN Made(First(Name), First(Code)) ELSE NoTool]
          /\ rows = [r \in Row |-> IF r = First(Row)
                       THEN Stored("active", First(Name), First(Code), First(Tool)) ELSE NoRow]
    /\ reqs = [q \in Req |-> IdleReq]
    /\ torn = {} /\ excused = {} /\ arrivals = 0

Committed(r) == rows[r].st # "none" /\ rows[r].by = None
\* check_unique_for_user, and the unique constraint on committed rows.
Taken(n) == \E r \in Row : Committed(r) /\ rows[r].name = n
\* Another transaction has inserted the name: PostgreSQL makes us wait.
Locked(q, n) == \E r \in Row : rows[r].by \notin {None, q} /\ rows[r].name = n
Busy(r) == \E q \in Req : reqs[q].row = r

Move(q, fields) == reqs' = [reqs EXCEPT ![q] = fields]
End(q) == Move(q, IdleReq)

\* An id nobody refers to any more.
UnusedTools == {t \in Tool : /\ ~letta[t].live
                             /\ \A r \in Row : rows[r].tool # t
                             /\ \A q \in Req : reqs[q].tool # t}
UnusedRows == {r \in Row : rows[r].st = "none" /\ ~Busy(r)}
NewTool == First(UnusedTools)
NewRow == First(UnusedRows)

\* The tools that only request q knows of, or its transaction.
Registers == {"create", "import", "approve", "propose"}
Holding(q) == reqs[q].kind \in Registers
Holds(q) == {t \in Tool : \/ Holding(q) /\ reqs[q].tool = t
                          \/ \E r \in Row : rows[r].by = q /\ rows[r].tool = t}

\* The session is closed without a commit.  Letta keeps what it was told.
Rollback(q) == rows' = [r \in Row |-> IF rows[r].by = q THEN NoRow ELSE rows[r]]
Fail(q) ==
    /\ Rollback(q)
    /\ excused' = excused \union Holds(q)
    /\ End(q)

-----------------------------------------------------------------------------
\* A request arrives, is authorised, and reads what it needs.  One that is
\* refused here (404, 409, 403, dangerous source) changes nothing.
Begin(q, fields) ==
    /\ reqs[q].pc = "idle" /\ fields.kind \in Kinds
    /\ arrivals < MaxArrivals /\ arrivals' = arrivals + 1
    /\ Move(q, fields)
    /\ UNCHANGED <<rows, letta, excused>>

BeginCreate(q, n, c) ==
    /\ ~Taken(n)
    /\ Begin(q, [IdleReq EXCEPT !.kind = "create", !.pc = "register", !.name = n, !.code = c])
    /\ UNCHANGED torn

\* A name that is no identifier ends the dry run before it starts.
BeginPropose(q, n, c) ==
    /\ ~Taken(n)
    /\ \E p \in {"dry", "insert"} :
          Begin(q, [IdleReq EXCEPT !.kind = "propose", !.pc = p, !.name = n, !.code = c])
    /\ UNCHANGED torn

BeginImport(q) ==
    /\ Begin(q, [IdleReq EXCEPT !.kind = "import", !.pc = "next", !.left = MaxImport,
                                !.known = {n \in Name : Taken(n)}])
    /\ UNCHANGED torn

\* A request for a row another request is busy with.
BeginOn(q, r, fields) ==
    /\ Committed(r)
    /\ Begin(q, [fields EXCEPT !.row = r])
    /\ torn' = IF Busy(r) THEN torn \union {r} ELSE torn

BeginApprove(q, r) ==
    /\ rows[r].st = "pending"
    /\ BeginOn(q, r, [IdleReq EXCEPT !.kind = "approve", !.pc = "register",
                                     !.name = rows[r].name, !.code = rows[r].code])

BeginReject(q, r) ==
    /\ rows[r].st = "pending"
    /\ BeginOn(q, r, [IdleReq EXCEPT !.kind = "reject", !.pc = "commit"])

BeginDelete(q, r) ==
    BeginOn(q, r, [IdleReq EXCEPT !.kind = "delete", !.pc = "letta", !.tool = rows[r].tool])

\* c is None for an update that brings neither code nor schema nor packages;
\* Letta hears of the others only.
\* Variant: a row that has no tool in Letta yet is updated without it.
CallsLettaIfKnown(r, c) == c # None /\ rows[r].tool # None
CallsLetta(r, c) == c # None
UpdateRequest(r, n, c) ==
    [IdleReq EXCEPT !.kind = "update",
        !.pc = IF CallsLetta(r, c) THEN "letta" ELSE "commit",
        !.name = n, !.code = IF c = None THEN rows[r].code ELSE c,
        !.tool = IF CallsLetta(r, c) THEN rows[r].tool ELSE None,
        !.sets = {s \in {"name", "code"} : \/ s = "name" /\ n # rows[r].name
                                           \/ s = "code" /\ c \notin {None, rows[r].code}}]

BeginUpdate(q, r, n, c) ==
    /\ n # rows[r].name => ~Taken(n)
    /\ BeginOn(q, r, UpdateRequest(r, n, c))

-----------------------------------------------------------------------------
\* The dry run of a proposal makes a tool in Letta and deletes it again; a
\* failure of either is written into the proposal, or ignored.
DryRun(q) ==
    /\ reqs[q].pc = "dry" /\ UnusedTools # {}
    /\ letta' = [letta EXCEPT ![NewTool] = Made(reqs[q].name, reqs[q].code)]
    /\ \/ Move(q, [reqs[q] EXCEPT !.pc = "undry", !.tool = NewTool])
          /\ excused' = excused \ {NewTool}
       \/ Move(q, [reqs[q] EXCEPT !.pc = "insert"])     \* the answer is lost
          /\ excused' = excused \union {NewTool}
    /\ UNCHANGED <<rows, torn, arrivals>>

DryRunFails(q) ==
    /\ reqs[q].pc = "dry"
    /\ Move(q, [reqs[q] EXCEPT !.pc = "insert"])
    /\ UNCHANGED <<rows, letta, torn, excused, arrivals>>

DropsDryTool(q) ==
    \/ letta' = [letta EXCEPT ![reqs[q].tool] = NoTool] /\ excused' = excused
    \/ letta' = letta /\ excused' = excused \union {reqs[q].tool}    \* swallowed
DryDelete(q) ==
    /\ reqs[q].pc = "undry"
    /\ DropsDryTool(q)
    /\ Move(q, [reqs[q] EXCEPT !.pc = "insert", !.tool = None])
    /\ UNCHANGED <<rows, torn, arrivals>>

-----------------------------------------------------------------------------
\* The next tool of an import file gets a name that the import does not know
\* to be taken, if need be with a suffix.
ImportNext(q, n, c) ==
    /\ reqs[q].pc = "next" /\ reqs[q].left > 0
    /\ n \notin reqs[q].known /\ ~Taken(n)
    /\ Move(q, [reqs[q] EXCEPT !.pc = "register", !.name = n, !.code = c])
    /\ UNCHANGED <<rows, letta, torn, excused, arrivals>>

\* One tool of an import is done with; only a stored one makes its name known.
NextTool(q, known) ==
    [reqs[q] EXCEPT !.pc = "next", !.left = @ - 1, !.known = known,
                    !.name = None, !.code = None, !.tool = None]

\* No name, source that is refused, or a name that was taken meanwhile.
ImportSkip(q) ==
    /\ reqs[q].pc = "next" /\ reqs[q].left > 0
    /\ Move(q, NextTool(q, reqs[q].known))
    /\ UNCHANGED <<rows, letta, torn, excused, arrivals>>

\* register_tool_with_letta.
Register(q) ==
    /\ reqs[q].pc = "register" /\ UnusedTools # {}
    /\ letta' = [letta EXCEPT ![NewTool] = Made(reqs[q].name, reqs[q].code)]
    /\ excused' = excused \ {NewTool}
    /\ Move(q, [reqs[q] EXCEPT !.tool = NewTool,
                    !.pc = IF reqs[q].kind = "approve" THEN "commit" ELSE "insert"])
    /\ UNCHANGED <<rows, torn, arrivals>>

\* Letta fails, or its answer is lost: an import goes on with the next tool.
RegisterFails(q) ==
    /\ reqs[q].pc = "register"
    /\ \/ UNCHANGED <<letta, excused>>
       \/ /\ UnusedTools # {}
          /\ letta' = [letta EXCEPT ![NewTool] = Made(reqs[q].name, reqs[q].code)]
          /\ excused' = excused \union {NewTool}
    /\ Move(q, IF reqs[q].kind = "import" THEN NextTool(q, reqs[q].known) ELSE IdleReq)
    /\ UNCHANGED <<rows, torn, arrivals>>

\* db.add and flush: the row is there for this transaction only.
\* Variant: a status that no other handler knows.
InsertStatusProposed(q) == IF reqs[q].kind = "propose" THEN "proposed" ELSE "active"
InsertStatus(q) == IF reqs[q].kind = "propose" THEN "pending" ELSE "active"
Insert(q) ==
    /\ reqs[q].pc = "insert" /\ UnusedRows # {}
    /\ ~Locked(q, reqs[q].name) /\ ~Taken(reqs[q].name)
    /\ rows' = [rows EXCEPT ![NewRow] =
                  [Stored(InsertStatus(q), reqs[q].name, reqs[q].code, reqs[q].tool)
                      EXCEPT !.by = q]]
    /\ torn' = torn \ {NewRow}
    /\ Move(q, IF reqs[q].kind = "import"
               THEN NextTool(q, reqs[q].known \union {reqs[q].name})
               ELSE [reqs[q] EXCEPT !.pc = "commit", !.tool = None])
    /\ UNCHANGED <<letta, excused, arrivals>>

\* Somebody committed the name after it was checked.  The flush undoes the
\* transaction; an import catches the error, but its session is dead: the
\* rest of the file is skipped, and the query that follows the loop fails.
InsertConflict(q) ==
    /\ reqs[q].pc = "insert"
    /\ ~Locked(q, reqs[q].name) /\ Taken(reqs[q].name)
    /\ Fail(q)
    /\ UNCHANGED <<letta, torn, arrivals>>

\* Imports wait for each other's names: PostgreSQL aborts one of them.
WaitsFor(p, q) == /\ reqs[p].pc = "insert"
                  /\ \E r \in Row : rows[r].by = q /\ rows[r].name = reqs[p].name
Deadlock(q) ==
    /\ \E S \in SUBSET Req : q \in S /\ \A p \in S : \E x \in S : WaitsFor(p, x)
    /\ Fail(q)
    /\ UNCHANGED <<letta, torn, arrivals>>

\* The commit of a new row, or of the rows of an import.
CommitInserts(q) ==
    /\ \/ reqs[q].kind \in {"create", "propose"} /\ reqs[q].pc = "commit"
       \/ reqs[q].kind = "import" /\ reqs[q].pc = "next" /\ reqs[q].left = 0
    /\ rows' = [r \in Row |-> IF rows[r].by = q THEN [rows[r] EXCEPT !.by = None]
                                                ELSE rows[r]]
    /\ End(q)
    /\ UNCHANGED <<letta, torn, excused, arrivals>>

-----------------------------------------------------------------------------
\* The row of an overlapped request goes, or changes hands: its tool is lost.
Lost(r, t) == IF r \in torn THEN {t} \ {None} ELSE {}
\* The update of a row that has been deleted meanwhile fails (StaleDataError).
Gone(q) == ~Committed(reqs[q].row)

Activate(q) ==
    rows' = [rows EXCEPT ![reqs[q].row].st = "active", ![reqs[q].row].tool = reqs[q].tool]
CommitApprove(q) ==
    /\ reqs[q].kind = "approve" /\ reqs[q].pc = "commit" /\ ~Gone(q)
    /\ Activate(q)
    /\ excused' = excused \union Lost(reqs[q].row, rows[reqs[q].row].tool)
    /\ End(q)
    /\ UNCHANGED <<letta, torn, arrivals>>

ApproveStale(q) ==
    /\ reqs[q].kind = "approve" /\ reqs[q].pc = "commit" /\ Gone(q)
    /\ excused' = excused \union Lost(reqs[q].row, reqs[q].tool)
    /\ End(q)
    /\ UNCHANGED <<rows, letta, torn, arrivals>>

\* reject_proposal and delete_tool; a row that is gone already is no error.
CommitRemoval(q) ==
    /\ reqs[q].kind \in {"reject", "delete"} /\ reqs[q].pc = "commit"
    /\ IF Gone(q) THEN UNCHANGED <<rows, excused>>
       ELSE /\ rows' = [rows EXCEPT ![reqs[q].row] = NoRow]
            /\ excused' = excused \union Lost(reqs[q].row, rows[reqs[q].row].tool)
    /\ End(q)
    /\ UNCHANGED <<letta, torn, arrivals>>

\* delete_tool: Letta deletes the tool, or fails and is ignored.
\* Variant: only the row is deleted.
ForgetTool(q) == letta' = letta /\ excused' = excused
DropTool(q) ==
    \/ reqs[q].tool # None
       /\ letta' = [letta EXCEPT ![reqs[q].tool] = NoTool] /\ excused' = excused
    \/ letta' = letta /\ excused' = excused \union ({reqs[q].tool} \ {None})
LettaDelete(q) ==
    /\ reqs[q].kind = "delete" /\ reqs[q].pc = "letta"
    /\ DropTool(q)
    /\ Move(q, [reqs[q] EXCEPT !.pc = "commit"])
    /\ UNCHANGED <<rows, torn, arrivals>>

\* update_tool_with_letta.
LettaUpdate(q) ==
    /\ reqs[q].kind = "update" /\ reqs[q].pc = "letta"
    /\ reqs[q].tool # None /\ letta[reqs[q].tool].live
    /\ letta' = [letta EXCEPT ![reqs[q].tool] = Made(reqs[q].name, reqs[q].code)]
    /\ Move(q, [reqs[q] EXCEPT !.pc = "commit"])
    /\ UNCHANGED <<rows, torn, excused, arrivals>>

\* Letta fails, which it always does without the id of a tool; or its answer
\* is lost.  The request fails.
LettaUpdateFails(q) ==
    /\ reqs[q].kind = "update" /\ reqs[q].pc = "letta"
    /\ \/ UNCHANGED <<letta, torn>>
       \/ /\ reqs[q].tool # None /\ letta[reqs[q].tool].live
          /\ letta' = [letta EXCEPT ![reqs[q].tool] = Made(reqs[q].name, reqs[q].code)]
          /\ torn' = torn \union {reqs[q].row}
    /\ End(q)
    /\ UNCHANGED <<rows, excused, arrivals>>

\* The UPDATE statement names the columns that changed, and there is none when
\* nothing did.  A new name may be locked, or taken by now.
Renames(q) == "name" \in reqs[q].sets
UpdateFails(q) == reqs[q].sets # {} /\ (Gone(q) \/ (Renames(q) /\ Taken(reqs[q].name)))
\* Variant: the row keeps the old code.
StoreNameOnly(q) == [rows[reqs[q].row] EXCEPT !.name = reqs[q].name]
Store(q) ==
    [rows[reqs[q].row] EXCEPT !.name = IF Renames(q) THEN reqs[q].name ELSE @,
                              !.code = IF "code" \in reqs[q].sets THEN reqs[q].code ELSE @]
CommitUpdate(q) ==
    /\ reqs[q].kind = "update" /\ reqs[q].pc = "commit"
    /\ Renames(q) => ~Locked(q, reqs[q].name)
    /\ ~UpdateFails(q)
    /\ rows' = IF reqs[q].sets = {} THEN rows ELSE [rows EXCEPT ![reqs[q].row] = Store(q)]
    /\ End(q)
    /\ UNCHANGED <<letta, torn, excused, arrivals>>

\* The row whose tool in Letta a request has changed already.
Touched(q) ==
    IF reqs[q].kind \in {"update", "delete"} /\ reqs[q].pc = "commit" /\ reqs[q].tool # None
    THEN {reqs[q].row} ELSE {}
UpdateConflict(q) ==
    /\ reqs[q].kind = "update" /\ reqs[q].pc = "commit"
    /\ Renames(q) => ~Locked(q, reqs[q].name)
    /\ UpdateFails(q)
    /\ torn' = torn \union Touched(q)
    /\ End(q)
    /\ UNCHANGED <<rows, letta, excused, arrivals>>

\* A crash of the backend, a lost connection, an exception nobody expects.
Dies(q) ==
    /\ reqs[q].pc # "idle"
    /\ Fail(q)
    /\ torn' = torn \union Touched(q)
    /\ UNCHANGED <<letta, arrivals>>

Arrive(q) ==
    \/ \E n \in Name, c \in Code : BeginCreate(q, n, c) \/ BeginPropose(q, n, c)
    \/ BeginImport(q)
    \/ \E r \in Row : BeginApprove(q, r) \/ BeginReject(q, r) \/ BeginDelete(q, r)
    \/ \E r \in Row, n \in Name, c \in Maybe(Code) : BeginUpdate(q, r, n, c)

Step(q) ==
    \/ DryRun(q) \/ DryRunFails(q) \/ DryDelete(q)
    \/ \E n \in Name, c \in Code : ImportNext(q, n, c)
    \/ ImportSkip(q) \/ Register(q) \/ RegisterFails(q)
    \/ Insert(q) \/ InsertConflict(q) \/ Deadlock(q) \/ CommitInserts(q)
    \/ CommitApprove(q) \/ ApproveStale(q) \/ CommitRemoval(q)
    \/ LettaDelete(q) \/ LettaUpdate(q) \/ LettaUpdateFails(q)
    \/ CommitUpdate(q) \/ UpdateConflict(q)

Next == \E q \in Req : Arrive(q) \/ Step(q) \/ Dies(q)

Spec == Init /\ [][Next]_vars

-----------------------------------------------------------------------------
\* The shapes of the variables; an absent row or tool is blank.
TypeOK ==
    /\ rows \in [Row -> Rows] /\ letta \in [Tool -> Tools] /\ reqs \in [Req -> Reqs]
    /\ torn \subseteq Row /\ excused \subseteq Tool /\ arrivals \in Nat

Settled(r) == Committed(r) /\ r \notin torn /\ ~Busy(r)

\* When no request is busy with a tool, none ever overlapped on it and none
\* failed half way, an active tool exists in Letta with the code of its row,
\* and a pending one has no tool in Letta (create_tool, approve_proposal,
\* update_tool, delete_tool, the import).
RegistryAgrees ==
    \A r \in Row : Settled(r) =>
        IF rows[r].st = "pending" THEN rows[r].tool = None
        ELSE /\ rows[r].tool # None
             /\ letta[rows[r].tool].live /\ letta[rows[r].tool].code = rows[r].code

\* Every tool in Letta belongs to a row, or to a request that is still at work,
\* unless a failed call, a failed transaction or a lost race left it behind;
\* and whatever happens, it never belongs to two rows.
ToolsAccountedFor ==
    /\ \A t \in Tool : letta[t].live /\ t \notin excused =>
          \/ \E r \in Row : rows[r].tool = t
          \/ \E q \in Req : Holding(q) /\ reqs[q].tool = t
    /\ \A r, s \in Row : rows[r].tool = rows[s].tool /\ rows[r].tool # None => r = s

\* What the user reviewed is what agents run: a proposal's code does not change
\* while it is pending, and at the moment it is activated, Letta has a tool
\* with that very code, whatever else goes on.
ReviewedCodeIsActivated ==
    [][\A r \in Row : rows[r].st = "pending" /\ rows'[r].st # "none" =>
          /\ rows'[r].code = rows[r].code
          /\ rows'[r].st = "active" =>
                LET t == rows'[r].tool IN
                t # None /\ letta'[t].live /\ letta'[t].code = rows[r].code]_vars

\* Nobody waits for a name in vain: a row is hidden by a request that is still
\* at work, and that either has only its commit left, or is an import (flush
\* in register_and_store_tool, _import_tools, the rollback of a dead session).
LocksAreHeld ==
    \A r \in Row : rows[r].by # None =>
        LET p == rows[r].by IN
        /\ rows[r].st # "none"
        /\ \/ reqs[p].kind \in {"create", "propose"} /\ reqs[p].pc = "commit"
           \/ reqs[p].kind = "import" /\ rows[r].name \in reqs[p].known

===========================================================================
