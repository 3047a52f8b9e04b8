---------------------------- MODULE ToolToggle ----------------------------
(***************************************************************************)
(* One user's agent_tool_creation setting, and the tools and the status    *)
(* block of one of the user's agents that must follow it.  The setting is  *)
(* a row of user_settings, made on first use inside the transaction of     *)
(* whichever request comes first; the tools and the block live in Letta.   *)
(* Every chat and workflow request brings the four tools into line, one    *)
(* after the other, before it sends its message; each call to Letta may    *)
(* fail, and most of those failures are swallowed.  While the agent works  *)
(* on the message, its tools call back into the backend, which reads the   *)
(* setting in a transaction of its own.                                    *)
(***************************************************************************)
EXTENDS Integers, Sequences, FiniteSets

CONSTANTS
    Requests,      \* requests that reach the backend; each is served once
    Kinds,         \* among AllKinds
    Tools,         \* the order of the calls in ensure_tool_creation
    MaxRuns,       \* chat and workflow requests in flight at once
    MaxFailures,   \* failed calls to Letta and aborted requests
    None

VARIABLES
    row,        \* the user's committed settings row: None, or the setting
    holder,     \* the request whose uncommitted transaction made the row
    attached,   \* the toggled tools on the agent
    block,      \* the text of its workflow_context block
    req,        \* what each request is at, and what it has read
    failures

vars == <<row, holder, attached, block, req, failures>>

\* Requests with a user message, and those with a workflow's prompt; the two
\* streams commit before they call the agent; "put" is update_settings.
ChatKinds == {"chat", "chat_stream", "eval"}
AllKinds == ChatKinds \union {"run", "run_stream", "put"}
Streams == {"chat_stream", "run_stream"}
ToolSet == {Tools[i] : i \in 1..Len(Tools)}

ASSUME ConstantsAssumption ==
    /\ Kinds \subseteq AllKinds /\ MaxRuns \in Nat /\ MaxFailures \in Nat
    /\ Tools \in Seq(STRING) /\ Tools # << >> /\ None \notin BOOLEAN \union Requests \union STRING

\* What a new row says of the tools, and a variant of it.
DefaultOn == TRUE
DefaultSetting == FALSE

\* The text a config gives the block and the note.  What counts is the
\* polarity, and whose text it is: one text is shared by the four when the
\* setting is on, each has its own when it is off.
StatusText(t, on) == IF on THEN <<on, None>> ELSE <<on, t>>
NoText == <<None, None>>
Texts == {NoText, <<TRUE, None>>} \union {<<FALSE, t>> : t \in ToolSet}

\* i: the tool whose turn it is; on: the setting as read for it; found: the
\* tool was listed; pinned: the setting is the one read at the start; first:
\* the first tool that was switched (its config gives the note); sent: the
\* note that went out with the message; clean (history): since the request
\* began, all its calls went through, and nobody else moved tool or setting;
\* shared (history): it is a chat or run that began beside another.
Fresh == [pc |-> "idle", kind |-> "none", i |-> 1, on |-> FALSE, found |-> FALSE,
          pinned |-> FALSE, first |-> None, note |-> NoText, sent |-> NoText,
          called |-> FALSE, clean |-> TRUE, shared |-> FALSE]

Request ==
    [pc : {"idle", "read", "insert", "apply", "list", "switch", "block", "ask",
           "asked", "calling", "done", "failed"},
     kind : Kinds \union {"none"}, i : 1..Len(Tools), on : BOOLEAN, found : BOOLEAN,
     pinned : BOOLEAN, first : ToolSet \union {None}, note : Texts, sent : Texts,
     called : BOOLEAN, clean : BOOLEAN, shared : BOOLEAN]

\* The agent is new, or earlier requests have left it as they do when no call
\* fails: the block is about the last tool that was switched, and a setting that
\* changed between two tools has left some of them on either side.
Left ==
    /\ row # None /\ attached \in SUBSET ToolSet
    /\ \/ attached # {} /\ block = StatusText(None, TRUE)
       \/ \E t \in ToolSet \ attached : block = StatusText(t, FALSE)

Init ==
    /\ row \in {None, TRUE, FALSE}
    /\ holder = None
    /\ (attached = {} /\ block = NoText) \/ Left
    /\ req = [r \in Requests |-> Fresh]
    /\ failures = 0

InFlight(r) == req[r].pc \notin {"idle", "done", "failed"}
RunsInFlight == {r \in Requests : InFlight(r) /\ req[r].kind # "put"}
Move(r, fields) == req' = [req EXCEPT ![r] = fields]
\* Somebody moved a tool or the setting: no other request is clean any more.
MoveAndDisturb(r, fields) ==
    req' = [q \in Requests |-> IF q = r THEN fields ELSE [req[q] EXCEPT !.clean = FALSE]]
\* The transaction of r ends; what it inserted is kept or dropped.
\* Variant: the row that an ended transaction inserted stays locked.
RollbackLeaks(r) == holder' = holder
Rollback(r) == holder' = IF holder = r THEN None ELSE holder
RowAfterCommit(r) == IF holder = r THEN DefaultSetting ELSE row

CountFailure == failures < MaxFailures /\ failures' = failures + 1

-----------------------------------------------------------------------------
\* A request arrives.  The eval route looks at the settings before anything
\* else and keeps the object, so that later queries return it as it is.
Begin(r, k) ==
    /\ req[r].pc = "idle"
    /\ k # "put" => Cardinality(RunsInFlight) < MaxRuns
    /\ Move(r, [Fresh EXCEPT !.pc = "read", !.kind = k, !.pinned = k = "eval",
                             !.shared = k # "put" /\ RunsInFlight # {}])
    /\ UNCHANGED <<row, holder, attached, block, failures>>

\* get_or_create_settings: the query sees the committed row or the one of its
\* own transaction.
Setting(r) == IF holder = r THEN DefaultSetting ELSE row = TRUE
HasSettings(q, on) ==
    [q EXCEPT !.pc = IF q.kind = "put" THEN "apply" ELSE "list", !.on = on]

ReadSettings(r) ==
    /\ req[r].pc = "read" /\ (row # None \/ holder = r)
    /\ Move(r, HasSettings(req[r], Setting(r)))
    /\ UNCHANGED <<row, holder, attached, block, failures>>

\* There is no row: insert one.  A second insert waits for the first one's
\* transaction; it goes on if that is rolled back, and fails if it commits.
ToInsert(r) ==
    /\ req[r].pc = "read" /\ row = None /\ holder # r
    /\ Move(r, [req[r] EXCEPT !.pc = "insert"])
    /\ UNCHANGED <<row, holder, attached, block, failures>>

\* Without a row eval_enabled is off as well, and the eval request is refused.
InsertSettings(r) ==
    /\ req[r].pc = "insert" /\ holder = None
    /\ IF row = None /\ req[r].kind # "eval"
       THEN holder' = r /\ Move(r, HasSettings(req[r], DefaultSetting))
       ELSE holder' = holder /\ Move(r, [req[r] EXCEPT !.pc = "failed"])
    /\ UNCHANGED <<row, attached, block, failures>>

\* update_settings: only a changed value is written; get_db commits.
Apply(r, v) ==
    /\ req[r].pc = "apply"
    /\ row' = IF v # req[r].on \/ holder = r THEN v ELSE row
    /\ Rollback(r)
    /\ IF (row' = TRUE) # (row = TRUE)
       THEN MoveAndDisturb(r, [req[r] EXCEPT !.pc = "done"])
       ELSE Move(r, [req[r] EXCEPT !.pc = "done"])
    /\ UNCHANGED <<attached, block, failures>>

-----------------------------------------------------------------------------
\* _ensure_tool_setting, for tool number i of request r.
Tool(r) == Tools[req[r].i]
NeedsAttach(q) == q.on /\ ~q.found
\* Variant: a tool that is listed is left alone.
NeverDetach(q) == FALSE
NeedsDetach(q) == ~q.on /\ q.found

\* Variant: the loop goes one too far.
NextToolTooFar(q) ==
    IF q.i > Len(Tools) THEN [q EXCEPT !.pc = "ask"] ELSE [q EXCEPT !.i = q.i + 1]

\* The next tool, if there is one: its setting is queried again, and the
\* session holds no object that would hide a newer row, except for eval.
NextTool(q) ==
    IF q.i = Len(Tools) THEN [q EXCEPT !.pc = "ask"]
    ELSE [q EXCEPT !.i = q.i + 1, !.pc = IF q.pinned THEN "list" ELSE "read"]

AfterList(q) ==
    IF NeedsAttach(q) \/ NeedsDetach(q) THEN [q EXCEPT !.pc = "switch"] ELSE NextTool(q)

List(r) ==
    /\ req[r].pc = "list"
    /\ Move(r, AfterList([req[r] EXCEPT !.found = Tool(r) \in attached]))
    /\ UNCHANGED <<row, holder, attached, block, failures>>

\* A failed list is taken for an agent without the tool.
ListFails(r) ==
    /\ req[r].pc = "list" /\ CountFailure
    /\ Move(r, AfterList([req[r] EXCEPT !.found = FALSE, !.clean = FALSE]))
    /\ UNCHANGED <<row, holder, attached, block>>

Switch(r) ==
    /\ req[r].pc = "switch"
    /\ attached' = IF req[r].on THEN attached \union {Tool(r)} ELSE attached \ {Tool(r)}
    /\ IF attached' # attached
       THEN MoveAndDisturb(r, [req[r] EXCEPT !.pc = "block"])
       ELSE Move(r, [req[r] EXCEPT !.pc = "block"])
    /\ UNCHANGED <<row, holder, block, failures>>

\* Creating, attaching or detaching the tool fails: only the log says so.
SwitchFails(r) ==
    /\ req[r].pc = "switch" /\ CountFailure
    /\ Move(r, [req[r] EXCEPT !.pc = "block", !.clean = FALSE])
    /\ UNCHANGED <<row, holder, attached, block>>

\* The note is that of the first tool switched, whether or not it worked.
Noted(q, t) ==
    IF q.first = None THEN [q EXCEPT !.first = t, !.note = StatusText(t, q.on)] ELSE q

\* Variant: the block is only updated when a tool is attached.
UpdateBlockOn(r) ==
    /\ req[r].pc = "block"
    /\ block' = IF req[r].on THEN StatusText(Tool(r), TRUE) ELSE block
    /\ Move(r, NextTool(Noted(req[r], Tool(r))))
    /\ UNCHANGED <<row, holder, attached, failures>>

UpdateBlock(r) ==
    /\ req[r].pc = "block"
    /\ block' = StatusText(Tool(r), req[r].on)
    /\ Move(r, NextTool(Noted(req[r], Tool(r))))
    /\ UNCHANGED <<row, holder, attached, failures>>

UpdateBlockFails(r) ==
    /\ req[r].pc = "block" /\ CountFailure
    /\ Move(r, NextTool(Noted([req[r] EXCEPT !.clean = FALSE], Tool(r))))
    /\ UNCHANGED <<row, holder, attached, block>>

-----------------------------------------------------------------------------
\* The message goes out: a chat's with the note, a workflow's without.  A
\* stream commits first, and with that the row it may have made.
Note(q) == IF q.kind \in ChatKinds THEN q.note ELSE NoText

Ask(r) ==
    /\ req[r].pc = "ask"
    /\ IF req[r].kind \in Streams
       THEN row' = RowAfterCommit(r) /\ Rollback(r)
       ELSE UNCHANGED <<row, holder>>
    /\ Move(r, [req[r] EXCEPT !.pc = "asked", !.sent = Note(req[r])])
    /\ UNCHANGED <<attached, block, failures>>

\* A tool of the agent calls back (tools/propose/agent, docs/fetch/agent): the
\* answer needs a settings row that no open transaction is about to insert.
CallBack(r) ==
    /\ req[r].pc = "asked" /\ attached # {} /\ ~req[r].called
    /\ Move(r, [req[r] EXCEPT !.pc = "calling", !.called = TRUE])
    /\ UNCHANGED <<row, holder, attached, block, failures>>

CallReturns(r) ==
    /\ req[r].pc = "calling" /\ (row # None \/ holder = None)
    /\ Move(r, [req[r] EXCEPT !.pc = "asked"])
    /\ UNCHANGED <<row, holder, attached, block, failures>>

\* The agent has answered, and get_db commits.
Answer(r) ==
    /\ req[r].pc = "asked"
    /\ row' = RowAfterCommit(r) /\ Rollback(r)
    /\ Move(r, [req[r] EXCEPT !.pc = "done"])
    /\ UNCHANGED <<attached, block, failures>>

\* An exception, a refused eval, a client that leaves, an agent that fails.
Abort(r) ==
    /\ InFlight(r) /\ CountFailure
    /\ Rollback(r)
    /\ Move(r, [req[r] EXCEPT !.pc = "failed"])
    /\ UNCHANGED <<row, attached, block>>

-----------------------------------------------------------------------------
Moves(r) ==
    \/ ReadSettings(r) \/ ToInsert(r) \/ InsertSettings(r) \/ \E v \in BOOLEAN : Apply(r, v)
    \/ List(r) \/ Switch(r) \/ UpdateBlock(r)
    \/ Ask(r) \/ CallReturns(r) \/ Answer(r)
Mishaps(r) == ListFails(r) \/ SwitchFails(r) \/ UpdateBlockFails(r) \/ Abort(r)

Next ==
    \E r \in Requests :
        (\E k \in Kinds : Begin(r, k)) \/ Moves(r) \/ CallBack(r) \/ Mishaps(r)

Spec == Init /\ [][Next]_vars

\* The event loop resumes every request that can go on.
FairSpec == Spec /\ \A r \in Requests : WF_vars(Moves(r))

-----------------------------------------------------------------------------
\* The row, the agent and the requests (UserSettings, ToolToggleConfig).
TypeOK ==
    /\ row \in {None, TRUE, FALSE} /\ holder \in Requests \union {None}
    /\ attached \subseteq ToolSet /\ block \in Texts
    /\ failures \in 0..MaxFailures
    /\ req \in [Requests -> Request]

\* "When enabled, all are attached.  When disabled, all are detached"
\* (ensure_tool_creation): whatever earlier failures and races left on the
\* agent, one undisturbed request leaves exactly what the setting says.
CleanRequestSettles ==
    \A r \in Requests :
        req[r].pc = "ask" /\ req[r].clean => attached = IF row = TRUE THEN ToolSet ELSE {}

\* A tool of the agent that calls back into the backend never waits for the
\* uncommitted settings row of the very request that waits for the agent:
\* whoever can still insert the row serves an agent without such tools.
NoSelfWait == \A r \in Requests : req[r].pc = "calling" => row # None \/ holder = None

\* An undisturbed request sends its message to an agent whose block is true of
\* the tools it has: all of them where it says so, none where it does not,
\* whatever part of the tools earlier changes of the setting left beside it
\* (_ensure_tool_setting).  Each of the loop's updates speaks of all the tools
\* after one was moved, so a request is not meant whose setting was changed
\* between two tools (it is not clean), nor an agent for which a call failed
\* before or two requests overlapped: those leave a block that nothing mends.
BlockAgrees ==
    failures = 0 /\ (\A q \in Requests : ~req[q].shared) =>
        \A r \in Requests :
            req[r].pc = "ask" /\ req[r].clean =>
                attached = IF block[1] = TRUE THEN ToolSet ELSE {}

\* Every request ends, those that wait for another's settings row included.
EveryRequestEnds == \A r \in Requests : InFlight(r) ~> ~InFlight(r)
=============================================================================
