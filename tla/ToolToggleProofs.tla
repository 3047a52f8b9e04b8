-------------------------- MODULE ToolToggleProofs --------------------------
(***************************************************************************)
(* What the toggle guarantees for every number of requests and tools, any  *)
(* number of failures and every interleaving.                              *)
(***************************************************************************)
EXTENDS ToolToggle, TLAPS

\* The requests that have been through get_or_create_settings.
Served(q) == q.pc \in {"apply", "list", "switch", "block", "ask", "asked", "calling"}

\* An uncommitted row is the only one, nobody but its maker has seen a row,
\* and as long as no row is committed the setting is off for everybody.
Rows ==
    /\ holder # None => row = None
    /\ row = None => attached = {}
    /\ \A r \in Requests : Served(req[r]) => row # None \/ holder = r
    /\ \A r \in Requests : row = None => ~req[r].on
    /\ \A r \in Requests : req[r].pc = "calling" => row # None

\* No call to Letta failed, and no chat or run began beside another.
Undisturbed == failures = 0 /\ \A r \in Requests : ~req[r].shared
\* The places of a chat or run from its first tool on.
AtTools == {"list", "switch", "block", "ask", "asked", "calling"}
Truthful ==
    /\ attached = ToolSet => block[1] = TRUE
    /\ attached = {} => block[1] # TRUE

\* There is one chat or run at a time; the block is out of date only between
\* the switch of a tool and the update that follows, which knows the tool.
Told ==
    /\ \A r \in Requests : req[r].pc \in AtTools => req[r].kind # "put"
    /\ \A r \in Requests : req[r].pc = "idle" => ~req[r].shared
    /\ Undisturbed =>
         /\ \A r, s \in RunsInFlight : r = s
         /\ \A r \in Requests : req[r].pc = "block" => (Tool(r) \in attached <=> req[r].on)
         /\ (\A r \in Requests : req[r].pc # "block") => Truthful

\* How far a request has brought the tools into line.
InLine(i) == Tools[i] \in attached <=> row = TRUE
Checked(q) ==
    CASE q.pc = "ask"   -> 1..Len(Tools)
      [] q.pc = "block" -> 1..q.i
      [] OTHER          -> 1..(q.i - 1)
Progress(q) ==
    /\ \A j \in Checked(q) : InLine(j)
    /\ q.pc \in {"list", "switch", "block"} => q.on = (row = TRUE)
Working(q) == q.clean /\ q.pc \in {"read", "insert", "list", "switch", "block", "ask"}
Advances == \A r \in Requests : Working(req[r]) => Progress(req[r])

IInv == TypeOK /\ Rows /\ Advances

-----------------------------------------------------------------------------
LEMMA ToolsFact ==
    /\ Len(Tools) \in Nat \ {0} /\ 1 \in 1..Len(Tools)
    /\ \A i \in 1..Len(Tools) : Tools[i] \in ToolSet
    /\ NoText \in Texts
    /\ \A t \in ToolSet, on \in BOOLEAN : StatusText(t, on) \in Texts
    /\ None # TRUE /\ None # FALSE /\ None \notin Requests
  <1>1. Tools \in Seq(STRING) /\ Tools # << >>
    BY ConstantsAssumption
  <1>2. Len(Tools) \in Nat \ {0}
    BY <1>1
  <1>3. 1 \in 1..Len(Tools)
    BY <1>2
  <1>4. \A i \in 1..Len(Tools) : Tools[i] \in ToolSet
    BY DEF ToolSet
  <1>5. NoText \in Texts
    BY DEF Texts
  <1>6. \A t \in ToolSet, on \in BOOLEAN : StatusText(t, on) \in Texts
    BY DEF Texts, StatusText
  <1>7. None # TRUE /\ None # FALSE /\ None \notin Requests
    BY ConstantsAssumption
  <1>. QED
    BY <1>2, <1>3, <1>4, <1>5, <1>6, <1>7

LEMMA FreshType == Fresh \in Request
  BY ToolsFact DEF Fresh, Request

LEMMA NextToolType == ASSUME NEW q \in Request PROVE NextTool(q) \in Request
  <1>1. CASE q.i = Len(Tools)
    BY <1>1 DEF NextTool, Request
  <1>2. CASE q.i # Len(Tools)
    <2>1. q.i + 1 \in 1..Len(Tools)
      BY <1>2, ToolsFact DEF Request
    <2>2. [q EXCEPT !.i = q.i + 1, !.pc = "list"] \in Request
      BY <2>1 DEF Request
    <2>3. [q EXCEPT !.i = q.i + 1, !.pc = "read"] \in Request
      BY <2>1 DEF Request
    <2>. QED
      BY <1>2, <2>2, <2>3 DEF NextTool
  <1>. QED
    BY <1>1, <1>2

LEMMA NotedType ==
    ASSUME NEW q \in Request, NEW t \in ToolSet PROVE Noted(q, t) \in Request
  <1>1. StatusText(t, q.on) \in Texts
    BY ToolsFact DEF Request
  <1>. QED
    BY <1>1 DEF Noted, Request

LEMMA AfterListType == ASSUME NEW q \in Request PROVE AfterList(q) \in Request
  <1>1. [q EXCEPT !.pc = "switch"] \in Request
    BY DEF Request
  <1>. QED
    BY <1>1, NextToolType DEF AfterList

LEMMA HasSettingsType ==
    ASSUME NEW q \in Request, NEW on \in BOOLEAN PROVE HasSettings(q, on) \in Request
  BY DEF HasSettings, Request

\* Both forms of a step of r keep every request a request.
LEMMA MoveType ==
    ASSUME TypeOK, NEW r \in Requests, NEW fields \in Request,
           Move(r, fields) \/ MoveAndDisturb(r, fields)
    PROVE  req' \in [Requests -> Request]
  <1>1. \A q \in Requests : [req[q] EXCEPT !.clean = FALSE] \in Request
    BY DEF TypeOK, Request
  <1>. QED
    BY <1>1 DEF TypeOK, Move, MoveAndDisturb

LEMMA InitIInv == Init => IInv
  <1> SUFFICES ASSUME Init PROVE IInv
    OBVIOUS
  <1>1. TypeOK
    <2>1. row \in {None, TRUE, FALSE} /\ holder \in Requests \union {None} /\ attached \subseteq ToolSet
      BY DEF Init, Left
    <2>2. block \in Texts
      BY ToolsFact DEF Init, Left, StatusText, Texts
    <2>3. failures \in 0..MaxFailures
      BY ConstantsAssumption DEF Init
    <2>4. req \in [Requests -> Request]
      BY FreshType DEF Init
    <2>. QED
      BY <2>1, <2>2, <2>3, <2>4 DEF TypeOK
  <1>2. \A r \in Requests : req[r] = Fresh
    BY DEF Init
  <1>3. Rows
    BY <1>2 DEF Init, Left, Rows, Served, Fresh
  <1>4. Advances
    BY <1>2 DEF Advances, Working, Fresh
  <1>. QED
    BY <1>1, <1>3, <1>4 DEF IInv

-----------------------------------------------------------------------------
\* A step of r that leaves row and holder alone.
LEMMA RowsMove ==
    ASSUME TypeOK, Rows, NEW r \in Requests, NEW fields \in Request,
           Move(r, fields) \/ MoveAndDisturb(r, fields), UNCHANGED <<row, holder>>,
           row = None => attached' = {},
           Served(fields) => row # None \/ holder = r,
           row = None => ~fields.on,
           fields.pc = "calling" => row # None
    PROVE  Rows'
  <1>1. \A q \in Requests : /\ req'[q].pc = IF q = r THEN fields.pc ELSE req[q].pc
                            /\ req'[q].on = IF q = r THEN fields.on ELSE req[q].on
    BY DEF TypeOK, Request, Move, MoveAndDisturb
  <1>2. \A q \in Requests : Served(req[q])' => row # None \/ holder = q
    BY <1>1 DEF Served, Rows
  <1>3. \A q \in Requests : row = None => ~req'[q].on
    BY <1>1 DEF Rows
  <1>4. \A q \in Requests : req'[q].pc = "calling" => row # None
    BY <1>1 DEF Rows
  <1>. QED
    BY <1>2, <1>3, <1>4 DEF Rows

\* A step of r that moves neither a tool nor the setting.
LEMMA AdvancesMove ==
    ASSUME TypeOK, Advances, NEW r \in Requests, NEW fields \in Request,
           Move(r, fields), UNCHANGED attached, (row' = TRUE) = (row = TRUE),
           Working(fields) => Progress(fields)
    PROVE  Advances'
  <1> SUFFICES ASSUME NEW q \in Requests, Working(req'[q])
               PROVE  Progress(req[q])'
    BY DEF Advances, Working
  <1>1. CASE q = r
    <2>1. req'[q] = fields
      BY <1>1 DEF Move, TypeOK
    <2>. QED
      BY <2>1 DEF Progress, InLine, Checked
  <1>2. CASE q # r
    <2>1. req'[q] = req[q]
      BY <1>2 DEF Move, TypeOK
    <2>. QED
      BY <2>1 DEF Progress, InLine, Checked, Advances
  <1>. QED
    BY <1>1, <1>2

\* A step of r that may move a tool or the setting: nobody else is clean.
LEMMA AdvancesDisturb ==
    ASSUME TypeOK, NEW r \in Requests, NEW fields \in Request,
           MoveAndDisturb(r, fields),
           Working(fields) => /\ \A j \in Checked(fields) : InLine(j)'
                              /\ fields.pc \in {"list", "switch", "block"} =>
                                     fields.on = (row' = TRUE)
    PROVE  Advances'
  <1> SUFFICES ASSUME NEW q \in Requests, Working(req'[q])
               PROVE  Progress(req[q])'
    BY DEF Advances, Working
  <1>1. req' = [p \in Requests |-> IF p = r THEN fields ELSE [req[p] EXCEPT !.clean = FALSE]]
    BY DEF MoveAndDisturb
  <1>2. \A p \in Requests : [req[p] EXCEPT !.clean = FALSE].clean = FALSE
    BY DEF TypeOK, Request
  <1>3. q = r /\ req'[q] = fields
    BY <1>1, <1>2 DEF Working
  <1>. QED
    BY <1>3 DEF Progress, InLine, Checked

\* Going on to the next tool, or to the message, once tool q.i is in line.
LEMMA NextToolFields ==
    ASSUME NEW q \in Request
    PROVE  /\ NextTool(q).on = q.on /\ NextTool(q).clean = q.clean
           /\ NextTool(q).pc \in {"read", "list", "ask"}
           /\ NextTool(q).pc = "ask" => NextTool(q).i = Len(Tools) /\ q.i = Len(Tools)
           /\ NextTool(q).pc # "ask" => NextTool(q).i = q.i + 1
  <1>1. CASE q.i = Len(Tools)
    BY <1>1 DEF NextTool, Request
  <1>2. CASE q.i # Len(Tools)
    BY <1>2 DEF NextTool, Request
  <1>. QED
    BY <1>1, <1>2

LEMMA NextToolProgress ==
    ASSUME NEW q \in Request, \A j \in 1..q.i : InLine(j), q.on = (row = TRUE)
    PROVE  Progress(NextTool(q))
  <1>1. Checked(NextTool(q)) = 1..q.i
    BY NextToolFields, ToolsFact DEF Checked, Request
  <1>. QED
    BY <1>1, NextToolFields DEF Progress

LEMMA AfterListFields ==
    ASSUME NEW q \in Request
    PROVE  /\ AfterList(q).on = q.on /\ AfterList(q).clean = q.clean
           /\ AfterList(q).pc \in {"switch", "read", "list", "ask"}
  BY NextToolFields DEF AfterList, Request

LEMMA NotedFields ==
    ASSUME NEW q \in Request, NEW t
    PROVE  /\ Noted(q, t).on = q.on /\ Noted(q, t).clean = q.clean
           /\ Noted(q, t).pc = q.pc /\ Noted(q, t).i = q.i
  BY DEF Noted, Request

-----------------------------------------------------------------------------
\* A request that arrives, or is at its settings.
LEMMA BeginIInv ==
    ASSUME IInv, NEW r \in Requests, NEW k \in Kinds, Begin(r, k) PROVE IInv'
  <1> DEFINE f == [Fresh EXCEPT !.pc = "read", !.kind = k, !.pinned = k = "eval",
                                !.shared = k # "put" /\ RunsInFlight # {}]
  <1>1. f \in Request /\ f.pc = "read" /\ f.i = 1 /\ f.on = FALSE
    BY FreshType DEF Request, Fresh
  <1>2. Move(r, f) /\ UNCHANGED <<row, holder, attached, block, failures>>
    BY DEF Begin
  <1> HIDE DEF f
  <1>3. TypeOK'
    BY <1>1, <1>2, MoveType DEF IInv, TypeOK
  <1>4. Rows'
    BY <1>1, <1>2, RowsMove DEF IInv, Served, Rows
  <1>5. Progress(f)
    BY <1>1 DEF Progress, Checked
  <1>6. Advances'
    BY <1>1, <1>2, <1>5, AdvancesMove DEF IInv
  <1>. QED
    BY <1>3, <1>4, <1>6 DEF IInv

LEMMA HasSettingsFields ==
    ASSUME NEW q \in Request, NEW on \in BOOLEAN, q.pc \in {"read", "insert"}
    PROVE  /\ HasSettings(q, on).pc \in {"apply", "list"} /\ HasSettings(q, on).on = on
           /\ HasSettings(q, on).i = q.i /\ HasSettings(q, on).clean = q.clean
           /\ Checked(HasSettings(q, on)) = Checked(q)
  BY DEF HasSettings, Request, Checked

LEMMA ReadSettingsIInv ==
    ASSUME IInv, NEW r \in Requests, ReadSettings(r) PROVE IInv'
  <1> DEFINE f == HasSettings(req[r], Setting(r))
  <1>1. /\ req[r] \in Request /\ req[r].pc = "read" /\ Setting(r) \in BOOLEAN
        /\ Move(r, f) /\ UNCHANGED <<row, holder, attached, block, failures>>
        /\ row # None \/ holder = r
    BY DEF IInv, TypeOK, ReadSettings, Setting, DefaultSetting
  <1>2. Setting(r) = (row = TRUE)
    BY ToolsFact DEF IInv, Rows, Setting, DefaultSetting
  <1>3. /\ f \in Request /\ f.pc \in {"apply", "list"} /\ f.on = Setting(r)
        /\ f.clean = req[r].clean /\ Checked(f) = Checked(req[r])
    BY <1>1, HasSettingsType, HasSettingsFields
  <1> HIDE DEF f
  <1>4. TypeOK'
    BY <1>1, <1>3, MoveType DEF IInv, TypeOK
  <1>5. Rows'
    BY <1>1, <1>2, <1>3, ToolsFact, RowsMove DEF IInv, Rows
  <1>6. Working(f) => Progress(f)
    BY <1>1, <1>2, <1>3 DEF IInv, Advances, Working, Progress
  <1>7. Advances'
    BY <1>1, <1>3, <1>6, AdvancesMove DEF IInv
  <1>. QED
    BY <1>4, <1>5, <1>7 DEF IInv

LEMMA ToInsertIInv ==
    ASSUME IInv, NEW r \in Requests, ToInsert(r) PROVE IInv'
  <1> DEFINE f == [req[r] EXCEPT !.pc = "insert"]
  <1>1. /\ req[r] \in Request /\ req[r].pc = "read"
        /\ Move(r, f) /\ UNCHANGED <<row, holder, attached, block, failures>>
    BY DEF IInv, TypeOK, ToInsert
  <1>2. /\ f \in Request /\ f.pc = "insert" /\ f.on = req[r].on
        /\ f.clean = req[r].clean /\ Checked(f) = Checked(req[r])
    BY <1>1 DEF Request, Checked
  <1> HIDE DEF f
  <1>3. TypeOK'
    BY <1>1, <1>2, MoveType DEF IInv, TypeOK
  <1>4. Rows'
    BY <1>1, <1>2, RowsMove DEF IInv, Rows, Served
  <1>5. Working(f) => Progress(f)
    BY <1>1, <1>2 DEF IInv, Advances, Working, Progress
  <1>6. Advances'
    BY <1>1, <1>2, <1>5, AdvancesMove DEF IInv
  <1>. QED
    BY <1>3, <1>4, <1>6 DEF IInv

LEMMA InsertSettingsIInv ==
    ASSUME IInv, NEW r \in Requests, InsertSettings(r) PROVE IInv'
  <1>1. /\ req[r] \in Request /\ req[r].pc = "insert" /\ holder = None
        /\ UNCHANGED <<row, attached, block, failures>>
    BY DEF IInv, TypeOK, InsertSettings
  <1>2. CASE row = None /\ req[r].kind # "eval"
    <2> DEFINE f == HasSettings(req[r], FALSE)
    <2>1. holder' = r /\ Move(r, f)
      BY <1>2 DEF InsertSettings, DefaultSetting
    <2>2. /\ f \in Request /\ f.pc \in {"apply", "list"} /\ f.on = FALSE
          /\ f.clean = req[r].clean /\ Checked(f) = Checked(req[r])
      BY <1>1, HasSettingsType, HasSettingsFields
    <2> HIDE DEF f
    <2>3. TypeOK'
      BY <1>1, <2>1, <2>2, MoveType DEF IInv, TypeOK
    <2>4. \A q \in Requests : req'[q] = IF q = r THEN f ELSE req[q]
      BY <2>1 DEF IInv, TypeOK, Move
    <2>5. Rows'
      <3>1. \A q \in Requests : ~Served(req[q]) /\ ~req[q].on /\ req[q].pc # "calling"
        BY <1>1, <1>2, ToolsFact DEF IInv, Rows, Served
      <3>2. \A q \in Requests : Served(req'[q]) => q = r
        BY <2>4, <3>1
      <3>3. \A q \in Requests : ~req'[q].on /\ req'[q].pc # "calling"
        BY <2>2, <2>4, <3>1
      <3>4. row' = None /\ attached' = {}
        BY <1>1, <1>2 DEF IInv, Rows
      <3>. QED
        BY <2>1, <3>2, <3>3, <3>4 DEF Rows, Served
    <2>6. Working(f) => Progress(f)
      BY <1>1, <1>2, <2>2, ToolsFact DEF IInv, Advances, Working, Progress
    <2>7. Advances'
      BY <1>1, <2>1, <2>2, <2>6, AdvancesMove DEF IInv
    <2>. QED
      BY <2>3, <2>5, <2>7 DEF IInv
  <1>3. CASE ~(row = None /\ req[r].kind # "eval")
    <2> DEFINE f == [req[r] EXCEPT !.pc = "failed"]
    <2>1. holder' = holder /\ Move(r, f)
      BY <1>3 DEF InsertSettings
    <2>2. f \in Request /\ f.pc = "failed" /\ f.on = req[r].on
      BY <1>1 DEF Request
    <2> HIDE DEF f
    <2>3. TypeOK'
      BY <1>1, <2>1, <2>2, MoveType DEF IInv, TypeOK
    <2>4. Rows'
      BY <1>1, <2>1, <2>2, RowsMove DEF IInv, Rows, Served
    <2>5. Advances'
      BY <1>1, <2>1, <2>2, AdvancesMove DEF IInv, Working
    <2>. QED
      BY <2>3, <2>4, <2>5 DEF IInv
  <1>. QED
    BY <1>2, <1>3

LEMMA ApplyIInv ==
    ASSUME IInv, NEW r \in Requests, NEW v \in BOOLEAN, Apply(r, v) PROVE IInv'
  <1> DEFINE f == [req[r] EXCEPT !.pc = "done"]
  <1>1. /\ req[r] \in Request /\ req[r].pc = "apply"
        /\ UNCHANGED <<attached, block, failures>>
        /\ holder' = IF holder = r THEN None ELSE holder
        /\ row' = IF v # req[r].on \/ holder = r THEN v ELSE row
    BY DEF IInv, TypeOK, Apply, Rollback
  <1>2. \/ MoveAndDisturb(r, f)
        \/ Move(r, f) /\ (row' = TRUE) = (row = TRUE)
    BY DEF Apply
  <1>3. f \in Request /\ f.pc = "done" /\ f.on = req[r].on
    BY <1>1 DEF Request
  <1> HIDE DEF f
  <1>4. TypeOK'
    BY <1>1, <1>2, <1>3, MoveType DEF IInv, TypeOK
  <1>5. row # None \/ holder = r
    BY <1>1 DEF IInv, Rows, Served
  <1>6. row' # None /\ holder' = None
    BY <1>1, <1>5, ToolsFact DEF IInv, Rows
  <1>7. Rows'
    BY <1>6 DEF Rows
  <1>8. Advances'
    <2>1. ~Working(f)
      BY <1>3 DEF Working
    <2>. QED
      BY <1>1, <1>2, <1>3, <2>1, AdvancesMove, AdvancesDisturb DEF IInv
  <1>. QED
    BY <1>4, <1>7, <1>8 DEF IInv

-----------------------------------------------------------------------------
\* A request at one of its tools.
LEMMA ListIInv ==
    ASSUME IInv, NEW r \in Requests, List(r) PROVE IInv'
  <1> DEFINE found == Tool(r) \in attached
             g == [req[r] EXCEPT !.found = found]
             f == AfterList(g)
  <1>1. /\ req[r] \in Request /\ req[r].pc = "list"
        /\ Move(r, f) /\ UNCHANGED <<row, holder, attached, block, failures>>
    BY DEF IInv, TypeOK, List
  <1>2. /\ g \in Request /\ g.on = req[r].on /\ g.i = req[r].i /\ g.clean = req[r].clean
        /\ g.found = found /\ g.pc = "list"
    <2>1. found \in BOOLEAN
      OBVIOUS
    <2>. HIDE DEF found
    <2>. QED
      BY <1>1, <2>1 DEF Request
  <1>3. f \in Request /\ f.on = req[r].on /\ f.clean = req[r].clean
        /\ f.pc \in {"switch", "read", "list", "ask"}
    BY <1>2, AfterListType, AfterListFields
  <1>4. TypeOK'
    BY <1>1, <1>3, MoveType DEF IInv, TypeOK
  <1>5. Served(req[r])
    BY <1>1 DEF Served
  <1>6. Rows'
    BY <1>1, <1>3, <1>5, RowsMove DEF IInv, Rows
  <1>7. ASSUME Working(f) PROVE Progress(f)
    <2>1. Progress(req[r])
      BY <1>1, <1>3, <1>7 DEF IInv, Advances, Working
    <2>2. /\ \A j \in 1..(g.i - 1) : InLine(j)
          /\ g.on = (row = TRUE)
      BY <1>1, <1>2, <2>1 DEF Progress, Checked
    <2>3. CASE NeedsAttach(g) \/ NeedsDetach(g)
      <3>1. f = [g EXCEPT !.pc = "switch"]
        BY <2>3 DEF AfterList
      <3>2. f.pc = "switch" /\ f.i = g.i /\ f.on = g.on
        BY <1>2, <3>1 DEF Request
      <3>. HIDE DEF f, g
      <3>. QED
        BY <2>2, <3>2 DEF Progress, Checked
    <2>4. CASE ~(NeedsAttach(g) \/ NeedsDetach(g))
      <3>1. f = NextTool(g)
        BY <2>4 DEF AfterList
      <3>2. g.on = found
        BY <1>2, <2>4 DEF NeedsAttach, NeedsDetach, Request
      <3>3. InLine(g.i)
        BY <1>2, <2>2, <3>2 DEF InLine, Tool
      <3>4. \A j \in 1..g.i : InLine(j)
        <4>. HIDE DEF g
        <4>. QED
          BY <1>2, <2>2, <3>3 DEF Request
      <3>. QED
        BY <1>2, <2>2, <3>1, <3>4, NextToolProgress
    <2>. QED
      BY <2>3, <2>4
  <1> HIDE DEF f
  <1>8. Advances'
    BY <1>1, <1>3, <1>7, AdvancesMove DEF IInv
  <1>. QED
    BY <1>4, <1>6, <1>8 DEF IInv

LEMMA ListFailsIInv ==
    ASSUME IInv, NEW r \in Requests, ListFails(r) PROVE IInv'
  <1> DEFINE g == [req[r] EXCEPT !.found = FALSE, !.clean = FALSE]
             f == AfterList(g)
  <1>1. /\ req[r] \in Request /\ req[r].pc = "list"
        /\ Move(r, f) /\ UNCHANGED <<row, holder, attached, block>>
        /\ failures' \in 0..MaxFailures
    BY ConstantsAssumption DEF IInv, TypeOK, ListFails, CountFailure
  <1>2. g \in Request /\ g.on = req[r].on /\ g.clean = FALSE
    BY <1>1 DEF Request
  <1>3. f \in Request /\ f.on = req[r].on /\ f.clean = FALSE
        /\ f.pc \in {"switch", "read", "list", "ask"}
    BY <1>2, AfterListType, AfterListFields
  <1> HIDE DEF f
  <1>4. TypeOK'
    BY <1>1, <1>3, MoveType DEF IInv, TypeOK
  <1>5. Served(req[r])
    BY <1>1 DEF Served
  <1>6. Rows'
    BY <1>1, <1>3, <1>5, RowsMove DEF IInv, Rows
  <1>7. Advances'
    BY <1>1, <1>3, AdvancesMove DEF IInv, Working
  <1>. QED
    BY <1>4, <1>6, <1>7 DEF IInv

LEMMA SwitchIInv ==
    ASSUME IInv, NEW r \in Requests, Switch(r) PROVE IInv'
  <1> DEFINE f == [req[r] EXCEPT !.pc = "block"]
  <1>1. /\ req[r] \in Request /\ req[r].pc = "switch"
        /\ UNCHANGED <<row, holder, block, failures>>
        /\ attached' = IF req[r].on THEN attached \union {Tool(r)} ELSE attached \ {Tool(r)}
        /\ (Move(r, f) /\ attached' = attached) \/ MoveAndDisturb(r, f)
    BY DEF IInv, TypeOK, Switch
  <1>2. /\ f \in Request /\ f.pc = "block" /\ f.on = req[r].on
        /\ f.clean = req[r].clean /\ f.i = req[r].i
    BY <1>1 DEF Request
  <1>3. Tool(r) \in ToolSet
    BY <1>1, ToolsFact DEF Tool, Request
  <1> HIDE DEF f
  <1>4. attached' \subseteq ToolSet
    BY <1>1, <1>3 DEF IInv, TypeOK
  <1>5. TypeOK'
    BY <1>1, <1>2, <1>4, MoveType DEF IInv, TypeOK
  <1>6. Rows'
    <2>1. row = None => attached' = {}
      BY <1>1 DEF IInv, Rows
    <2>2. row # None \/ holder = r
      BY <1>1 DEF IInv, Rows, Served
    <2>. QED
      BY <1>1, <1>2, <2>1, <2>2, RowsMove DEF IInv, Rows
  <1>7. ASSUME Working(f) PROVE \A j \in Checked(f) : InLine(j)'
    <2>1. Progress(req[r])
      BY <1>1, <1>2, <1>7 DEF IInv, Advances, Working
    <2>2. /\ \A j \in 1..(req[r].i - 1) : InLine(j)
          /\ req[r].on = (row = TRUE)
      BY <1>1, <2>1 DEF Progress, Checked
    <2>3. Checked(f) = 1..req[r].i
      BY <1>2 DEF Checked
    <2>4. ASSUME NEW j \in 1..req[r].i PROVE InLine(j)'
      <3>1. CASE Tools[j] = Tool(r)
        BY <1>1, <2>2, <3>1 DEF InLine, Request
      <3>2. CASE Tools[j] # Tool(r)
        <4>1. j \in 1..(req[r].i - 1)
          BY <1>1, <3>2 DEF Tool, Request
        <4>. QED
          BY <1>1, <2>2, <3>2, <4>1 DEF InLine
      <3>. QED
        BY <3>1, <3>2
    <2>. QED
      BY <2>3, <2>4
  <1>8. Working(f) => f.on = (row' = TRUE)
    BY <1>1, <1>2 DEF IInv, Advances, Working, Progress
  <1>9. Advances'
    <2>1. CASE MoveAndDisturb(r, f)
      BY <1>2, <1>7, <1>8, <2>1, AdvancesDisturb DEF IInv
    <2>2. CASE Move(r, f) /\ attached' = attached
      <3>1. Working(f) => Progress(f)
        BY <1>1, <1>7, <1>8, <2>2 DEF Progress, InLine
      <3>. QED
        BY <1>1, <1>2, <2>2, <3>1, AdvancesMove DEF IInv
    <2>. QED
      BY <1>1, <2>1, <2>2
  <1>. QED
    BY <1>5, <1>6, <1>9 DEF IInv

LEMMA SwitchFailsIInv ==
    ASSUME IInv, NEW r \in Requests, SwitchFails(r) PROVE IInv'
  <1> DEFINE f == [req[r] EXCEPT !.pc = "block", !.clean = FALSE]
  <1>1. /\ req[r] \in Request /\ req[r].pc = "switch"
        /\ Move(r, f) /\ UNCHANGED <<row, holder, attached, block>>
        /\ failures' \in 0..MaxFailures
    BY ConstantsAssumption DEF IInv, TypeOK, SwitchFails, CountFailure
  <1>2. f \in Request /\ f.pc = "block" /\ f.on = req[r].on /\ f.clean = FALSE
    BY <1>1 DEF Request
  <1> HIDE DEF f
  <1>3. TypeOK'
    BY <1>1, <1>2, MoveType DEF IInv, TypeOK
  <1>4. Rows'
    BY <1>1, <1>2, RowsMove DEF IInv, Rows, Served
  <1>5. Advances'
    BY <1>1, <1>2, AdvancesMove DEF IInv, Working
  <1>. QED
    BY <1>3, <1>4, <1>5 DEF IInv

\* The block is written, or not; either way the request goes on.
LEMMA BlockIInv ==
    ASSUME IInv, NEW r \in Requests, UpdateBlock(r) \/ UpdateBlockFails(r) PROVE IInv'
  <1> DEFINE Goes(q) == NextTool(Noted(q, Tool(r)))
  <1>1. /\ req[r] \in Request /\ req[r].pc = "block"
        /\ UNCHANGED <<row, holder, attached>>
        /\ Tool(r) \in ToolSet
    BY ToolsFact DEF IInv, TypeOK, UpdateBlock, UpdateBlockFails, Tool, Request
  <1>2. block' \in Texts /\ failures' \in 0..MaxFailures
    BY <1>1, ToolsFact, ConstantsAssumption
    DEF IInv, TypeOK, UpdateBlock, UpdateBlockFails, CountFailure, Request
  <1>3. PICK q \in {req[r], [req[r] EXCEPT !.clean = FALSE]} : Move(r, Goes(q))
    BY DEF UpdateBlock, UpdateBlockFails
  <1>4. q \in Request /\ q.on = req[r].on /\ q.i = req[r].i /\ (q.clean => req[r].clean)
    BY <1>1 DEF Request
  <1>5. /\ Noted(q, Tool(r)) \in Request
        /\ Noted(q, Tool(r)).on = q.on /\ Noted(q, Tool(r)).i = q.i
        /\ Noted(q, Tool(r)).clean = q.clean
    BY <1>1, <1>4, NotedType, NotedFields
  <1>6. /\ Goes(q) \in Request /\ Goes(q).on = req[r].on /\ (Goes(q).clean => req[r].clean)
        /\ Goes(q).pc \in {"read", "list", "ask"}
    BY <1>4, <1>5, NextToolType, NextToolFields
  <1>7. ASSUME Working(Goes(q)) PROVE Progress(Goes(q))
    <2>1. Progress(req[r])
      BY <1>1, <1>6, <1>7 DEF IInv, Advances, Working
    <2>2. (\A j \in 1..q.i : InLine(j)) /\ q.on = (row = TRUE)
      BY <1>1, <1>4, <2>1 DEF Progress, Checked
    <2>. QED
      BY <1>5, <2>2, NextToolProgress
  <1> HIDE DEF Goes
  <1>8. TypeOK'
    BY <1>1, <1>2, <1>3, <1>6, MoveType DEF IInv, TypeOK
  <1>9. Rows'
    <2>1. row # None \/ holder = r
      BY <1>1 DEF IInv, Rows, Served
    <2>. QED
      BY <1>1, <1>3, <1>6, <2>1, RowsMove DEF IInv, Rows
  <1>10. Advances'
    BY <1>1, <1>3, <1>6, <1>7, AdvancesMove DEF IInv
  <1>. QED
    BY <1>8, <1>9, <1>10 DEF IInv

-----------------------------------------------------------------------------
\* A request at its message.  Its transaction may end: the row that comes of
\* it says off, which is what the agent's tools and everybody else go by.
LEMMA EndOfTransaction ==
    ASSUME IInv, NEW r \in Requests, NEW fields \in Request, Move(r, fields),
           attached' = attached,
           row' \in {row, RowAfterCommit(r)}, Rollback(r),
           fields.pc \in {"asked", "done", "failed"}, fields.on = req[r].on,
           fields.pc = "asked" => row' # None
    PROVE  Rows' /\ Advances'
  <1>1. \A q \in Requests : req'[q] = IF q = r THEN fields ELSE req[q]
    BY DEF IInv, TypeOK, Move
  <1>2. (row' = TRUE) = (row = TRUE) /\ (row # None => row' = row) /\ row' \in {row, FALSE}
    BY ToolsFact DEF IInv, Rows, RowAfterCommit, DefaultSetting
  <1>3. holder' = None \/ (holder' = holder /\ holder # r)
    BY DEF Rollback
  <1>4. holder' # None => row' = None
    BY <1>3 DEF IInv, Rows, RowAfterCommit
  <1>5. row' = None => row = None /\ attached' = {}
    BY <1>2 DEF IInv, Rows
  <1>6. ASSUME NEW q \in Requests, Served(req'[q]) PROVE row' # None \/ holder' = q
    <2>1. CASE q = r
      BY <1>1, <1>6, <2>1 DEF Served
    <2>2. CASE q # r
      BY <1>1, <1>2, <1>6, <2>2, ToolsFact DEF IInv, Rows, Rollback
    <2>. QED
      BY <2>1, <2>2
  <1>7. \A q \in Requests : row' = None => ~req'[q].on
    BY <1>1, <1>5 DEF IInv, Rows
  <1>8. \A q \in Requests : req'[q].pc = "calling" => row' # None
    BY <1>1, <1>5 DEF IInv, Rows
  <1>9. Rows'
    BY <1>4, <1>5, <1>6, <1>7, <1>8 DEF Rows, Served
  <1>10. Advances'
    BY <1>2, AdvancesMove DEF IInv, Working
  <1>. QED
    BY <1>9, <1>10

LEMMA AskIInv ==
    ASSUME IInv, NEW r \in Requests, Ask(r) PROVE IInv'
  <1> DEFINE f == [req[r] EXCEPT !.pc = "asked", !.sent = Note(req[r])]
  <1>1. /\ req[r] \in Request /\ req[r].pc = "ask"
        /\ Move(r, f) /\ UNCHANGED <<attached, block, failures>>
        /\ \/ UNCHANGED <<row, holder>>
           \/ row' = RowAfterCommit(r) /\ Rollback(r)
    BY DEF IInv, TypeOK, Ask
  <1>2. Note(req[r]) \in Texts
    BY <1>1, ToolsFact DEF Note, Request
  <1>3. f \in Request /\ f.pc = "asked" /\ f.on = req[r].on
    BY <1>1, <1>2 DEF Request
  <1> HIDE DEF f
  <1>4. row # None \/ holder = r
    BY <1>1 DEF IInv, Rows, Served
  <1>5. TypeOK'
    <2>1. row' \in {None, TRUE, FALSE} /\ holder' \in Requests \union {None}
      BY <1>1 DEF IInv, TypeOK, RowAfterCommit, DefaultSetting, Rollback
    <2>. QED
      BY <1>1, <1>3, <2>1, MoveType DEF IInv, TypeOK
  <1>6. CASE UNCHANGED <<row, holder>>
    <2>1. Rows'
      BY <1>1, <1>3, <1>4, <1>6, RowsMove DEF IInv, Rows
    <2>2. Advances'
      BY <1>1, <1>3, <1>6, AdvancesMove DEF IInv, Working
    <2>. QED
      BY <1>5, <2>1, <2>2 DEF IInv
  <1>7. CASE row' = RowAfterCommit(r) /\ Rollback(r)
    <2>1. row' # None
      BY <1>4, <1>7, ToolsFact DEF RowAfterCommit, DefaultSetting
    <2>. QED
      BY <1>1, <1>3, <1>5, <1>7, <2>1, EndOfTransaction DEF IInv
  <1>. QED
    BY <1>1, <1>6, <1>7

LEMMA CallIInv ==
    ASSUME IInv, NEW r \in Requests, CallBack(r) \/ CallReturns(r) PROVE IInv'
  <1>1. /\ req[r] \in Request /\ req[r].pc \in {"asked", "calling"}
        /\ UNCHANGED <<row, holder, attached, block, failures>>
        /\ CallBack(r) => attached # {}
    BY DEF IInv, TypeOK, CallBack, CallReturns
  <1>2. row # None \/ holder = r
    BY <1>1 DEF IInv, Rows, Served
  <1>3. PICK f \in {[req[r] EXCEPT !.pc = "calling", !.called = TRUE],
                    [req[r] EXCEPT !.pc = "asked"]} :
            Move(r, f) /\ (f.pc = "calling" => attached # {})
    <2>1. CASE CallBack(r)
      BY <1>1, <2>1 DEF CallBack
    <2>2. CASE CallReturns(r)
      <3>1. [req[r] EXCEPT !.pc = "asked"].pc = "asked"
        BY <1>1 DEF Request
      <3>. QED
        BY <2>2, <3>1 DEF CallReturns
    <2>. QED
      BY <2>1, <2>2
  <1>4. f \in Request /\ f.pc \in {"asked", "calling"} /\ f.on = req[r].on
    BY <1>1 DEF Request
  <1>5. TypeOK'
    BY <1>1, <1>3, <1>4, MoveType DEF IInv, TypeOK
  <1>6. Rows'
    BY <1>1, <1>2, <1>3, <1>4, RowsMove DEF IInv, Rows
  <1>7. Advances'
    BY <1>1, <1>3, <1>4, AdvancesMove DEF IInv, Working
  <1>. QED
    BY <1>5, <1>6, <1>7 DEF IInv

\* The request ends, well or badly.
LEMMA EndIInv ==
    ASSUME IInv, NEW r \in Requests, Answer(r) \/ Abort(r) PROVE IInv'
  <1>1. /\ req[r] \in Request /\ UNCHANGED <<attached, block>>
        /\ row' \in {row, RowAfterCommit(r)} /\ Rollback(r)
        /\ failures' \in 0..MaxFailures
    BY ConstantsAssumption DEF IInv, TypeOK, Answer, Abort, CountFailure
  <1>2. PICK pc \in {"done", "failed"} : Move(r, [req[r] EXCEPT !.pc = pc])
    BY DEF Answer, Abort
  <1> DEFINE f == [req[r] EXCEPT !.pc = pc]
  <1>3. f \in Request /\ f.pc \in {"done", "failed"} /\ f.on = req[r].on
    BY <1>1 DEF Request
  <1>4. Move(r, f)
    BY <1>2
  <1> HIDE DEF f
  <1>5. TypeOK'
    <2>1. row' \in {None, TRUE, FALSE} /\ holder' \in Requests \union {None}
      BY <1>1 DEF IInv, TypeOK, RowAfterCommit, DefaultSetting, Rollback
    <2>. QED
      BY <1>1, <1>3, <1>4, <2>1, MoveType DEF IInv, TypeOK
  <1>. QED
    BY <1>1, <1>3, <1>4, <1>5, EndOfTransaction DEF IInv

-----------------------------------------------------------------------------
LEMMA StepIInv == IInv /\ [Next]_vars => IInv'
  <1> SUFFICES ASSUME IInv, [Next]_vars PROVE IInv'
    OBVIOUS
  <1>1. ASSUME NEW r \in Requests, NEW k \in Kinds, Begin(r, k) PROVE IInv'
    BY <1>1, BeginIInv
  <1>2. ASSUME NEW r \in Requests, Moves(r) PROVE IInv'
    BY <1>2, ReadSettingsIInv, ToInsertIInv, InsertSettingsIInv, ApplyIInv, ListIInv,
       SwitchIInv, BlockIInv, AskIInv, CallIInv, EndIInv DEF Moves
  <1>3. ASSUME NEW r \in Requests, CallBack(r) PROVE IInv'
    BY <1>3, CallIInv
  <1>4. ASSUME NEW r \in Requests, Mishaps(r) PROVE IInv'
    BY <1>4, ListFailsIInv, SwitchFailsIInv, BlockIInv, EndIInv DEF Mishaps
  <1>5. CASE UNCHANGED vars
    BY <1>5 DEF vars, IInv, TypeOK, Rows, Served, Advances, Working, Progress, Checked, InLine
  <1>. QED
    BY <1>1, <1>2, <1>3, <1>4, <1>5 DEF Next

\* The inductive invariant holds of every behaviour of the toggle.
THEOREM SpecIInv == Spec => []IInv
  BY InitIInv, StepIInv, PTL DEF Spec

\* The row, the agent and the requests keep their types (UserSettings,
\* ToolToggleConfig): in particular no request goes past the last tool.
THEOREM SpecTypeOK == Spec => []TypeOK
  <1>1. IInv => TypeOK
    BY DEF IInv
  <1>. QED
    BY <1>1, SpecIInv, PTL

\* "When enabled, all are attached.  When disabled, all are detached"
\* (ensure_tool_creation), after one request that nobody disturbs, whatever
\* was left on the agent by failures and races before it.
THEOREM OneCleanRequestRepairs == Spec => []CleanRequestSettles
  <1>1. IInv => CleanRequestSettles
    <2> SUFFICES ASSUME IInv, NEW r \in Requests, req[r].pc = "ask", req[r].clean
                 PROVE  attached = IF row = TRUE THEN ToolSet ELSE {}
      BY DEF CleanRequestSettles
    <2>1. \A j \in 1..Len(Tools) : InLine(j)
      BY DEF IInv, Advances, Working, Progress, Checked
    <2>2. attached \subseteq ToolSet
      BY DEF IInv, TypeOK
    <2>3. \A t \in ToolSet : t \in attached <=> row = TRUE
      BY <2>1 DEF InLine, ToolSet
    <2>. QED
      BY <2>2, <2>3
  <1>. QED
    BY <1>1, SpecIInv, PTL

\* The tools of an agent never wait for the request that waits for them
\* (get_or_create_settings inside a transaction held open by send_message).
THEOREM NoCircleThroughTheAgent == Spec => []NoSelfWait
  <1>1. IInv => NoSelfWait
    BY DEF IInv, Rows, NoSelfWait
  <1>. QED
    BY <1>1, SpecIInv, PTL
-----------------------------------------------------------------------------
\* What the steps of a request keep of what it was when it began.
LEMMA NextToolKeeps ==
    ASSUME NEW q \in Request
    PROVE  NextTool(q).kind = q.kind /\ NextTool(q).shared = q.shared /\ NextTool(q).pc # "block"
  BY DEF NextTool, Request

LEMMA AfterListKeeps ==
    ASSUME NEW q \in Request
    PROVE  AfterList(q).kind = q.kind /\ AfterList(q).shared = q.shared /\ AfterList(q).pc # "block"
  <1>1. CASE NeedsAttach(q) \/ NeedsDetach(q)
    BY <1>1 DEF AfterList, Request
  <1>2. CASE ~(NeedsAttach(q) \/ NeedsDetach(q))
    BY <1>2, NextToolKeeps DEF AfterList
  <1>. QED
    BY <1>1, <1>2

LEMMA NotedKeeps ==
    ASSUME NEW q \in Request, NEW t
    PROVE  Noted(q, t).kind = q.kind /\ Noted(q, t).shared = q.shared
  BY DEF Noted, Request

LEMMA HasSettingsKeeps ==
    ASSUME NEW q \in Request, NEW on \in BOOLEAN
    PROVE  /\ HasSettings(q, on).kind = q.kind /\ HasSettings(q, on).shared = q.shared
           /\ HasSettings(q, on).pc = IF q.kind = "put" THEN "apply" ELSE "list"
  BY DEF HasSettings, Request

\* An agent has a tool, so all and none are not the same.
LEMMA ToldInit == Init => Told
  <1> SUFFICES ASSUME Init PROVE Told
    OBVIOUS
  <1>1. \A r \in Requests : req[r].pc = "idle"
    BY DEF Init, Fresh
  <1>6. \A r \in Requests : ~req[r].shared
    BY DEF Init, Fresh
  <1>2. RunsInFlight = {}
    BY <1>1 DEF RunsInFlight, InFlight
  <1>3. ToolSet # {}
    BY ToolsFact
  <1>4. NoText[1] # TRUE /\ \A t : StatusText(t, TRUE)[1] = TRUE /\ StatusText(t, FALSE)[1] # TRUE
    BY ToolsFact DEF NoText, StatusText
  <1>5. Truthful
    <2>1. CASE attached = {} /\ block = NoText
      BY <1>3, <1>4, <2>1 DEF Truthful
    <2>2. CASE Left
      BY <1>4, <2>2 DEF Left, Truthful
    <2>. QED
      BY <2>1, <2>2 DEF Init
  <1>. QED
    BY <1>1, <1>2, <1>5, <1>6 DEF Told, AtTools

\* A step of a request in flight: if it succeeds, it leaves tools and block as
\* they are, or has just switched its tool, or has just updated the block.
LEMMA ToldMove ==
    ASSUME TypeOK, Told, NEW r \in Requests, NEW f \in Request,
           Move(r, f) \/ MoveAndDisturb(r, f), InFlight(r),
           f.kind = req[r].kind, f.shared = req[r].shared,
           f.pc \in AtTools => f.kind # "put", f.pc # "idle",
           failures' = 0 => failures = 0,
           failures' = 0 /\ f.pc = "block" => (Tools[f.i] \in attached' <=> f.on),
           failures' = 0 /\ f.pc # "block" => attached' = attached,
           failures' = 0 /\ f.pc # "block" /\ req[r].pc # "block" => block' = block,
           Undisturbed /\ failures' = 0 /\ f.pc # "block" /\ req[r].pc = "block" => Truthful'
    PROVE  Told'
  <1>1. req' \in [Requests -> Request] /\ req'[r] = f
    BY MoveType DEF TypeOK, Move, MoveAndDisturb
  <1>2. \A q \in Requests \ {r} :
          /\ req'[q].pc = req[q].pc /\ req'[q].kind = req[q].kind
          /\ req'[q].shared = req[q].shared
          /\ req'[q].i = req[q].i /\ req'[q].on = req[q].on
    BY DEF TypeOK, Request, Move, MoveAndDisturb
  <1>3. \A q \in Requests : req'[q].pc \in AtTools => req'[q].kind # "put"
    BY <1>1, <1>2 DEF Told
  <1>4. ASSUME Undisturbed'
        PROVE  /\ \A q, s \in RunsInFlight' : q = s
               /\ \A q \in Requests : req'[q].pc = "block" => (Tools[req'[q].i] \in attached' <=> req'[q].on)
               /\ (\A q \in Requests : req'[q].pc # "block") => Truthful'
    <2>1. failures' = 0 /\ Undisturbed
      BY <1>1, <1>2, <1>4 DEF Undisturbed
    <2>2. \A q \in RunsInFlight' : q \in RunsInFlight
      BY <1>1, <1>2 DEF RunsInFlight, InFlight
    <2>3. \A q, s \in RunsInFlight' : q = s
      BY <2>1, <2>2 DEF Told
    <2>4. ASSUME NEW q \in Requests, req'[q].pc = "block"
          PROVE  Tools[req'[q].i] \in attached' <=> req'[q].on
      <3>1. CASE q = r
        BY <1>1, <2>1, <2>4, <3>1
      <3>2. CASE q # r
        <4>1. q \in RunsInFlight
          BY <1>2, <2>4, <3>2 DEF Told, AtTools, RunsInFlight, InFlight
        <4>2. f.pc # "block"
          <5>1. SUFFICES ASSUME f.pc = "block" PROVE FALSE
            OBVIOUS
          <5>2. r \in RunsInFlight
            BY <5>1 DEF AtTools, RunsInFlight
          <5>. QED
            BY <2>1, <3>2, <4>1, <5>2 DEF Told
        <4>. QED
          BY <1>2, <2>1, <2>4, <3>2, <4>2 DEF Told, Tool
      <3>. QED
        BY <3>1, <3>2
    <2>5. ASSUME \A q \in Requests : req'[q].pc # "block" PROVE Truthful'
      <3>1. f.pc # "block" /\ \A q \in Requests \ {r} : req[q].pc # "block"
        BY <1>1, <1>2, <2>5
      <3>2. CASE req[r].pc = "block"
        BY <2>1, <3>1, <3>2
      <3>3. CASE req[r].pc # "block"
        BY <2>1, <3>1, <3>3 DEF Told, Truthful
      <3>. QED
        BY <3>2, <3>3
    <2>. QED
      BY <2>3, <2>4, <2>5
  <1>5. \A q \in Requests : req'[q].pc = "idle" => ~req'[q].shared
    BY <1>1, <1>2 DEF Told
  <1>. QED
    BY <1>3, <1>4, <1>5 DEF Told, Tool, RunsInFlight, InFlight

\* A request that arrives beside another says so.
LEMMA BeginTold ==
    ASSUME TypeOK, Told, NEW r \in Requests, NEW k \in Kinds, Begin(r, k) PROVE Told'
  <1> DEFINE f == [Fresh EXCEPT !.pc = "read", !.kind = k, !.pinned = k = "eval",
                                !.shared = k # "put" /\ RunsInFlight # {}]
  <1>1. /\ f.pc = "read" /\ f.kind = k /\ f.shared = (k # "put" /\ RunsInFlight # {})
        /\ req' = [req EXCEPT ![r] = f] /\ UNCHANGED <<attached, block, failures>>
        /\ req[r].pc = "idle"
    BY DEF Begin, Fresh, Move
  <1> HIDE DEF f
  <1>2. \A q \in Requests : req'[q] = IF q = r THEN f ELSE req[q]
    BY <1>1 DEF TypeOK
  <1>3. \A q \in Requests : req'[q].pc \in AtTools => req'[q].kind # "put"
    BY <1>1, <1>2 DEF Told, AtTools
  <1>4. ASSUME Undisturbed'
        PROVE  /\ \A q, s \in RunsInFlight' : q = s
               /\ \A q \in Requests : req'[q].pc = "block" => (Tools[req'[q].i] \in attached' <=> req'[q].on)
               /\ (\A q \in Requests : req'[q].pc # "block") => Truthful'
    <2>1. Undisturbed /\ ~f.shared
      BY <1>1, <1>2, <1>4 DEF Undisturbed, Told
    <2>2. \A q \in RunsInFlight' : q \in RunsInFlight \/ (q = r /\ RunsInFlight = {})
      BY <1>1, <1>2, <2>1 DEF RunsInFlight, InFlight
    <2>3. \A q, s \in RunsInFlight' : q = s
      BY <2>1, <2>2 DEF Told
    <2>4. \A q \in Requests : req'[q].pc = "block" <=> req[q].pc = "block"
      BY <1>1, <1>2
    <2>5. ASSUME NEW q \in Requests, req'[q].pc = "block"
          PROVE  Tools[req'[q].i] \in attached' <=> req'[q].on
      BY <1>1, <1>2, <2>1, <2>5 DEF Told, Tool
    <2>6. (\A q \in Requests : req'[q].pc # "block") => Truthful'
      BY <1>1, <2>1, <2>4 DEF Told, Truthful
    <2>. QED
      BY <2>3, <2>5, <2>6
  <1>5. \A q \in Requests : req'[q].pc = "idle" => ~req'[q].shared
    BY <1>1, <1>2 DEF Told
  <1>. QED
    BY <1>3, <1>4, <1>5 DEF Told, Tool, RunsInFlight, InFlight

\* A request at its settings touches neither tool nor block.
LEMMA SettingsTold ==
    ASSUME IInv, Told, NEW r \in Requests,
           ReadSettings(r) \/ ToInsert(r) \/ InsertSettings(r) \/ \E v \in BOOLEAN : Apply(r, v)
    PROVE  Told'
  <1>1. req[r] \in Request /\ TypeOK /\ Setting(r) \in BOOLEAN
    BY DEF IInv, TypeOK, Setting, DefaultSetting
  <1>2. UNCHANGED <<attached, block, failures>> /\ InFlight(r) /\ req[r].pc # "block"
    BY DEF ReadSettings, ToInsert, InsertSettings, Apply, InFlight
  <1>3. CASE \E on \in BOOLEAN : Move(r, HasSettings(req[r], on))
    <2>1. PICK on \in BOOLEAN : Move(r, HasSettings(req[r], on))
      BY <1>3
    <2>2. HasSettings(req[r], on) \in Request
      BY <1>1, HasSettingsType
    <2>. QED
      BY <1>1, <1>2, <2>1, <2>2, HasSettingsKeeps, ToldMove DEF AtTools
  <1>4. CASE \E pc \in {"insert", "failed", "done"} : 
               Move(r, [req[r] EXCEPT !.pc = pc]) \/ MoveAndDisturb(r, [req[r] EXCEPT !.pc = pc])
    <2>1. PICK pc \in {"insert", "failed", "done"} :
               Move(r, [req[r] EXCEPT !.pc = pc]) \/ MoveAndDisturb(r, [req[r] EXCEPT !.pc = pc])
      BY <1>4
    <2> DEFINE f == [req[r] EXCEPT !.pc = pc]
    <2>2. f \in Request /\ f.pc = pc /\ f.kind = req[r].kind /\ f.shared = req[r].shared
      BY <1>1 DEF Request
    <2>3. Move(r, f) \/ MoveAndDisturb(r, f)
      BY <2>1
    <2> HIDE DEF f
    <2>. QED
      BY <1>1, <1>2, <2>2, <2>3, ToldMove DEF AtTools
  <1>5. CASE ReadSettings(r)
    BY <1>1, <1>3, <1>5 DEF ReadSettings
  <1>6. CASE ToInsert(r)
    BY <1>4, <1>6 DEF ToInsert
  <1>7. CASE InsertSettings(r)
    BY <1>3, <1>4, <1>7 DEF InsertSettings, DefaultSetting
  <1>8. CASE \E v \in BOOLEAN : Apply(r, v)
    BY <1>4, <1>8 DEF Apply
  <1>. QED
    BY <1>5, <1>6, <1>7, <1>8

\* A failure ends what the block promises.
LEMMA FailureTold ==
    ASSUME IInv, Told, NEW r \in Requests, Mishaps(r) PROVE Told'
  <1>0. failures \in 0..MaxFailures /\ MaxFailures \in Nat
    BY ConstantsAssumption DEF IInv, TypeOK
  <1>1. req[r] \in Request /\ TypeOK
    BY DEF IInv, TypeOK
  <1>2. failures' # 0 /\ InFlight(r)
    BY <1>0 DEF Mishaps, ListFails, SwitchFails, UpdateBlockFails, Abort, CountFailure, InFlight
  <1>3. \A f \in Request :
          /\ Move(r, f) /\ f.kind = req[r].kind /\ f.shared = req[r].shared
          /\ f.pc = "failed" \/ (f.pc # "idle" /\ f.kind # "put")
          => Told'
    BY <1>1, <1>2, ToldMove DEF AtTools
  <1>4. CASE ListFails(r)
    <2> DEFINE g == [req[r] EXCEPT !.found = FALSE, !.clean = FALSE]
    <2>1. g \in Request /\ g.kind = req[r].kind /\ g.shared = req[r].shared
      BY <1>1 DEF Request
    <2>2. req[r].kind # "put" /\ Move(r, AfterList(g))
      BY <1>4 DEF ListFails, Told, AtTools
    <2> HIDE DEF g
    <2>3. AfterList(g).pc # "idle"
      BY <2>1, AfterListFields
    <2>. QED
      BY <1>3, <2>1, <2>2, <2>3, AfterListType, AfterListKeeps
  <1>5. CASE SwitchFails(r)
    <2> DEFINE f == [req[r] EXCEPT !.pc = "block", !.clean = FALSE]
    <2>1. f \in Request /\ f.kind = req[r].kind /\ f.shared = req[r].shared /\ f.pc = "block"
      BY <1>1 DEF Request
    <2>2. req[r].kind # "put" /\ Move(r, f)
      BY <1>5 DEF SwitchFails, Told, AtTools
    <2> HIDE DEF f
    <2>. QED
      BY <1>3, <2>1, <2>2
  <1>6. CASE UpdateBlockFails(r)
    <2> DEFINE g == [req[r] EXCEPT !.clean = FALSE]
               n == Noted(g, Tool(r))
    <2>1. g \in Request /\ g.kind = req[r].kind /\ g.shared = req[r].shared
      BY <1>1 DEF Request
    <2>2. req[r].kind # "put" /\ Move(r, NextTool(n))
      BY <1>6 DEF UpdateBlockFails, Told, AtTools
    <2> HIDE DEF g
    <2>3. n \in Request /\ n.kind = req[r].kind /\ n.shared = req[r].shared
      <3>1. Tool(r) \in ToolSet
        BY <1>1, ToolsFact DEF Tool, Request
      <3>. QED
        BY <2>1, <3>1, NotedType, NotedKeeps
    <2> HIDE DEF n
    <2>4. NextTool(n).pc # "idle"
      BY <2>3, NextToolFields
    <2>. QED
      BY <1>3, <2>2, <2>3, <2>4, NextToolType, NextToolKeeps
  <1>7. CASE Abort(r)
    <2> DEFINE f == [req[r] EXCEPT !.pc = "failed"]
    <2>1. f \in Request /\ f.kind = req[r].kind /\ f.shared = req[r].shared /\ f.pc = "failed"
      BY <1>1 DEF Request
    <2>2. Move(r, f)
      BY <1>7 DEF Abort
    <2> HIDE DEF f
    <2>. QED
      BY <1>3, <2>1, <2>2
  <1>. QED
    BY <1>4, <1>5, <1>6, <1>7 DEF Mishaps

\* A request at one of its tools.
LEMMA ToolTold ==
    ASSUME IInv, Told, NEW r \in Requests, List(r) \/ Switch(r) \/ UpdateBlock(r) PROVE Told'
  <1>1. req[r] \in Request /\ TypeOK /\ Tool(r) \in ToolSet
    BY ToolsFact DEF IInv, TypeOK, Tool, Request
  <1>2. InFlight(r) /\ req[r].kind # "put" /\ failures' = failures
    BY DEF List, Switch, UpdateBlock, InFlight, Told, AtTools
  <1>3. CASE List(r)
    <2> DEFINE found == Tool(r) \in attached
               g == [req[r] EXCEPT !.found = found]
    <2>0. found \in BOOLEAN
      OBVIOUS
    <2> HIDE DEF found
    <2>1. g \in Request /\ g.kind = req[r].kind /\ g.shared = req[r].shared
      BY <1>1, <2>0 DEF Request
    <2>2. req[r].pc = "list" /\ Move(r, AfterList(g)) /\ UNCHANGED <<attached, block>>
      BY <1>3 DEF List, found
    <2> HIDE DEF g
    <2>3. AfterList(g).pc # "idle"
      BY <2>1, AfterListFields
    <2>. QED
      BY <1>1, <1>2, <2>1, <2>2, <2>3, AfterListType, AfterListKeeps, ToldMove
  <1>4. CASE Switch(r)
    <2> DEFINE f == [req[r] EXCEPT !.pc = "block"]
    <2>1. /\ f \in Request /\ f.kind = req[r].kind /\ f.shared = req[r].shared
          /\ f.pc = "block" /\ f.i = req[r].i /\ f.on = req[r].on
      BY <1>1 DEF Request
    <2>2. /\ Move(r, f) \/ MoveAndDisturb(r, f)
          /\ attached' = IF req[r].on THEN attached \union {Tool(r)} ELSE attached \ {Tool(r)}
      BY <1>4 DEF Switch
    <2> HIDE DEF f
    <2>3. Tools[f.i] \in attached' <=> f.on
      BY <1>1, <2>1, <2>2 DEF Tool, Request
    <2>. QED
      BY <1>1, <1>2, <2>1, <2>2, <2>3, ToldMove
  <1>5. CASE UpdateBlock(r)
    <2> DEFINE n == Noted(req[r], Tool(r))
    <2>1. n \in Request /\ n.kind = req[r].kind /\ n.shared = req[r].shared
      BY <1>1, NotedType, NotedKeeps
    <2>2. /\ req[r].pc = "block" /\ Move(r, NextTool(n)) /\ attached' = attached
          /\ block' = StatusText(Tool(r), req[r].on)
      BY <1>5 DEF UpdateBlock
    <2> HIDE DEF n
    <2>3. NextTool(n).pc # "idle" /\ NextTool(n).pc # "block"
      BY <2>1, NextToolFields
    <2>4. block'[1] = req[r].on /\ req[r].on \in BOOLEAN
      BY <1>1, <2>2 DEF StatusText, Request
    <2>5. ASSUME Undisturbed PROVE Truthful'
      <3>1. Tool(r) \in attached <=> req[r].on
        BY <2>2, <2>5 DEF Told
      <3>. QED
        BY <1>1, <2>2, <2>4, <3>1 DEF Truthful
    <2>. QED
      BY <1>1, <1>2, <2>1, <2>2, <2>3, <2>5, NextToolType, NextToolKeeps, ToldMove
  <1>. QED
    BY <1>3, <1>4, <1>5
\* A request at its message: tools and block are settled.
LEMMA MessageTold ==
    ASSUME IInv, Told, NEW r \in Requests,
           Ask(r) \/ CallBack(r) \/ CallReturns(r) \/ Answer(r)
    PROVE  Told'
  <1>1. req[r] \in Request /\ TypeOK /\ Note(req[r]) \in Texts
    BY ToolsFact DEF IInv, TypeOK, Note, Request
  <1>2. /\ UNCHANGED <<attached, block, failures>> /\ InFlight(r)
        /\ req[r].pc # "block" /\ req[r].kind # "put"
    BY DEF Ask, CallBack, CallReturns, Answer, InFlight, Told, AtTools
  <1>3. \A f \in Request :
          /\ Move(r, f) /\ f.kind = req[r].kind /\ f.shared = req[r].shared
          /\ f.pc \in {"asked", "calling", "done"}
          => Told'
    BY <1>1, <1>2, ToldMove
  <1>4. CASE Ask(r)
    <2> DEFINE f == [req[r] EXCEPT !.pc = "asked", !.sent = Note(req[r])]
    <2>1. f \in Request /\ f.kind = req[r].kind /\ f.shared = req[r].shared /\ f.pc = "asked"
      BY <1>1 DEF Request
    <2>2. Move(r, f)
      BY <1>4 DEF Ask
    <2> HIDE DEF f
    <2>. QED
      BY <1>3, <2>1, <2>2
  <1>5. CASE CallBack(r)
    <2> DEFINE f == [req[r] EXCEPT !.pc = "calling", !.called = TRUE]
    <2>1. f \in Request /\ f.kind = req[r].kind /\ f.shared = req[r].shared /\ f.pc = "calling"
      BY <1>1 DEF Request
    <2>2. Move(r, f)
      BY <1>5 DEF CallBack
    <2> HIDE DEF f
    <2>. QED
      BY <1>3, <2>1, <2>2
  <1>6. CASE CallReturns(r) \/ Answer(r)
    <2>1. PICK pc \in {"asked", "done"} : Move(r, [req[r] EXCEPT !.pc = pc])
      BY <1>6 DEF CallReturns, Answer
    <2> DEFINE f == [req[r] EXCEPT !.pc = pc]
    <2>2. f \in Request /\ f.kind = req[r].kind /\ f.shared = req[r].shared /\ f.pc = pc
      BY <1>1 DEF Request
    <2>3. Move(r, f)
      BY <2>1
    <2> HIDE DEF f
    <2>. QED
      BY <1>3, <2>2, <2>3
  <1>. QED
    BY <1>4, <1>5, <1>6

LEMMA StepTold == IInv /\ Told /\ [Next]_vars => Told'
  <1> SUFFICES ASSUME IInv, Told, [Next]_vars PROVE Told'
    OBVIOUS
  <1>1. ASSUME NEW r \in Requests, NEW k \in Kinds, Begin(r, k) PROVE Told'
    BY <1>1, BeginTold DEF IInv
  <1>2. ASSUME NEW r \in Requests, Moves(r) \/ CallBack(r) PROVE Told'
    BY <1>2, SettingsTold, ToolTold, MessageTold DEF Moves
  <1>3. ASSUME NEW r \in Requests, Mishaps(r) PROVE Told'
    BY <1>3, FailureTold
  <1>4. CASE UNCHANGED vars
    BY <1>4 DEF vars, Told, Undisturbed, Truthful, RunsInFlight, InFlight, Tool
  <1>. QED
    BY <1>1, <1>2, <1>3, <1>4 DEF Next

\* When the message of an undisturbed request goes out, the agent has the tools
\* its block speaks of, all or none, whenever and however often the setting was
\* changed before (_ensure_tool_setting), as long as no call to Letta failed
\* and no two chats or runs overlapped.
THEOREM BlockTellsTheTruth == Spec => []BlockAgrees
  <1>1. IInv /\ Told /\ CleanRequestSettles => BlockAgrees
    <2> SUFFICES ASSUME IInv, Told, CleanRequestSettles, Undisturbed, NEW r \in Requests,
                        req[r].pc = "ask", req[r].clean
                 PROVE  attached = IF block[1] = TRUE THEN ToolSet ELSE {}
      BY DEF BlockAgrees, Undisturbed
    <2>1. \A q \in Requests : req[q].pc = "ask" \/ req[q].pc = "block" => q \in RunsInFlight
      BY DEF Told, AtTools, RunsInFlight, InFlight
    <2>2. \A q \in Requests : req[q].pc # "block"
      BY <2>1 DEF Told
    <2>3. Truthful
      BY <2>2 DEF Told
    <2>4. attached = IF row = TRUE THEN ToolSet ELSE {}
      BY DEF CleanRequestSettles
    <2>5. ToolSet # {}
      BY ToolsFact
    <2>. QED
      BY <2>3, <2>4, <2>5 DEF Truthful
  <1>. QED
    BY <1>1, SpecIInv, OneCleanRequestRepairs, ToldInit, StepTold, PTL DEF Spec
=============================================================================
