---------------------------- MODULE SkillMemory ----------------------------
(***************************************************************************)
(* Skills are rows with files and links to tools; before every message the *)
(* skills and the lessons that are asked for are copied into the agent's   *)
(* archival memory in Letta, one call at a time, each after a search by    *)
(* tags for a passage that is there already.  Any call may fail, or        *)
(* succeed without the answer arriving; preparations overlap, and rows     *)
(* change while they run.                                                  *)
(***************************************************************************)
EXTENDS Naturals, FiniteSets

CONSTANTS
    Prep,         \* slots for preparations
    Skill, Name, Text,
    Part,         \* paths of text files (binary ones are not copied)
    Tool,
    Lesson,       \* lessons: [name (its category), text]
    MaxPreps, MaxEdits, MaxFails,
    None

VARIABLES
    skills,       \* committed: [name, text, parts, tools] or None
    tools,        \* committed
    memory,       \* the passages of the agent
    prep,
    gh,           \* the request that creates a skill from GitHub
    preps, edits, fails,
    headless,     \* (history) names whose files were copied and whose text was not
    blind,        \* (history) a search failed
    overlap       \* (history) two preparations ran at once

vars == <<skills, tools, memory, prep, gh, preps, edits, fails, headless, blind, overlap>>
history == <<headless, blind, overlap>>

Row == [name : Name, text : Text, parts : SUBSET Part, tools : SUBSET Tool]
Kinds == {"skills", "lessons"}
\* part: the path of the file, None for the text of the skill or lesson.
Passage == [kind : Kinds, name : Name, part : Part \union {None}, text : Text \union {None}, copy : Nat]
Item == [kind : Kinds, name : Name, id : Skill \union {None}, text : Text]
NoPrep == [phase |-> "idle", todo |-> {}, item |-> None, parts |-> {}, part |-> None, reported |-> {}]
NoRequest == None

Init ==
    /\ skills = [s \in Skill |-> None] /\ tools = Tool /\ memory = {}
    /\ prep = [q \in Prep |-> NoPrep] /\ gh = NoRequest
    /\ preps = 0 /\ edits = 0 /\ fails = 0
    /\ headless = {} /\ blind = FALSE /\ overlap = FALSE

Edit == edits < MaxEdits /\ edits' = edits + 1
Fail == fails < MaxFails /\ fails' = fails + 1
rows == <<skills, tools, gh, edits>>
Rows == {s \in Skill : skills[s] # None}
\* check_unique_for_user, and the unique index behind it.
FreeName(n) == (\A s \in Rows : skills[s].name # n) /\ (gh # NoRequest => gh.row.name # n)
Vacant(s) == skills[s] = None /\ (gh # NoRequest => gh.skill # s)

-----------------------------------------------------------------------------
\* What a request holds: its text and the links the user chose; an archive, or a
\* directory of GitHub, with a SKILL.md and other files, those of tool.yaml aside.
Typed == {row \in Row : row.parts = {} /\ row.tools \subseteq tools}
FromZip == {row \in Row : row.tools = {}}
FromGithub == {row \in Row : row.tools = {}}

\* persist_skill: one transaction for the row, its files and its links.
Persist(s, row) ==
    /\ Vacant(s) /\ Edit
    /\ skills' = [skills EXCEPT ![s] = row]
    /\ UNCHANGED <<tools, memory, prep, gh, preps, fails, history>>

CreateSkill(s, row) == row \in Typed /\ FreeName(row.name) /\ Persist(s, row)
UploadSkill(s, row) == row \in FromZip /\ FreeName(row.name) /\ Persist(s, row)
\* An import gives a skill whose name is taken another one.
ImportSkill(s, row) ==
    /\ row.tools = {}
    /\ \E n \in Name : FreeName(n) /\ (FreeName(row.name) => n = row.name)
                        /\ Persist(s, [row EXCEPT !.name = n])

\* The name, the text and the links, each if it is given.
UpdateSkill(s, n, t, ts) ==
    /\ s \in Rows /\ Edit
    /\ n = skills[s].name \/ FreeName(n)
    /\ skills' = [skills EXCEPT ![s].name = n, ![s].text = t, ![s].tools = ts]
    /\ ts \subseteq tools
    /\ UNCHANGED <<tools, memory, prep, gh, preps, fails, history>>

\* Files and links go with it; what agents remember stays.
DeleteSkill(s) ==
    /\ s \in Rows /\ Edit
    /\ skills' = [skills EXCEPT ![s] = None]
    /\ UNCHANGED <<tools, memory, prep, gh, preps, fails, history>>

DeleteTool(t) ==
    /\ t \in tools /\ (gh # NoRequest => t \notin gh.row.tools) /\ Edit
    /\ tools' = tools \ {t}
    /\ skills' = [s \in Skill |-> IF skills[s] = None THEN None ELSE [skills[s] EXCEPT !.tools = @ \ {t}]]
    /\ UNCHANGED <<memory, prep, gh, preps, fails, history>>

\* create_skill_from_github: the row and its files are flushed, then the tool
\* beside it is fetched and registered, or found, and linked.
BeginGithub(s, row) ==
    /\ gh = NoRequest /\ Vacant(s) /\ FreeName(row.name) /\ row \in FromGithub /\ Edit
    /\ gh' = [skill |-> s, row |-> row]
    /\ UNCHANGED <<skills, tools, memory, prep, preps, fails, history>>

LinkTool(t) ==
    /\ gh # NoRequest /\ gh.row.tools = {}
    /\ gh' = [gh EXCEPT !.row.tools = {t}]
    /\ UNCHANGED <<skills, tools, memory, prep, preps, edits, fails, history>>

EndGithub ==
    /\ gh # NoRequest
    /\ \/ /\ skills' = [skills EXCEPT ![gh.skill] = gh.row]
          /\ tools' = tools \union gh.row.tools
          /\ UNCHANGED fails
       \/ Fail /\ UNCHANGED <<skills, tools>>
    /\ gh' = NoRequest
    /\ UNCHANGED <<memory, prep, preps, edits, history>>

-----------------------------------------------------------------------------
\* The tags of a passage: a set, without roles.
Tags(kind, name, part) == {kind, name} \union (IF part = None THEN {} ELSE {"files", part})
\* A search for passages that have all the tags asked for, and may have more: a
\* file's passage has those of its skill.
\* Variant: passages that have one of the tags.
PresentAny(kind, name, part) ==
    \E m \in memory : Tags(kind, name, part) \intersect Tags(m.kind, m.name, m.part) # {}
\* Variant: lessons are copied without a search.
PresentSkills(kind, name, part) ==
    kind = "skills" /\ \E m \in memory : Tags(kind, name, part) \subseteq Tags(m.kind, m.name, m.part)
Present(kind, name, part) ==
    \E m \in memory : Tags(kind, name, part) \subseteq Tags(m.kind, m.name, m.part)

Copies(kind, name, part) == {m \in memory : m.kind = kind /\ m.name = name /\ m.part = part}
Inserted(kind, name, part, text) ==
    memory \union {[kind |-> kind, name |-> name, part |-> part, text |-> text,
                    copy |-> Cardinality(Copies(kind, name, part)) + 1]}
HasText(kind, name) == Copies(kind, name, None) # {}

Move(q, p) == prep' = [prep EXCEPT ![q] = p]
At(q, phase) == prep[q].phase = phase
\* get_skills_by_ids: the rows as they are now; lessons come after the skills.
Items(ss, ls) ==
    {[kind |-> "skills", name |-> skills[s].name, id |-> s, text |-> skills[s].text] : s \in ss}
    \union {[kind |-> "lessons", name |-> l.name, id |-> None, text |-> l.text] : l \in ls}

BeginPrep(q, ss, ls) ==
    /\ At(q, "idle") /\ preps < MaxPreps /\ preps' = preps + 1
    /\ ss \subseteq Rows /\ ss \union ls # {}
    /\ Move(q, [NoPrep EXCEPT !.phase = "next", !.todo = Items(ss, ls)])
    /\ overlap' = (overlap \/ \E p \in Prep : ~At(p, "idle"))
    /\ UNCHANGED <<rows, memory, fails, headless, blind>>

SkillsLeft(q) == {i \in prep[q].todo : i.kind = "skills"}
Candidates(q) == IF SkillsLeft(q) # {} THEN SkillsLeft(q) ELSE prep[q].todo
\* Variant: the id goes into the report.
ReportId(q) == prep[q].reported \union {<<prep[q].item.kind, prep[q].item.id>>}
Report(q) == prep[q].reported \union {<<prep[q].item.kind, prep[q].item.name>>}

\* Found: it counts as available.  Not found: it is to be created.
Search(q) ==
    /\ At(q, "next")
    /\ \E i \in Candidates(q) :
         IF Present(i.kind, i.name, None)
           THEN Move(q, [prep[q] EXCEPT !.todo = @ \ {i}, !.reported = @ \union {<<i.kind, i.name>>}])
           ELSE Move(q, [prep[q] EXCEPT !.todo = @ \ {i}, !.item = i, !.phase = "create"])
    /\ UNCHANGED <<rows, memory, preps, fails, history>>

\* A search that fails has found nothing.
SearchFails(q) ==
    /\ At(q, "next") /\ Fail /\ blind' = TRUE
    /\ \E i \in Candidates(q) : Move(q, [prep[q] EXCEPT !.todo = @ \ {i}, !.item = i, !.phase = "create"])
    /\ UNCHANGED <<rows, memory, preps, headless, overlap>>

\* After the text, the files as the table has them now.
AfterText(q) == IF prep[q].item.kind = "skills" THEN "files" ELSE "next"
FilesNow(q) == LET s == prep[q].item.id IN IF s \in Rows THEN skills[s].parts ELSE {}

Create(q) ==
    LET i == prep[q].item IN
    /\ At(q, "create")
    /\ memory' = Inserted(i.kind, i.name, None, i.text)
    /\ Move(q, [prep[q] EXCEPT !.phase = AfterText(q), !.parts = FilesNow(q), !.reported = Report(q)])
    /\ UNCHANGED <<rows, preps, fails, history>>

\* The call fails, whether Letta has done it or not; the files follow all the same.
CreateFails(q) ==
    LET i == prep[q].item IN
    /\ At(q, "create") /\ Fail
    /\ memory' \in {memory, Inserted(i.kind, i.name, None, i.text)}
    /\ Move(q, [prep[q] EXCEPT !.phase = AfterText(q), !.parts = FilesNow(q)])
    /\ UNCHANGED <<rows, preps, history>>

SearchFile(q) ==
    /\ At(q, "files")
    /\ \E p \in prep[q].parts :
         IF Present("skills", prep[q].item.name, p)
           THEN Move(q, [prep[q] EXCEPT !.parts = @ \ {p}])
           ELSE Move(q, [prep[q] EXCEPT !.parts = @ \ {p}, !.part = p, !.phase = "file"])
    /\ UNCHANGED <<rows, memory, preps, fails, history>>

SearchFileFails(q) ==
    /\ At(q, "files") /\ Fail /\ blind' = TRUE
    /\ \E p \in prep[q].parts : Move(q, [prep[q] EXCEPT !.parts = @ \ {p}, !.part = p, !.phase = "file"])
    /\ UNCHANGED <<rows, memory, preps, headless, overlap>>

CopyFile(q) ==
    LET n == prep[q].item.name IN
    /\ At(q, "file")
    /\ \/ memory' = Inserted("skills", n, prep[q].part, None) /\ UNCHANGED fails
       \/ Fail /\ UNCHANGED memory
    /\ headless' = IF memory' # memory /\ ~HasText("skills", n) THEN headless \union {n} ELSE headless
    /\ Move(q, [prep[q] EXCEPT !.phase = "files", !.part = None])
    /\ UNCHANGED <<rows, preps, blind, overlap>>

FilesDone(q) ==
    /\ At(q, "files") /\ prep[q].parts = {}
    /\ Move(q, [prep[q] EXCEPT !.phase = "next"])
    /\ UNCHANGED <<rows, memory, preps, fails, history>>

\* The message goes out; or the request, or the backend, is gone before that.
EndPrep(q) ==
    /\ At(q, "next") /\ prep[q].todo = {}
    /\ Move(q, NoPrep)
    /\ UNCHANGED <<rows, memory, preps, fails, history>>
Interrupted(q) ==
    /\ ~At(q, "idle") /\ Fail
    /\ Move(q, NoPrep)
    /\ UNCHANGED <<rows, memory, preps, history>>

Next ==
    \/ \E s \in Skill, row \in Row : 
         CreateSkill(s, row) \/ UploadSkill(s, row) \/ ImportSkill(s, row) \/ BeginGithub(s, row)
    \/ \E s \in Skill, n \in Name, t \in Text, ts \in SUBSET Tool : UpdateSkill(s, n, t, ts)
    \/ \E s \in Skill : DeleteSkill(s)
    \/ \E t \in Tool : DeleteTool(t) \/ LinkTool(t)
    \/ EndGithub
    \/ \E q \in Prep :
         \/ \E ss \in SUBSET Skill, ls \in SUBSET Lesson : BeginPrep(q, ss, ls)
         \/ Search(q) \/ SearchFails(q) \/ Create(q) \/ CreateFails(q)
         \/ SearchFile(q) \/ SearchFileFails(q)
         \/ CopyFile(q) \/ FilesDone(q) \/ EndPrep(q) \/ Interrupted(q)

Spec == Init /\ [][Next]_vars

-----------------------------------------------------------------------------
TypeOK ==
    /\ skills \in [Skill -> Row \union {None}] /\ tools \subseteq Tool
    /\ memory \subseteq Passage
    /\ prep \in [Prep -> [phase : {"idle", "next", "create", "files", "file"}, todo : SUBSET Item,
                          item : Item \union {None}, parts : SUBSET Part, part : Part \union {None},
                          reported : SUBSET (Kinds \X Name)]]
    /\ gh \in [skill : Skill, row : Row] \union {NoRequest}
    /\ headless \subseteq Name /\ blind \in BOOLEAN /\ overlap \in BOOLEAN

\* A name that is also one of the tags around it, or the path of a file: skills
\* may be called LICENSE, skills or files.  Or a file whose path is the other kind.
Mistakable(kind, name) ==
    \/ name \in Kinds \union {"files"}
    \/ \E m \in memory : m.part = name \/ (m.part = kind /\ m.kind # kind /\ m.name = name)

\* What a preparation takes for available is in the agent's memory, unless an
\* earlier one has left the files of the skill there without its text: from
\* then on the search for the skill finds a file; or the name can be mistaken
\* for a tag of something else.
ReportedIsThere ==
    \A q \in Prep : \A r \in prep[q].reported :
        \/ HasText(r[1], r[2])
        \/ r[1] = "skills" /\ r[2] \in headless
        \/ Mistakable(r[1], r[2])

\* A skill or a lesson, and each file, is remembered once at most, however often
\* it is prepared and changed, deleted and made anew in between, as long as no
\* search failed and no two preparations ran at once.
RememberedOnce == blind \/ overlap \/ \A m \in memory : m.copy = 1
=============================================================================
