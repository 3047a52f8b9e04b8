---------------------------- MODULE SharedState ----------------------------
(***************************************************************************)
(* Requests that overlap on state that outlives them: the account and its  *)
(* tokens, the passages of an agent, the packages on the shared volume,    *)
(* the switches that evaluations set for the user.  The four modules share *)
(* no variable, so a behaviour of all of them is one of each; each         *)
(* behaviour here is one of a single module, the others rest (Parts        *)
(* chooses among them).                                                    *)
(***************************************************************************)
EXTENDS AuthSessions, FiniteSets

CONSTANTS
    Parts,        \* of "sessions", "memory", "volume", "evals"
    Prep, Skill, SkillName, Text, Part, Tool, Lesson, MaxPreps, MaxEdits, MaxFails,
    Job, Pkg, Version, Entry, Owns, Needs, Given, Stem, MaxRequests, MaxKills,
    Eval, Scen, Defs, Mock, Pool, MaxEvals, MaxEvents

VARIABLES
    part,         \* the module that does not rest
    skills, tools, memory, prep, gh, preps, edits, fails, headless, blind, overlap,
    code, info, job, removal, requests, kills, mixed, cut,
    scen, runs, settings, agent, req, evalJob, stray, evals, events

memoryVars == <<skills, tools, memory, prep, gh, preps, edits, fails, headless, blind, overlap>>
volumeVars == <<code, info, job, removal, requests, kills, mixed, cut>>
evalVars == <<scen, runs, settings, agent, req, evalJob, stray, evals, events>>
allVars == <<part, vars, memoryVars, volumeVars, evalVars>>

\* Lessons have a category, which may be the name of a skill; their names and
\* their text are the passages' tags and text.
ASSUME MemoryAssumption ==
    /\ IsFiniteSet(Prep) /\ Lesson \subseteq [name : SkillName, text : Text]
    /\ None \notin Part
\* An uninstall may be given the name of every package, and other names; an entry
\* goes by one of them or by a name that is refused.
ASSUME VolumeAssumption ==
    /\ Owns \in [Pkg -> SUBSET Entry] /\ Needs \in [Pkg -> SUBSET Pkg]
    /\ Pkg \subseteq Given /\ Stem \in [Entry -> Given \union {None}]
    /\ None \notin Given /\ None \notin Version
\* The definitions that the backend hands to the container.
ASSUME EvalsAssumption ==
    /\ IsFiniteSet(Eval) /\ Pool \in Nat /\ Mock \in BOOLEAN
    /\ None \notin BOOLEAN
    /\ Defs \subseteq [turns : Nat, route : BOOLEAN, set : BOOLEAN \union {None},
                       check : {"none", "positive", "negative", "judge", "incomplete", "refused"}]

Memory == INSTANCE SkillMemory WITH Name <- SkillName
Volume == INSTANCE PackageVolume
Evals == INSTANCE EvalRuns WITH Req <- Eval, job <- evalJob

SharedInit ==
    /\ part \in Parts
    /\ Init /\ Memory!Init /\ Volume!Init /\ Evals!Init
    /\ part # "evals" => scen = [s \in Scen |-> None]
SharedNext ==
    \/ part = "sessions" /\ Next /\ UNCHANGED <<part, memoryVars, volumeVars, evalVars>>
    \/ part = "memory" /\ Memory!Next /\ UNCHANGED <<part, vars, volumeVars, evalVars>>
    \/ part = "volume" /\ Volume!Next /\ UNCHANGED <<part, vars, memoryVars, evalVars>>
    \/ part = "evals" /\ Evals!Next /\ UNCHANGED <<part, vars, memoryVars, volumeVars>>
SharedSpec == SharedInit /\ [][SharedNext]_allVars

\* The types of the state of the module that does not rest.
SharedTypeOK ==
    /\ part = "sessions" => TypeOK
    /\ part = "memory" => Memory!TypeOK
    /\ part = "volume" => Volume!TypeOK
    /\ part = "evals" => Evals!TypeOK

\* What a preparation takes for available is in the agent's memory, unless an
\* earlier one has left the files of the skill there without its text, or its
\* name can be mistaken for a tag of something else (agents.archival_memory).
ReportedIsThere == Memory!ReportedIsThere

\* A skill or a lesson, and each file, is remembered once at most, as long as no
\* search failed and no two preparations ran at once (agents.archival_memory).
RememberedOnce == Memory!RememberedOnce

\* Whatever is installed and taken out one after the other, and whatever of it
\* fails, what is listed can be imported, but for packages left in part
\* themselves and for what bears another name (pip-sidecar/app.py).
ListedHasCode == Volume!ListedHasCode

\* A chat goes under the switch its evaluation has set, unless another
\* evaluation or the user has set it since (evals.routes, eval/app.py).
UnderItsSettings == Evals!UnderItsSettings
=============================================================================
