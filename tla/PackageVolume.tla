--------------------------- MODULE PackageVolume ---------------------------
(***************************************************************************)
(* The sidecar puts packages into the directory the agents import from:    *)
(* pip, in a process of its own, makes them elsewhere and moves them in,   *)
(* one entry after the other; the sidecar takes entries out itself, by     *)
(* their names, on its event loop.  pip is killed when it takes too long,  *)
(* two of them may run at once, and either meets what the other does.      *)
(***************************************************************************)
EXTENDS FiniteSets, Naturals

CONSTANTS
    Job,            \* slots for runs of pip
    Pkg, Version,
    Entry,          \* directories and files a package is imported from
    Owns,           \* the entries of each package
    Needs,          \* the packages that come with a package, itself included
    Given,          \* the names an uninstall may be given: those of packages and others
    Stem,           \* the name an entry goes by in an uninstall, None if nobody can give it
    MaxRequests, MaxKills, None

VARIABLES
    code,           \* /extra-packages: the version of every entry, or None
    info,           \* the .dist-info directories: packages with their versions
    job,            \* runs of pip: what is still to be moved in
    removal,        \* the uninstall on the event loop
    requests, kills,
    mixed,          \* (history) two of them were at work at once
    cut             \* (history) packages that a run that did not get to its end may have left in part

vars == <<code, info, job, removal, requests, kills, mixed, cut>>

Infos == Pkg \X Version
NoJob == [pkg |-> None, entries |-> {}, infos |-> {}, ver |-> None]
NoRemoval == [pkg |-> None, entries |-> {}, infos |-> {}]
Idle(j) == job[j] = NoJob
AtWork == {j \in Job : ~Idle(j)}
Quiet == AtWork = {} /\ removal = NoRemoval

Init ==
    /\ code = [e \in Entry |-> None] /\ info = {}
    /\ job = [j \in Job |-> NoJob] /\ removal = NoRemoval
    /\ requests = 0 /\ kills = 0 /\ mixed = FALSE /\ cut = {}

Arrive == requests < MaxRequests /\ requests' = requests + 1
Kill == kills < MaxKills /\ kills' = kills + 1

-----------------------------------------------------------------------------
\* pip install --target: everything is built elsewhere first.  (While an
\* uninstall runs, the event loop answers nobody.)
Install(j, p, v) ==
    /\ Idle(j) /\ removal = NoRemoval /\ Arrive
    /\ job' = [job EXCEPT ![j] = [pkg |-> p, entries |-> UNION {Owns[r] : r \in Needs[p]},
                                  infos |-> Needs[p] \X {v}, ver |-> v]]
    /\ mixed' = (mixed \/ AtWork # {})
    /\ UNCHANGED <<code, info, removal, kills, cut>>

\* What is there already is left as it is: there is no --upgrade.
MoveEntry(j, e) ==
    /\ e \in job[j].entries
    /\ code' = IF code[e] = None THEN [code EXCEPT ![e] = job[j].ver] ELSE code
    /\ job' = [job EXCEPT ![j].entries = @ \ {e}]
    /\ UNCHANGED <<info, removal, requests, kills, mixed, cut>>

MoveInfo(j, i) ==
    /\ i \in job[j].infos
    /\ info' = info \union {i}
    /\ job' = [job EXCEPT ![j].infos = @ \ {i}]
    /\ UNCHANGED <<code, removal, requests, kills, mixed, cut>>

Answer(j) ==
    /\ ~Idle(j) /\ job[j].entries = {} /\ job[j].infos = {}
    /\ job' = [job EXCEPT ![j] = NoJob]
    /\ UNCHANGED <<code, info, removal, requests, kills, mixed, cut>>

\* pip finds no such package, or cannot make it, and has moved nothing.
Refuse(j) ==
    /\ ~Idle(j) /\ job[j].entries = UNION {Owns[r] : r \in Needs[job[j].pkg]}
    /\ job[j].infos = Needs[job[j].pkg] \X {job[j].ver}
    /\ job' = [job EXCEPT ![j] = NoJob]
    /\ UNCHANGED <<code, info, removal, requests, kills, mixed, cut>>

\* Packages of which some is still to be moved or removed; what is half moved
\* counts as gone, what is half removed as there.
LeftByPip(j) == {p \in Pkg : Owns[p] \intersect job[j].entries # {}}
LeftByRemoval == {removal.pkg} \intersect Pkg

\* pip fails while it moves, the disk is full: what it has moved stays.
PipFails(j) ==
    /\ ~Idle(j) /\ Kill
    /\ job' = [job EXCEPT ![j] = NoJob] /\ cut' = cut \union LeftByPip(j)
    /\ UNCHANGED <<code, info, removal, requests, mixed>>

\* Two minutes are over.  The event loop sees to it, when it has the time.
TimeOut(j) ==
    /\ ~Idle(j) /\ removal = NoRemoval /\ Kill
    /\ job' = [job EXCEPT ![j] = NoJob] /\ cut' = cut \union LeftByPip(j)
    /\ UNCHANGED <<code, info, removal, requests, mixed>>

-----------------------------------------------------------------------------
\* uninstall_package: the entries that are there when it begins and whose names,
\* up to the first hyphen, are the name given, be it a package's or not.
\* Variant: the hyphen is not looked for, and no .dist-info matches.
NamedWhole(n) == [entries |-> {e \in Entry : code[e] # None /\ Stem[e] = n}, infos |-> {}]
Named(n) == [entries |-> {e \in Entry : code[e] # None /\ Stem[e] = n},
             infos |-> {i \in info : i[1] = n}]

BeginUninstall(n) ==
    /\ removal = NoRemoval /\ Arrive
    /\ Named(n).entries \union Named(n).infos # {}
    /\ removal' = [pkg |-> n, entries |-> Named(n).entries, infos |-> Named(n).infos]
    /\ mixed' = (mixed \/ AtWork # {})
    /\ UNCHANGED <<code, info, job, kills, cut>>

RemoveEntry(e) ==
    /\ e \in removal.entries
    /\ code' = [code EXCEPT ![e] = None] /\ removal' = [removal EXCEPT !.entries = @ \ {e}]
    /\ UNCHANGED <<info, job, requests, kills, mixed, cut>>

RemoveInfo(i) ==
    /\ i \in removal.infos
    /\ info' = info \ {i} /\ removal' = [removal EXCEPT !.infos = @ \ {i}]
    /\ UNCHANGED <<code, job, requests, kills, mixed, cut>>

\* It makes good a package that was left in part, if all its files bear its name.
EndUninstall ==
    /\ removal # NoRemoval /\ removal.entries = {} /\ removal.infos = {}
    /\ removal' = NoRemoval
    /\ cut' = {p \in cut : p # removal.pkg \/ \E e \in Owns[p] : Stem[e] # p}
    /\ UNCHANGED <<code, info, job, requests, kills, mixed>>

\* A removal raises, and the rest of the list is not gone through.
RemovalFails ==
    /\ removal # NoRemoval /\ Kill
    /\ removal' = NoRemoval /\ cut' = cut \union LeftByRemoval
    /\ UNCHANGED <<code, info, job, requests, mixed>>

\* The container is gone, with every run of pip.
Restart ==
    /\ Kill /\ ~Quiet
    /\ job' = [j \in Job |-> NoJob] /\ removal' = NoRemoval
    /\ cut' = cut \union LeftByRemoval \union UNION {LeftByPip(j) : j \in Job}
    /\ UNCHANGED <<code, info, requests, mixed>>

Next ==
    \/ \E j \in Job :
         \/ \E p \in Pkg, v \in Version : Install(j, p, v)
         \/ \E e \in Entry : MoveEntry(j, e)
         \/ \E i \in Infos : MoveInfo(j, i)
         \/ Answer(j) \/ Refuse(j) \/ PipFails(j) \/ TimeOut(j)
    \/ \E n \in Given : BeginUninstall(n)
    \/ \E e \in Entry : RemoveEntry(e)
    \/ \E i \in Infos : RemoveInfo(i)
    \/ EndUninstall \/ RemovalFails \/ Restart

Spec == Init /\ [][Next]_vars

-----------------------------------------------------------------------------
TypeOK ==
    /\ code \in [Entry -> Version \union {None}] /\ info \subseteq Infos
    /\ job \in [Job -> [pkg : Pkg \union {None}, entries : SUBSET Entry, infos : SUBSET Infos,
                        ver : Version \union {None}]]
    /\ removal \in [pkg : Given \union {None}, entries : SUBSET Entry, infos : SUBSET Infos]
    /\ mixed \in BOOLEAN /\ cut \subseteq Pkg

\* The entries of a package that nobody can take out by another name than its own.
Own(p) == {e \in Owns[p] : Stem[e] \in {p, None}}

\* pip list --path reads the .dist-info directories, agents import the code.
\* Whatever is installed and taken out one after the other, in any version and
\* with its dependencies, and whatever of it fails or is killed, what is listed
\* can be imported: but for a package that was itself left in part, and for an
\* entry that bears another name: yaml, of PyYAML, goes when another package of
\* that name goes or when yaml is asked for, and PyYAML stays listed.
ListedHasCode ==
    ~mixed /\ Quiet => \A i \in info : i[1] \in cut \/ \A e \in Own(i[1]) : code[e] # None
=============================================================================
