--------------------------- MODULE MCSharedState ---------------------------
(***************************************************************************)
(* SharedState on small instances.                                         *)
(***************************************************************************)
EXTENDS SharedState, TLC

CONSTANTS n1, t1, pkgP, pkgQ, other, pDir, loose, qDir

\* A lesson whose category may be the name of the skill.
MCLesson == {[name |-> n1, text |-> t1]}

\* pkgP brings pkgQ along, and has an entry with the name of no package: it stays
\* when pkgP goes, and goes when it is asked for itself.
MCOwns == pkgP :> {pDir, loose} @@ pkgQ :> {qDir}
MCNeeds == pkgP :> {pkgP, pkgQ} @@ pkgQ :> {pkgQ}
MCStem == pDir :> pkgP @@ loose :> other @@ qDir :> pkgQ

\* One evaluation whose check reads the answer, and one that needs a judge; they
\* set the same switch, differently.
Def(check, set) == [turns |-> 1, check |-> check, route |-> TRUE, set |-> set]
MCDefs == {Def("positive", FALSE), Def("judge", TRUE)}

\* Requests, names, passwords, versions and the slots of preparations, pip
\* processes and evaluations are chosen freely.
Alike == Permutations(Req) \union Permutations(Name) \union Permutations(Pw)
=============================================================================
