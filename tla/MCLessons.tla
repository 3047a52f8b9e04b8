----------------------------- MODULE MCLessons -----------------------------
(***************************************************************************)
(* Lessons with a cap of one, and three or four ids.                       *)
(***************************************************************************)
EXTENDS Lessons, TLC

Symmetry == Permutations(Lessons) \union Permutations(Runs)

\* The table as earlier runs may have left it: lessons at the lowest score
\* that is kept, and new ones.
Row0(cat, score) == [cat |-> cat, score |-> score, used |-> 0]
Left == {Row0("recovery", LowestScore), Row0("other", 0)}
New == {Row0("recovery", 0), Row0("other", 0)}
NewStrategy == {Row0("other", 0)}
=============================================================================
