------------------------- MODULE MCToolRegistry -------------------------
EXTENDS ToolRegistry, TLC

\* Slots, names and codes are alike; the ids of rows and of tools are not
\* permuted, since NewRow and NewTool choose among them.
Alike == Permutations(Req) \union Permutations(Name) \union Permutations(Code)
==========================================================================
