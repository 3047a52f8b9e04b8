------------------------- MODULE MCCredentialSync -------------------------
EXTENDS CredentialSync, TLC

\* Everything that has a name is chosen freely: all of it is alike.
Alike == Permutations(Req) \union Permutations(Id) \union Permutations(Agent)
         \union Permutations(Key) \union Permutations(Val)
============================================================================
