-------------------------- MODULE MCRubricVersions --------------------------
EXTENDS RubricVersions

CONSTANTS mined, typed

MCSplits == [r \in Rounds |-> {mined}]
MCBodies == {{typed}}
Alike == Permutations(Slots) \cup Permutations(Rounds)
=============================================================================
