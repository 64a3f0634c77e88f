----------------------------- MODULE MCProjects -----------------------------
(* Small instances of Projects for TLC.                                    *)
EXTENDS Projects, TLC

MCSymmetry == Permutations(People) \cup Permutations(Ids \ {Example})
=============================================================================
