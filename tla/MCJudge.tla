------------------------------ MODULE MCJudge ------------------------------
(* Small instances of Judge for TLC.                                       *)
EXTENDS Judge, TLC

MCScale == 1..3
MCRaters == People \cup {TheJudge}
MCSymmetry == Permutations(People) \cup Permutations(Cases)

=============================================================================
