-------------------------- MODULE MCPreferencePairs -------------------------
(* Small instances of PreferencePairs for TLC.                             *)
EXTENDS PreferencePairs, TLC

MCWeight == <<100, 100, 50>>
MCSymmetry == Permutations(Gradings)
=============================================================================
