--------------------------- MODULE MCClosedRounds ---------------------------
(* Small instances of ClosedRounds for TLC.                                *)
EXTENDS ClosedRounds, TLC

CONSTANTS pass, fail, x, y

MCRank == pass :> 1 @@ fail :> 0
MCClash == {{x, y}}
MCGates == [pass_rate_min : {0, 50, 100}, max_new_splits : {0, 1}]
MCSymmetry == Permutations(Seats)
=============================================================================
