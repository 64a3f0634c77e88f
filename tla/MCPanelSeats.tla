---------------------------- MODULE MCPanelSeats ----------------------------
(* A small instance of PanelSeats for TLC.                                 *)
EXTENDS PanelSeats, TLC

CONSTANTS t1, cheap, dear

MCOffline == <<t1>>
MCFamilies == <<cheap, dear>>
MCSymmetry == Permutations(Requests)
=============================================================================
