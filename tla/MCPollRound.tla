---------------------------- MODULE MCPollRound ----------------------------
(* Small instances of PollRound for TLC.                                   *)
EXTENDS PollRound, TLC

\* People are interchangeable, and so are the scenarios.
PollSymmetry == Permutations(Graders) \cup Permutations(Traces) \cup Permutations(Verdicts)
=============================================================================
