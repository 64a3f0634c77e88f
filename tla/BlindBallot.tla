---------------------------- MODULE BlindBallot ----------------------------
(***************************************************************************)
(* What a poll promises, with nothing about requests, tables or sampling:  *)
(* a ballot is decided before anybody has been shown the results of its    *)
(* round, and results are shown only once the round has closed.  A decided *)
(* ballot may be counted late, even after the close, or be lost; it is     *)
(* never decided late.  This is the rule the header of server/app.ts calls *)
(* blindness: nobody looks first and grades second.                        *)
(***************************************************************************)

CONSTANTS
    Graders,    \* the people who vote and read
    Rounds,     \* the polls
    Traces,     \* the scenarios voted on
    Votes,      \* what a ballot may say
    NoGrade     \* no ballot

VARIABLES
    phase,      \* phase[r]: absent, open or closed
    votes,      \* votes[r][t][g]: the counted ballot of g, or NoGrade
    revealed,   \* rounds whose results somebody has been shown
    decided     \* ballots decided and not yet counted

ballotVars == <<phase, votes, revealed, decided>>

Ballot == [grader: Graders, round: Rounds, trace: Traces, verdict: Votes]

Init ==
    /\ phase = [r \in Rounds |-> "absent"]
    /\ votes = [r \in Rounds |-> [t \in Traces |-> [g \in Graders |-> NoGrade]]]
    /\ revealed = {}
    /\ decided = {}

Open(r) ==
    /\ phase[r] = "absent"
    /\ phase' = [phase EXCEPT ![r] = "open"]
    /\ UNCHANGED <<votes, revealed, decided>>

(* Deciding is where blindness is due: the round is open and its results   *)
(* are unknown to everybody.                                               *)
Decide(b) ==
    /\ phase[b.round] = "open"
    /\ b.round \notin revealed
    /\ decided' = decided \cup {b}
    /\ UNCHANGED <<phase, votes, revealed>>

Count(b) ==
    /\ b \in decided
    /\ votes' = [votes EXCEPT ![b.round][b.trace][b.grader] = b.verdict]
    /\ decided' = decided \ {b}
    /\ UNCHANGED <<phase, revealed>>

Lose(b) ==
    /\ b \in decided
    /\ decided' = decided \ {b}
    /\ UNCHANGED <<phase, votes, revealed>>

Close(r) ==
    /\ phase[r] = "open"
    /\ phase' = [phase EXCEPT ![r] = "closed"]
    /\ UNCHANGED <<votes, revealed, decided>>

Reveal(r) ==
    /\ phase[r] = "closed"
    /\ revealed' = revealed \cup {r}
    /\ UNCHANGED <<phase, votes, decided>>

(* A scenario is withdrawn, and its ballots with it, from every round.     *)
Strike(t) ==
    /\ votes' = [r \in Rounds |-> [votes[r] EXCEPT ![t] = [g \in Graders |-> NoGrade]]]
    /\ UNCHANGED <<phase, revealed, decided>>

Next ==
    \/ \E r \in Rounds : Open(r) \/ Close(r) \/ Reveal(r)
    \/ \E b \in Ballot : Decide(b) \/ Count(b) \/ Lose(b)
    \/ \E t \in Traces : Strike(t)

Spec == Init /\ [][Next]_ballotVars
=============================================================================
