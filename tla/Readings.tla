------------------------------ MODULE Readings ------------------------------
(***************************************************************************)
(* How the votes of one case are read, once its round is closed.  The map, *)
(* the miner, the run report, coverage, the bundle, the training export    *)
(* and the owner's check all read the same rows of grades, each in its own *)
(* way: shared/panelmap.ts, shared/ensemble.ts and the queries around them *)
(* in server/app.ts and server/training.ts.                                *)
(*                                                                         *)
(* V is the votes of a case: a function from the seats that are there and  *)
(* graded it.  A vote has a verdict or abstains, was stable under the      *)
(* other phrasings or was not, and gives a reason.  (The map leaves out    *)
(* the seats marked as of the family under test; nothing marks a seat.)    *)
(***************************************************************************)
EXTENDS Naturals, FiniteSets, FiniteSetsExt, Sequences

CONSTANTS
    Scale,      \* the verdicts of the standard
    Rank,       \* Rank[v]: how good v is
    Abstain,    \* what a seat says when it cannot grade
    Reasons,
    Clash,      \* pairs of reasons that plainly talk past each other
    NoVerdict   \* no word, or none worth keeping

ASSUME ReadingConstants ==
    /\ IsFiniteSet(Scale) /\ Rank \in [Scale -> Nat]
    /\ \A u, v \in Scale : Rank[u] = Rank[v] => u = v
    /\ Abstain \notin Scale /\ NoVerdict \notin Scale \cup {Abstain}
    /\ Clash \subseteq {{x, y} : x, y \in Reasons}

Words == Scale \cup {Abstain}
(* Why a seat abstained is read by nobody here.                            *)
Vote == [verdict : Scale, stable : BOOLEAN, reason : Reasons]
            \cup [verdict : {Abstain}, stable : BOOLEAN, reason : {NoVerdict}]

Top == CHOOSE v \in Scale : \A u \in Scale : Rank[u] <= Rank[v]

-----------------------------------------------------------------------------
(* The pattern of a case: readCase.                                        *)

Real(V) == {s \in DOMAIN V : V[s].verdict # Abstain}
Given(V) == {V[s].verdict : s \in Real(V)}
Backers(V, v) == {s \in Real(V) : V[s].verdict = v}

StableVotes(V) == [s \in {t \in DOMAIN V : V[t].stable} |-> V[s]]

SeatPairs(V) == {pair \in SUBSET Real(V) : Cardinality(pair) = 2}
Compatible(x, y) == {x, y} \notin Clash

(* More than six pairs in ten agree on the verdict and not on why.         *)
ByAccident(V) ==
    LET apart == {pair \in SeatPairs(V) :
                    \E s, t \in pair : ~Compatible(V[s].reason, V[t].reason)}
    IN 10 * Cardinality(apart) > 6 * Cardinality(SeatPairs(V))

(* The seat that stands apart from others who agree.                       *)
Dissenters(V) ==
    {s \in Real(V) : /\ Cardinality(Given(V)) = 2
                     /\ Backers(V, V[s].verdict) = {s}
                     /\ Cardinality(Real(V)) > 2}

Pattern(V) ==
    IF Cardinality(Real(V)) < 2 THEN "ungraded"
    ELSE IF Cardinality(Given(V)) = 1 THEN IF ByAccident(V) THEN "blind-spot" ELSE "settled"
    ELSE IF Dissenters(V) # {} THEN "persona-driven" ELSE "contested"

IsSplit(pattern) == pattern \in {"persona-driven", "contested"}
SaysOneThing(pattern) == pattern \in {"settled", "blind-spot"}

(* Only the unstable votes divide the panel: the map marks the case.       *)
UnstableDissent(V) ==
    Cardinality(Given(V)) > 1 /\ ~IsSplit(Pattern(StableVotes(V)))

(* A seat stands apart and the literalist is not that seat nor says what   *)
(* it says: theater, shown on the map and never mined.  (A literalist who  *)
(* abstains counts as taking the others' side.)                            *)
Theater(V, literalist) ==
    \E s \in Dissenters(V) :
        literalist \in DOMAIN V \ {s} /\ V[literalist].verdict # V[s].verdict

(* What sentences are mined from.                                          *)
Disputed(V, literalist) == IsSplit(Pattern(V)) /\ ~Theater(V, literalist)

(* What the stability pass asks about again: the whole panel's words, the  *)
(* abstentions left out, are not one.                                      *)
(* Fault: an abstention counts as another word.                            *)
ContestedWithAbstentions(V) ==
    Cardinality(DOMAIN V) >= 2 /\ Cardinality({V[s].verdict : s \in DOMAIN V}) > 1

Contested(V) == Cardinality(Given(V)) > 1

-----------------------------------------------------------------------------
(* The ensemble's verdict: weighted majority of the stable votes, a tie to *)
(* the lower verdict, none from fewer than two votes.                      *)

(* Fault: a vote the pass found unstable counts like any other.            *)
CountedUnstable(V, weight) == {s \in Real(V) : weight[s] > 0}

Counted(V, weight) == {s \in Real(V) : V[s].stable /\ weight[s] > 0}

Behind(V, weight, v) ==
    LET backing == {s \in Counted(V, weight) : V[s].verdict = v}
    IN MapThenSumSet(LAMBDA s : weight[s], backing)

Ensemble(V, weight) ==
    LET given == {V[s].verdict : s \in Counted(V, weight)}
        beats(u, v) == \/ Behind(V, weight, u) > Behind(V, weight, v)
                       \/ /\ Behind(V, weight, u) = Behind(V, weight, v)
                          /\ Rank[u] < Rank[v]
    IN IF Cardinality(Counted(V, weight)) < 2 THEN NoVerdict
       ELSE CHOOSE v \in given : \A u \in given \ {v} : beats(v, u)

-----------------------------------------------------------------------------
(* The people's word on a case: W is what they said, in the order in which *)
(* they first said anything.  The majority; a tie goes to the owner, else  *)
(* to whoever spoke first.                                                 *)

Sayers(W, v) == {i \in DOMAIN W : W[i].verdict = v}

Consensus(W, owner) ==
    LET said == {W[i].verdict : i \in DOMAIN W}
        owners(v) == \E i \in Sayers(W, v) : W[i].who = owner
        beats(u, v) ==
            \/ Cardinality(Sayers(W, u)) > Cardinality(Sayers(W, v))
            \/ /\ Cardinality(Sayers(W, u)) = Cardinality(Sayers(W, v))
               /\ \/ owners(u)
                  \/ ~owners(v) /\ Min(Sayers(W, u)) < Min(Sayers(W, v))
    IN IF W = <<>> THEN NoVerdict
       ELSE CHOOSE v \in said : \A u \in said \ {v} : beats(v, u)

(* The owner's check and the comparison of two rounds count an abstention  *)
(* as a word like any other.                                               *)
Outcomes(V) == {V[s].verdict : s \in DOMAIN V}
Unanimous(V) == Cardinality(DOMAIN V) >= 2 /\ Cardinality(Outcomes(V)) = 1
FalseSettle(V, word) == word # NoVerdict /\ Unanimous(V) /\ word \notin Outcomes(V)

(* The outcome a round is compared by with another; without one the case   *)
(* is called split, an abstention being enough for that.                   *)
Outcome(V) == IF Unanimous(V) THEN CHOOSE v \in Outcomes(V) : TRUE ELSE NoVerdict

(* What a case is held to be when two transcripts are paired by level: the *)
(* people's word, else the ensemble's verdict.                             *)
Level(V, weight, word) == IF word = NoVerdict THEN Ensemble(V, weight) ELSE word

(* A verdict as a score from the worst, 0, to the best, 1.                 *)
ScoreOf(v) ==
    LET ranks == {Rank[u] : u \in Scale}
    IN IF Min(ranks) = Max(ranks) THEN [num |-> 1, den |-> 1]
       ELSE [num |-> Rank[v] - Min(ranks), den |-> Max(ranks) - Min(ranks)]
Scores == {ScoreOf(v) : v \in Scale}

(* Fault: the people's word is not looked at.                              *)
LabelsUnchecked(V, word) == IF Pattern(V) # "settled" THEN {} ELSE Outcomes(V)

(* What a settled case is exported with, in a golden set and as a training *)
(* example: the verdict of whichever row comes first, as the grades of one *)
(* case come in no order; nothing where the people overrule it.            *)
Labels(V, word) ==
    IF Pattern(V) # "settled" THEN {}
    ELSE {v \in Outcomes(V) : word \in {NoVerdict, v}}
=============================================================================
