------------------------------- MODULE Judge -------------------------------
(***************************************************************************)
(* A judge run: POST and GET /rounds/:roundId/judge of server/app.ts.  A   *)
(* request stores a run, has the judge grade every case of an arm, and     *)
(* only then saves the verdicts, one by one; anybody reads them, at any    *)
(* time, as those of one more rater of the poll.                           *)
(*                                                                         *)
(* The state begins with the poll closed: two people voted somewhere, and  *)
(* on a case of this arm any of the people may have said nothing.  Cases   *)
(* is the arm the requests ask for.  What is asked of the model changes nothing here, *)
(* so a batch is graded in one step; it may also fail at any case.         *)
(*                                                                         *)
(* A definition whose comment starts with "Fault" is a wrong variant of    *)
(* the one after it: it is in no specification.                            *)
(***************************************************************************)
EXTENDS Metrics

CONSTANTS
    Cases,      \* the items of the arm
    People,     \* who voted on them
    TheJudge,   \* __judge, a rater like them
    Requests,
    MaxBatch    \* MAX_JUDGE_BATCH

ASSUME JudgeConstants ==
    /\ IsFiniteSet(Cases) /\ IsFiniteSet(People)
    /\ TheJudge \notin People /\ Raters = People \cup {TheJudge}
    /\ MaxBatch \in Nat

VARIABLES
    cases,      \* round_items: those whose case is not deleted
    vote,       \* grades
    run,        \* judge_runs: the requests whose run is stored
    verdict,    \* judge_verdicts
    req,        \* the requests
    disturbed   \* the requests killed, or during which a case was deleted

judgeVars == <<cases, vote, run, verdict, req, disturbed>>

Answers == Scale \cup {ABSTAIN}
Nothing == [c \in Cases |-> NoVote]
Over(q) == req[q].stage \in {"idle", "created", "error"}

(* Closing asks only for two participants in the whole poll.               *)
JudgeInit ==
    /\ cases = Cases
    /\ vote \in [Cases -> [People -> Answers \cup {NoVote}]]
    /\ run = {}
    /\ verdict = [q \in Requests |-> Nothing]
    /\ req = [q \in Requests |-> [stage |-> "idle", items |-> {}, results |-> Nothing]]
    /\ disturbed = {}

Goes(q, next) == req' = [req EXCEPT ![q] = next]

-----------------------------------------------------------------------------
(* The poll is closed; no arm, or too large a one, is graded.              *)
Begin(q) ==
    /\ req[q].stage = "idle" /\ q \notin run
    /\ cases # {} /\ Cardinality(cases) <= MaxBatch
    /\ Goes(q, [req[q] EXCEPT !.stage = "read", !.items = cases])
    /\ UNCHANGED <<cases, vote, run, verdict, disturbed>>

StoreRun(q) ==
    /\ req[q].stage = "read"
    /\ run' = run \cup {q}
    /\ Goes(q, [req[q] EXCEPT !.stage = "grading"])
    /\ UNCHANGED <<cases, vote, verdict, disturbed>>

(* A case that is gone, a refusal, and a verdict that is not on the scale  *)
(* are abstentions.                                                        *)
GradeArm(q) ==
    /\ req[q].stage = "grading"
    /\ \E results \in [req[q].items -> Answers] :
         Goes(q, [req[q] EXCEPT !.stage = "saving", !.results = results])
    /\ UNCHANGED <<cases, vote, run, verdict, disturbed>>

(* Fault: verdicts are saved as they come.                                 *)
GradingFailsHalfway(q) ==
    /\ req[q].stage = "grading"
    /\ \E part \in SUBSET (req[q].items \cap cases) :
         verdict' = [verdict EXCEPT ![q] = [c \in Cases |-> IF c \in part THEN ABSTAIN ELSE NoVote]]
    /\ Goes(q, [req[q] EXCEPT !.stage = "error"])
    /\ UNCHANGED <<cases, vote, run, disturbed>>

(* The model fails at a case: the request is answered 502 and the results  *)
(* of the others are dropped.                                              *)
GradingFails(q) ==
    /\ req[q].stage = "grading"
    /\ Goes(q, [req[q] EXCEPT !.stage = "error"])
    /\ UNCHANGED <<cases, vote, run, verdict, disturbed>>

(* The verdicts are saved in the order of the items, whichever it is; that *)
(* of a case deleted meanwhile fails its foreign key, and the request.     *)
Save(q, c) ==
    /\ req[q].stage = "saving" /\ c \in req[q].items
    /\ IF c \in cases
       THEN /\ verdict' = [verdict EXCEPT ![q][c] = req[q].results[c]]
            /\ Goes(q, [req[q] EXCEPT !.items = @ \ {c}])
       ELSE /\ Goes(q, [req[q] EXCEPT !.stage = "error"])
            /\ UNCHANGED verdict
    /\ UNCHANGED <<cases, vote, run, disturbed>>

Answer(q) ==
    /\ req[q].stage = "saving" /\ req[q].items = {}
    /\ Goes(q, [req[q] EXCEPT !.stage = "created"])
    /\ UNCHANGED <<cases, vote, run, verdict, disturbed>>

(* The function is killed, or times out.                                   *)
Die(q) ==
    /\ ~Over(q)
    /\ Goes(q, [req[q] EXCEPT !.stage = "error"])
    /\ disturbed' = disturbed \cup {q}
    /\ UNCHANGED <<cases, vote, run, verdict>>

(* A case takes its votes and its verdicts with it.                        *)
DeleteCase(c) ==
    /\ c \in cases
    /\ cases' = cases \ {c}
    /\ vote' = [vote EXCEPT ![c] = [p \in People |-> NoVote]]
    /\ verdict' = [q \in Requests |-> [verdict[q] EXCEPT ![c] = NoVote]]
    /\ disturbed' = disturbed \cup {q \in Requests : ~Over(q)}
    /\ UNCHANGED <<run, req>>

Judging(q) ==
    \/ Begin(q) \/ StoreRun(q) \/ GradeArm(q) \/ GradingFails(q) \/ Answer(q)
    \/ \E c \in Cases : Save(q, c)

JudgeNext ==
    \/ \E q \in Requests : Judging(q) \/ Die(q)
    \/ \E c \in Cases : DeleteCase(c)

JudgeSpec == JudgeInit /\ [][JudgeNext]_judgeVars

-----------------------------------------------------------------------------
(* What GET /rounds/:roundId/judge makes of a run.                         *)
Judged(q) == {c \in cases : verdict[q][c] # NoVote}
Units(q) == [c \in Judged(q) |-> [g \in Raters |-> IF g = TheJudge THEN verdict[q][c] ELSE vote[c][g]]]
Voters(q) == {p \in People : \E c \in Judged(q) : vote[c][p] # NoVote}
Comparisons(q) == SumFunction([p \in Voters(q) |-> Cardinality(Compared(Units(q), p, TheJudge))])
Agreements(q) == SumFunction([p \in Voters(q) |-> Cardinality(Agreed(Units(q), p, TheJudge))])

-----------------------------------------------------------------------------
(* server/app.ts:3679: a run that dies halfway leaves a partial set of     *)
(* verdicts that would be scored as though it were the whole arm.  A run   *)
(* whose request is over has a verdict for every case still there, or none *)
(* at all, whatever the model failed at; only a request that was killed,   *)
(* or that lost a case while it worked, leaves a part.                     *)
WholeArmOrNothing ==
    \A q \in run \ disturbed : Over(q) =>
        /\ req[q].stage = "created" => Judged(q) = cases
        /\ req[q].stage = "error" => Judged(q) = {}

(* shared/metrics.ts:104: alpha by the coincidence matrix is the textbook  *)
(* alpha of the values, nominal and ordinal; it is said to miss for too    *)
(* few cases exactly where too few have two verdicts, and as undefined     *)
(* where all the verdicts are the same.                                    *)
AlphaIsTheTextbook(said) ==
    LET o == Coincidence(said)
        few == AgreementStats(said).units < MinUnits
    IN  /\ Masses(o) = [u \in Scale |-> Common * Times(said)[u]]
        /\ Observed(o, "nominal") = ObservedByValues(said, "nominal")
        /\ Expected(o, "nominal") = Common * Common * ExpectedByValues(said, "nominal")
        /\ Observed(o, "ordinal") = Common * Common * ObservedByValues(said, "ordinal")
        /\ Expected(o, "ordinal") = Common * Common * Common * Common * ExpectedByValues(said, "ordinal")
        /\ Explained(said, Withheld(said)) =
             IF few THEN "too few"
             ELSE IF \A x \in Values(said), y \in Values(said) : SaidIn(said, x) = SaidIn(said, y)
             THEN "undefined" ELSE "shown"

(* shared/metrics.ts:274: AC1 starts from the same observed agreement, is  *)
(* never undefined, and is 1 where alpha is, for one verdict.              *)
AC1IsTheTextbook(said) ==
    LET stats == AgreementStats(said)
        few == stats.units < MinUnits
    IN  /\ AgreementByVerdict(said) = stats.observed
        /\ Explained(said, AC1Withheld(said)) = IF few THEN "too few" ELSE "shown"
        /\ ~few => (AC1(said).num = AC1(said).den <=> Observed(Coincidence(said), "nominal") = 0)

(* Every case has as many verdicts, whoever gave them.                     *)
SameSize(said) ==
    \A c, d \in UnitsFrom(said) : Cardinality(Counting(said[c])) = Cardinality(Counting(said[d]))

(* shared/metrics.ts:328: the values whose spread is its variance have in  *)
(* the mean the coefficient, with the chance agreement of AC1 where every  *)
(* case has as many verdicts.                                              *)
VarianceIsTheTextbook(said) ==
    LET n == AgreementStats(said).units
        few == n < MinUnits
        x == Linearization(said)
        pe == Chance(said)
    IN  /\ VarianceWithheld(said) <=> few
        /\ ~few =>
             /\ SumFunction(Starred(said))
                  = n * (x.all * x.bUnit - n * x.chance * x.aUnit) * (x.bUnit - x.chance)
             /\ SameSize(said) => x.chance * pe.den = pe.num * x.bUnit

(* shared/metrics.ts:182, 235: the numbers shown beside them say the same  *)
(* of the same cases: where every case has as many verdicts, the rates of  *)
(* the pairs, each weighing what the two compared, mean the observed       *)
(* agreement; all is filled and nobody abstains just where everybody       *)
(* counts everywhere; an undecidable case is no unit.                      *)
NumbersAgree(said) ==
    LET stats == AgreementStats(said)
        coverage == CoverageStats(said)
        everyoneOn == {c \in DOMAIN said : Counting(said[c]) = Raters}
        compared == SumFunction([ab \in Couples |-> stats.pairwise[ab].compared])
        agreed == SumFunction([ab \in Couples |-> stats.pairwise[ab].agreed])
    IN  /\ SameSize(said) => agreed * stats.observed.den = compared * stats.observed.num
        /\ everyoneOn = DOMAIN said <=>
             coverage.filled = coverage.items * Cardinality(Raters) /\ coverage.abstentions = 0
        /\ coverage.undecidable + stats.units <= coverage.items

(* All of it holds of what the judge and the people say of the cases of a  *)
(* run, whoever abstained or did not vote on which of them, and however    *)
(* much of the arm the run has.                                            *)
StatisticsAreTheTextbook ==
    \A q \in run : Over(q) =>
        /\ AlphaIsTheTextbook(Units(q))
        /\ AC1IsTheTextbook(Units(q))
        /\ VarianceIsTheTextbook(Units(q))
        /\ NumbersAgree(Units(q))
=============================================================================
