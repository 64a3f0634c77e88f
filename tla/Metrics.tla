------------------------------ MODULE Metrics ------------------------------
(***************************************************************************)
(* The agreement statistics of shared/metrics.ts, as pure operators over   *)
(* what each rater said of each case: observed agreement, Krippendorff's   *)
(* alpha by the coincidence matrix, nominal and ordinal, Gwet's AC1 and    *)
(* its linearized variance, and coverage.  The bootstrap interval and the  *)
(* wording of caveats are left out.                                        *)
(*                                                                         *)
(* The code divides; here quantities are multiplied by Common, which the   *)
(* number of pairs of a rater in a case divides, or by PairCommon, which   *)
(* the number of pairs in a case divides, so that all of it is in          *)
(* integers; the others are a fraction [num, den].  Alpha is 1 - observed  *)
(* / expected disagreement.                                                *)
(***************************************************************************)
EXTENDS Integers, FiniteSets, FiniteSetsExt

CONSTANTS
    Scale,      \* the verdicts, ranked 1..n, worst first
    ABSTAIN, NoVote,
    Raters,     \* people or seats, and the judge
    MinUnits    \* MIN_UNITS_FOR_ALPHA

ASSUME ScaleIsRanked ==
    /\ IsFiniteSet(Scale) /\ Scale = 1..Cardinality(Scale) /\ Cardinality(Scale) >= 2
    /\ ABSTAIN \notin Scale /\ NoVote \notin Scale \cup {ABSTAIN}
    /\ MinUnits \in Nat \ {0}

(* byGrader of a case, and the raters whose verdict counts.                *)
Says == [Raters -> Scale \cup {ABSTAIN, NoVote}]
Counting(by) == {g \in Raters : by[g] \in Scale}

(* The cases with two verdicts or more.                                    *)
UnitsFrom(said) == {c \in DOMAIN said : Cardinality(Counting(said[c])) >= 2}

Common == ProductSet(1..(Cardinality(Raters) - 1))
PairCommon == ProductSet({m * (m - 1) : m \in 2..Cardinality(Raters)})
Share(by) == Common \div (Cardinality(Counting(by)) - 1)

(* Ordered pairs of raters who said u and v of a case.                     *)
PairsSaying(by, u, v) ==
    {p \in Counting(by) \X Counting(by) : p[1] # p[2] /\ by[p[1]] = u /\ by[p[2]] = v}

(* Fault: every pair of a case weighs the same, however many there are.    *)
CoincidenceUnscaled(said) ==
    [uv \in Scale \X Scale |->
        SumFunction([c \in UnitsFrom(said) |-> Common * Cardinality(PairsSaying(said[c], uv[1], uv[2]))])]

Coincidence(said) ==
    [uv \in Scale \X Scale |->
        SumFunction([c \in UnitsFrom(said) |-> Share(said[c]) * Cardinality(PairsSaying(said[c], uv[1], uv[2]))])]

Masses(o) == [u \in Scale |-> SumFunction([v \in Scale |-> o[<<u, v>>]])]

NominalDelta(mass, u, v) == IF u = v THEN 0 ELSE 1

(* Twice the gap in cumulative mass, squared.                              *)
OrdinalDelta(mass, u, v) ==
    IF u = v THEN 0
    ELSE LET between == {w \in Scale : (u <= w /\ w <= v) \/ (v <= w /\ w <= u)}
             d == 2 * SumFunctionOnSet(mass, between) - mass[u] - mass[v]
         IN  d * d

Delta(metric, mass, u, v) ==
    IF metric = "nominal" THEN NominalDelta(mass, u, v) ELSE OrdinalDelta(mass, u, v)

Observed(o, metric) ==
    LET mass == Masses(o)
    IN  SumFunction([uv \in Scale \X Scale |-> o[uv] * Delta(metric, mass, uv[1], uv[2])])

Expected(o, metric) ==
    LET mass == Masses(o)
    IN  SumFunction([uv \in Scale \X Scale |-> mass[uv[1]] * mass[uv[2]] * Delta(metric, mass, uv[1], uv[2])])

(* Withheld below the floor, and where everybody used one verdict.         *)
Withheld(said) ==
    LET o == Coincidence(said)
    IN  \/ Cardinality(UnitsFrom(said)) < MinUnits
        \/ Cardinality(Scale) < 2
        \/ Expected(o, "nominal") = 0

(* Observed agreement: the share of the pairs of a case that agree, in the *)
(* mean over the units.                                                    *)
OfPairs(by, n) == n * (PairCommon \div (Cardinality(Counting(by)) * (Cardinality(Counting(by)) - 1)))
Alike(by) == {p \in Counting(by) \X Counting(by) : p[1] # p[2] /\ by[p[1]] = by[p[2]]}

ObservedAgreement(said) ==
    [num |-> SumFunction([c \in UnitsFrom(said) |-> OfPairs(said[c], Cardinality(Alike(said[c])))]),
     den |-> PairCommon * Cardinality(UnitsFrom(said))]

(* What agreementStats compares in pairs, and all it says.                 *)
Compared(said, a, b) == {c \in DOMAIN said : said[c][a] \in Scale /\ said[c][b] \in Scale}
Agreed(said, a, b) == {c \in Compared(said, a, b) : said[c][a] = said[c][b]}
Couples == {ab \in SUBSET Raters : Cardinality(ab) = 2}

AgreementStats(said) ==
    LET Both(ab) == {c \in DOMAIN said : \A g \in ab : said[c][g] \in Scale}
    IN  [units |-> Cardinality(UnitsFrom(said)),
         observed |-> ObservedAgreement(said),
         alpha |-> ~Withheld(said),
         pairwise |-> [ab \in Couples |->
             [compared |-> Cardinality(Both(ab)),
              agreed |-> Cardinality({c \in Both(ab) : \E v \in Scale : \A g \in ab : said[c][g] = v})]]]

CoverageStats(said) ==
    LET Filled(c) == {g \in Raters : said[c][g] # NoVote}
        Abstaining(c) == {g \in Raters : said[c][g] = ABSTAIN}
    IN  [items |-> Cardinality(DOMAIN said),
         filled |-> SumFunction([c \in DOMAIN said |-> Cardinality(Filled(c))]),
         abstentions |-> SumFunction([c \in DOMAIN said |-> Cardinality(Abstaining(c))]),
         undecidable |-> Cardinality({c \in DOMAIN said : Filled(c) # {} /\ Filled(c) = Abstaining(c)})]

(* Gwet's AC1: agreement within a case counted by verdict, and chance      *)
(* agreement from the shares of the verdicts in all that was said.         *)
Tally(said, c, k) == Cardinality({g \in Raters : said[c][g] = k})
Prevalence(said) == [k \in Scale |-> SumFunction([c \in UnitsFrom(said) |-> Tally(said, c, k)])]

AlikeByVerdict(said, c) == SumFunction([k \in Scale |-> Tally(said, c, k) * (Tally(said, c, k) - 1)])

AgreementByVerdict(said) ==
    [num |-> SumFunction([c \in UnitsFrom(said) |-> OfPairs(said[c], AlikeByVerdict(said, c))]),
     den |-> PairCommon * Cardinality(UnitsFrom(said))]

Chance(said) ==
    LET times == Prevalence(said)
        all == SumFunction(times)
    IN  [num |-> SumFunction([k \in Scale |-> times[k] * (all - times[k])]),
         den |-> all * all * (Cardinality(Scale) - 1)]

AC1Withheld(said) ==
    \/ Cardinality(UnitsFrom(said)) < MinUnits
    \/ Cardinality(Scale) < 2
    \/ Chance(said).num >= Chance(said).den

AC1(said) ==
    LET pa == AgreementByVerdict(said)
        pe == Chance(said)
    IN  [num |-> pa.num * pe.den - pe.num * pa.den, den |-> pa.den * (pe.den - pe.num)]

(* Its variance has the prevalence of a verdict as the mean of its shares  *)
(* within the cases, in units of one in ShareCommon.                       *)
ShareCommon ==
    Min({n \in 1..ProductSet(1..Cardinality(Raters)) : \A m \in 1..Cardinality(Raters) : n % m = 0})

ShareWithin(said, c, k) == Tally(said, c, k) * (ShareCommon \div Cardinality(Counting(said[c])))
MeanShare(said) == [k \in Scale |-> SumFunction([c \in UnitsFrom(said) |-> ShareWithin(said, c, k)])]

(* What is needed of each case: a of agreed, b of agreed by chance, each a *)
(* number of the units in the last line, and their means, times n.         *)
Linearization(said) ==
    LET units == UnitsFrom(said)
        n == Cardinality(units)
        mean == MeanShare(said)
        rest == [k \in Scale |-> n * ShareCommon - mean[k]]
        a == [c \in units |-> OfPairs(said[c], AlikeByVerdict(said, c))]
        b == [c \in units |-> SumFunction([k \in Scale |-> n * ShareWithin(said, c, k) * rest[k]])]
    IN  [a |-> a, all |-> SumFunction(a),
         b |-> b, chance |-> SumFunction([k \in Scale |-> mean[k] * rest[k]]),
         aUnit |-> PairCommon, bUnit |-> n * ShareCommon * n * ShareCommon * (Cardinality(Scale) - 1)]

(* The value of a case, whose mean is the coefficient and whose spread is  *)
(* the variance, in units of one in n aUnit (bUnit - chance) ^ 2.          *)
Starred(said) ==
    LET x == Linearization(said)
        n == Cardinality(UnitsFrom(said))
    IN  [c \in UnitsFrom(said) |->
           n * (x.a[c] * x.bUnit - x.chance * x.aUnit) * (x.bUnit - x.chance)
             - 2 * (n * x.aUnit - x.all) * (x.b[c] - x.chance) * x.bUnit]

VarianceWithheld(said) ==
    \/ Cardinality(UnitsFrom(said)) < MinUnits
    \/ Cardinality(Scale) < 2
    \/ LET x == Linearization(said) IN x.chance >= x.bUnit

(* Why alpha or AC1 is not shown, if it is not.                            *)
Explained(said, withheld) ==
    IF Cardinality(UnitsFrom(said)) < MinUnits THEN "too few"
    ELSE IF withheld THEN "undefined" ELSE "shown"

-----------------------------------------------------------------------------
(* The textbook definition.  The values are the verdicts given on the      *)
(* units; disagreement is observed between values of one case, each case   *)
(* weighing as many values as it has, and expected between any two.        *)
Values(said) == {x \in UnitsFrom(said) \X Raters : x[2] \in Counting(said[x[1]])}
SaidIn(said, x) == said[x[1]][x[2]]
Times(said) == [u \in Scale |-> Cardinality({x \in Values(said) : SaidIn(said, x) = u})]

ObservedByValues(said, metric) ==
    LET times == Times(said)
        Within(c) == {p \in Counting(said[c]) \X Counting(said[c]) : p[1] # p[2]}
        Differ(c) == SumFunction([p \in Within(c) |-> Delta(metric, times, said[c][p[1]], said[c][p[2]])])
    IN  SumFunction([c \in UnitsFrom(said) |-> Share(said[c]) * Differ(c)])

ExpectedByValues(said, metric) ==
    LET times == Times(said)
        values == Values(said)
    IN  SumFunction([xy \in {xy \in values \X values : xy[1] # xy[2]} |->
            Delta(metric, times, SaidIn(said, xy[1]), SaidIn(said, xy[2]))])
=============================================================================
