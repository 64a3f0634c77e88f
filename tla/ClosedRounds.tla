---------------------------- MODULE ClosedRounds ----------------------------
(***************************************************************************)
(* Runs of an eval after they were opened: POST /projects/:slug/runs and   *)
(* everything that happens to their rounds in server/app.ts.  The panel    *)
(* grades and the round closes (PanelRun says how); then anybody may run   *)
(* the stability pass, people say what they think, the panel is reweighted *)
(* after them, seats are deleted, and the reports, maps, gates and exports *)
(* are read, any time and any number of times, from the grades and weights *)
(* there are.                                                              *)
(*                                                                         *)
(* The stability pass and the reweighting read first and write seat by     *)
(* seat; what is still to be written may be overtaken by anything, and is  *)
(* never written when the process is killed.  A run stands for its round.  *)
(***************************************************************************)
EXTENDS Readings

CONSTANTS
    Seats, Cases, Versions,
    People, Owner,
    PROMPT_VARIANTS,    \* phrasings a seat is asked under; the code has 3
    Gates,              \* gates a run may be held to
    WINDOW,             \* runs a drift report looks at; 5 unless asked
    MaxRuns,            \* bound: runs opened
    MaxWork             \* bound: of everything people start; a run counts for two

GateSpecs == [pass_rate_min : 0..100, max_new_splits : Nat]

ASSUME RunConstants ==
    /\ IsFiniteSet(Seats) /\ IsFiniteSet(Cases)
    /\ Owner \in People
    /\ PROMPT_VARIANTS \in Nat \ {0, 1} /\ WINDOW \in Nat \ {0, 1}
    /\ Gates \subseteq GateSpecs
    /\ MaxRuns \in Nat /\ MaxWork \in Nat

Runs == 1..MaxRuns

VARIABLES
    seated,     \* the seats of the panel
    weight,     \* weight[s], in hundredths
    writes,     \* weights on their way to their seats
    status,     \* status[r]: none, open or closed
    version,    \* version[r]: the version of the standard it was run against
    votes,      \* votes[r][c]: the grades of its round
    settled,    \* settled[r][c]: what every seat said when it closed, if one thing
    todo,       \* seats the stability passes under way have still to ask
    words,      \* words[r][c]: what people say
    rate,       \* rate[r]: overruled settles out of settles checked, when last asked
    work

vars == <<seated, weight, writes, status, version, votes, settled, todo, words, rate, work>>

NoVotes == [s \in {} |-> 0]
Tables == UNION {[S -> Vote] : S \in SUBSET Seats}
Sayings == [who : People, verdict : Scale]
Questions == [run : Runs, case : Cases, seat : Seats, first : Vote]

(* A panel of three, at least, may grade.                                  *)
MIN_PANEL == 3

Init ==
    /\ seated = Seats
    /\ weight = [s \in Seats |-> 100]
    /\ writes = {}
    /\ status = [r \in Runs |-> "none"]
    /\ version \in [Runs -> Versions]
    /\ votes = [r \in Runs |-> [c \in Cases |-> NoVotes]]
    /\ settled = [r \in Runs |-> [c \in Cases |-> NoVerdict]]
    /\ todo = {}
    /\ words = [r \in Runs |-> [c \in Cases |-> <<>>]]
    /\ rate = [r \in Runs |-> <<>>]
    /\ work = 0

Works(n) == work + n <= MaxWork /\ work' = work + n

-----------------------------------------------------------------------------
(* A run is opened, the next in time.                                      *)
CreateRun(r) == status' = [status EXCEPT ![r] = "open"]

OpenRun(r) ==
    /\ status[r] = "none" /\ \A q \in Runs : q < r => status[q] # "none"
    /\ Cardinality(seated) >= MIN_PANEL
    /\ Works(2)
    /\ CreateRun(r)
    /\ UNCHANGED <<seated, weight, writes, version, votes, settled, todo, words, rate>>

(* A seat that disagreed with itself while it graded is to weigh half, if  *)
(* it weighed all when its request began.                                  *)
FlagSeat(r, s) ==
    /\ status[r] = "open" /\ s \in seated /\ weight[s] = 100
    /\ Works(1)
    /\ writes' = writes \cup {<<s, 50>>}
    /\ UNCHANGED <<seated, weight, status, version, votes, settled, todo, words, rate>>

(* Every seat has graded every case; so far no vote is unstable.           *)
CloseRun(r) ==
    /\ status[r] = "open" /\ status' = [status EXCEPT ![r] = "closed"]
    /\ \E given \in [Cases -> [seated -> {vote \in Vote : vote.stable}]] :
        /\ votes' = [votes EXCEPT ![r] = given]
        /\ settled' = [settled EXCEPT ![r] = [c \in Cases |->
             IF Cardinality(Given(given[c])) = 1 THEN CHOOSE v \in Given(given[c]) : TRUE
                                                 ELSE NoVerdict]]
    /\ UNCHANGED <<seated, weight, writes, version, todo, words, rate, work>>

-----------------------------------------------------------------------------
(* The stability pass: every seat with a grade on a contested case is to   *)
(* be asked again under the other phrasings.                               *)
PassBegins(r) ==
    /\ status[r] = "closed" /\ Works(1)
    /\ todo' = todo \cup {q \in Questions : /\ q.run = r
                                            /\ Contested(votes[r][q.case])
                                            /\ q.seat \in DOMAIN votes[r][q.case]
                                            /\ q.first = votes[r][q.case][q.seat]}
    /\ UNCHANGED <<seated, weight, writes, status, version, votes, settled, words, rate>>

(* The seat's word is what it said most often, in a tie what it said at    *)
(* first; it is stable if it said nothing else.                            *)
Rechecked(first, answers) ==
    LET times(v) == Cardinality({i \in DOMAIN answers : answers[i] = v})
        most == {answers[i] : i \in {j \in DOMAIN answers :
                    \A k \in DOMAIN answers : times(answers[k]) <= times(answers[j])}}
    IN {vote \in Vote :
         /\ vote.verdict \in IF first.verdict \in most THEN {first.verdict} ELSE most
         /\ vote.stable <=> times(first.verdict) = PROMPT_VARIANTS
         /\ vote.verdict = first.verdict => vote.reason = first.reason}

(* The row of a grade gets the seat's final word.                          *)
SetGradeStability(q, vote) == votes' = [votes EXCEPT ![q.run][q.case][q.seat] = vote]

PassAsks(q) ==
    /\ q \in todo /\ todo' = todo \ {q}
    /\ IF q.seat \in DOMAIN votes[q.run][q.case]
       THEN \E answers \in [1..PROMPT_VARIANTS -> Words] :
              /\ answers[1] = q.first.verdict
              /\ \E vote \in Rechecked(q.first, answers) : SetGradeStability(q, vote)
       ELSE UNCHANGED votes
    /\ UNCHANGED <<seated, weight, writes, status, version, settled, words, rate, work>>

-----------------------------------------------------------------------------
(* Somebody says what they think of a case, or says otherwise.             *)
PersonSays(r, c, who, v) ==
    /\ status[r] = "closed" /\ Works(1)
    /\ LET said == {i \in DOMAIN words[r][c] : words[r][c][i].who = who}
       IN words' = [words EXCEPT ![r][c] =
             IF said = {} THEN Append(@, [who |-> who, verdict |-> v])
             ELSE [i \in DOMAIN @ |-> IF i \in said THEN [@[i] EXCEPT !.verdict = v] ELSE @[i]]]
    /\ UNCHANGED <<seated, weight, writes, status, version, votes, settled, todo, rate>>

Word(r, c) == Consensus(words[r][c], Owner)
Judged(r) == {c \in Cases : Word(r, c) # NoVerdict}

(* Reading the alignment records the share of settles people overrule.     *)
ReadAlignment(r) ==
    /\ Judged(r) # {} /\ Works(1)
    /\ LET checked == {c \in Judged(r) : Unanimous(votes[r][c])}
           false == {c \in checked : FalseSettle(votes[r][c], Word(r, c))}
       IN rate' = [rate EXCEPT ![r] = IF checked = {} THEN <<>>
                                      ELSE <<Cardinality(false), Cardinality(checked)>>]
    /\ UNCHANGED <<seated, weight, writes, status, version, votes, settled, todo, words>>

(* A seat is to weigh as often as it agreed with people, rounded to the    *)
(* hundredth and not under a quarter.                                      *)
Rounded(agree, total) == (200 * agree + total) \div (2 * total)

(* Fault: there is no such floor.                                          *)
AgreedFloorless(agree, total) == Rounded(agree, total)

Agreed(agree, total) == IF Rounded(agree, total) < 25 THEN 25 ELSE Rounded(agree, total)

Reweight(r) ==
    /\ Judged(r) # {} /\ Works(1)
    /\ LET heard(s) == {c \in Judged(r) : s \in DOMAIN votes[r][c]}
           agree(s) == {c \in heard(s) : votes[r][c][s].verdict = Word(r, c)}
           fit(s) == Agreed(Cardinality(agree(s)), Cardinality(heard(s)))
       IN writes' = writes \cup {<<s, fit(s)>> : s \in {t \in seated : heard(t) # {} /\ fit(t) # weight[t]}}
    /\ UNCHANGED <<seated, weight, status, version, votes, settled, todo, words, rate>>

WriteWeight(w) ==
    /\ w \in writes /\ writes' = writes \ {w}
    /\ weight' = [weight EXCEPT ![w[1]] = w[2]]
    /\ UNCHANGED <<seated, status, version, votes, settled, todo, words, rate, work>>

(* A seat is deleted, and its grades with it, in every round.              *)
DeleteSeat(s) ==
    /\ s \in seated /\ seated' = seated \ {s}
    /\ Works(1)
    /\ votes' = [r \in Runs |-> [c \in Cases |->
                   [t \in DOMAIN votes[r][c] \ {s} |-> votes[r][c][t]]]]
    /\ UNCHANGED <<weight, writes, status, version, settled, todo, words, rate>>

Next ==
    \/ \E r \in Runs : OpenRun(r) \/ CloseRun(r) \/ PassBegins(r) \/ ReadAlignment(r) \/ Reweight(r)
    \/ \E r \in Runs, s \in Seats : FlagSeat(r, s)
    \/ \E r \in Runs, c \in Cases, who \in People, v \in Scale : PersonSays(r, c, who, v)
    \/ \E q \in todo : PassAsks(q)
    \/ \E w \in writes : WriteWeight(w)
    \/ \E s \in Seats : DeleteSeat(s)

Spec == Init /\ [][Next]_vars

-----------------------------------------------------------------------------
(* The run report, and what is made of it.                                 *)

PatternOf(r, c) == Pattern(StableVotes(votes[r][c]))
VerdictOf(r, c) == Ensemble(votes[r][c], weight)
Closed(r) == status[r] = "closed"

Splits(r) == {c \in Cases : IsSplit(PatternOf(r, c))}
Decided(r) == {c \in Cases : VerdictOf(r, c) # NoVerdict}
Passed(r) == {c \in Cases : VerdictOf(r, c) = Top}

(* The run before it on the same version; if that is not finished, none.   *)
Earlier(r) == {q \in Runs : q < r /\ status[q] # "none" /\ version[q] = version[r]}
Previous(r) == {q \in Earlier(r) : Closed(q) /\ \A p \in Earlier(r) : p <= q}

(* Fault: splits there were before count again.                            *)
NewSplitsAll(r) == Splits(r)

NewSplits(r) == {c \in Splits(r) : \A q \in Previous(r) : c \notin Splits(q)}
Flipped(r) == {c \in Cases : \E q \in Previous(r) : VerdictOf(q, c) # VerdictOf(r, c)}

Passes(r, gate) ==
    /\ gate.pass_rate_min > 0 => Decided(r) # {}
    /\ 100 * Cardinality(Passed(r)) >= gate.pass_rate_min * Cardinality(Decided(r))
    /\ Cardinality(NewSplits(r)) <= gate.max_new_splits

(* What the report says of the expectations that came with the cases; one  *)
(* on a case without a verdict is supplied and not compared.               *)
ExpectedMatch(r, expected) ==
    LET supplied == {c \in Cases : expected[c] # NoVerdict}
        compared == supplied \cap Decided(r)
    IN [supplied |-> supplied, compared |-> compared,
        agreed |-> {c \in compared : VerdictOf(r, c) = expected[c]}]

(* The finished runs of one version, as a series that ends with r, as long *)
(* as the window, and the oldest of it.                                    *)
Finished(r) == {q \in 1..r : Closed(q) /\ version[q] = version[r]}
Series(r) == {q \in Finished(r) : Cardinality({p \in Finished(r) : p > q}) < WINDOW}
Baseline(r) == Min(Series(r))

(* A run as a point of the series.                                         *)
Point(r) == [decided |-> Decided(r), passed |-> Passed(r), splits |-> Splits(r),
             newSplits |-> NewSplits(r), flipped |-> Flipped(r)]

PassRateFell(old, new) ==
    /\ Decided(old) # {} /\ Decided(new) # {}
    /\ Cardinality(Passed(old)) * Cardinality(Decided(new))
         > Cardinality(Passed(new)) * Cardinality(Decided(old))

(* Drift: since the baseline the pass rate fell, or since the run before   *)
(* cases flipped or split anew, by more than a limit.  This is with limits *)
(* of nothing.                                                             *)
Drifted(r) ==
    /\ Cardinality(Series(r)) >= 2
    /\ PassRateFell(Baseline(r), r) \/ Flipped(r) # {} \/ NewSplits(r) # {}

(* Two finished rounds compared: cases whose outcome is another.           *)
OutcomeOf(r, c) == Outcome(votes[r][c])
CompareFlips(q, r) == {c \in Cases : OutcomeOf(q, c) # OutcomeOf(r, c)}

(* The people: what each said, where it is the consensus, and the cases at *)
(* least two of them spoke on and differ.                                  *)
SaidBy(r, who) == {c \in Cases : \E i \in DOMAIN words[r][c] : words[r][c][i].who = who}
WordOf(r, c, who) == words[r][c][CHOOSE i \in DOMAIN words[r][c] : words[r][c][i].who = who].verdict
AgreedWithConsensus(r, who) == {c \in SaidBy(r, who) : WordOf(r, c, who) = Word(r, c)}
Disagreements(r) == {c \in Cases : Cardinality({words[r][c][i].verdict : i \in DOMAIN words[r][c]}) > 1}

(* The map counts the cases of each pattern.                               *)
MapCount(r, pattern) == Cardinality({c \in Cases : PatternOf(r, c) = pattern})

(* Its observed agreement counts the cases whose stable votes are one word.*)
ObservedAlike(r) == {c \in Cases : Cardinality(Given(StableVotes(votes[r][c]))) = 1}

(* The Standards page counts as splits the cases that all the votes, the   *)
(* unstable ones too, leave neither settled nor ungraded.                  *)
PageSplits(r) == {c \in Cases : Pattern(votes[r][c]) \notin {"settled", "ungraded"}}

(* The ten to check oneself: four of the divided cases, four of the        *)
(* settled, two of what is left, each the first in the order of the items, *)
(* whichever that is; read from all the votes.                             *)
Picks(from, n) == {S \in SUBSET from : Cardinality(S) = IF Cardinality(from) < n THEN Cardinality(from) ELSE n}

Tens(r) ==
    LET Reading(patterns) == {c \in Cases : Pattern(votes[r][c]) \in patterns}
        rest == Reading({"blind-spot", "settled", "contested", "persona-driven"})
    IN UNION {{S \cup T : T \in Picks(rest \ S, 2)} : S \in
                 {A \cup B : A \in Picks(Reading({"contested", "persona-driven"}), 4),
                             B \in Picks(Reading({"settled"}), 4)}}

(* Coverage reads the cases of the last round that closed once more.       *)
(* Fault: with the unstable votes.                                         *)
CoverageReadingUnstable(r, c) == [pattern |-> Pattern(votes[r][c]), verdict |-> VerdictOf(r, c)]

CoverageReading(r, c) == [pattern |-> PatternOf(r, c), verdict |-> VerdictOf(r, c)]

Covered(r) ==
    LET graded == {c \in Cases : CoverageReading(r, c).pattern # "ungraded"}
    IN [graded |-> graded,
        splits |-> {c \in graded : IsSplit(CoverageReading(r, c).pattern)},
        decided |-> {c \in graded : CoverageReading(r, c).verdict # NoVerdict}]

(* The golden set of a bundle, and the rest of what it says of a round.    *)
Golden(r) ==
    {row \in [case : Cases, expected : Words] :
        row.expected \in Labels(votes[r][row.case], Word(r, row.case))}

Bundle(r) ==
    [golden |-> Golden(r), falseSettleRate |-> rate[r], standard |-> version[r],
     weights |-> [s \in seated |-> weight[s]]]

(* The rows of the training export: the examples, which say whether people *)
(* had a word in it, the gold, which is their word beside the panel's, a   *)
(* reward for what each seat said, and the level by which a case is paired *)
(* with another.                                                           *)
ExampleRows == [case : Cases, label : Words, checked : BOOLEAN]
GoldRows == [case : Cases, label : Scale, panel : Words \cup {NoVerdict}]
RewardRows == {row \in [case : Cases, seat : Seats, verdict : Scale, score : Scores] :
                 row.score = ScoreOf(row.verdict)}

Examples(r) ==
    {row \in ExampleRows :
        /\ row.label \in Labels(votes[r][row.case], Word(r, row.case))
        /\ row.checked <=> row.case \in Judged(r)}

Gold(r) ==
    {row \in GoldRows :
        /\ row.label = Word(r, row.case)
        /\ row.panel \in IF Pattern(votes[r][row.case]) = "settled"
                         THEN Outcomes(votes[r][row.case]) ELSE {NoVerdict}}

Rewards(r) == {row \in RewardRows : row.seat \in Backers(votes[r][row.case], row.verdict)}

LevelOf(r, c) == Level(votes[r][c], weight, Word(r, c))

TrainingExport(r) ==
    [examples |-> Examples(r), gold |-> Gold(r), rewards |-> Rewards(r),
     levels |-> [c \in Cases |-> LevelOf(r, c)]]

(* Every finished round of the project is exported.                        *)
Training == [r \in {q \in Runs : Closed(q)} |-> TrainingExport(r)]

-----------------------------------------------------------------------------
TypeOK ==
    /\ seated \subseteq Seats
    /\ weight \in [Seats -> Nat \ {0}]
    /\ writes \subseteq Seats \X (Nat \ {0})
    /\ status \in [Runs -> {"none", "open", "closed"}]
    /\ version \in [Runs -> Versions]
    /\ votes \in [Runs -> [Cases -> Tables]]
    /\ settled \in [Runs -> [Cases -> Scale \cup {NoVerdict}]]
    /\ todo \subseteq Questions
    /\ words \in [Runs -> [Cases -> Seq(Sayings)]]
    /\ rate \in [Runs -> {<<>>} \cup (Nat \X Nat)]
    /\ work \in 0..MaxWork

(* server/app.ts:2692: the pattern of a case comes from its stable votes   *)
(* and its verdict from the weighted ones, by two functions in two files   *)
(* over the same rows.  Whatever passes, reweightings and deletions did,   *)
(* in whatever order, they agree: an ungraded case has no verdict, and     *)
(* where the stable votes say one thing that is the verdict.               *)
ReadersAgree ==
    \A r \in Runs, c \in Cases :
        /\ PatternOf(r, c) = "ungraded" => VerdictOf(r, c) = NoVerdict
        /\ SaysOneThing(PatternOf(r, c)) => VerdictOf(r, c) \in Given(StableVotes(votes[r][c]))

(* server/app.ts:2645: the map, coverage and the report each read a round  *)
(* again.  The cases coverage counts as graded, decided and split are the  *)
(* report's, and the map's four counts add up to the decided ones: neither *)
(* ties nor weights nor unstable votes leave a split without a verdict.    *)
(* No split counts as observed agreement, and what says one thing does;    *)
(* the Standards page misses none of the splits; and whichever ten one is  *)
(* to check are graded cases, some whenever the report has a verdict.  The *)
(* dissent counted for each person is on the list of cases to settle in a  *)
(* room.                                                                   *)
ReportsAddUp ==
    \A r \in Runs :
        /\ Covered(r) = [graded |-> Decided(r), splits |-> Splits(r), decided |-> Decided(r)]
        /\ MapCount(r, "settled") + MapCount(r, "blind-spot")
             + MapCount(r, "persona-driven") + MapCount(r, "contested") = Cardinality(Decided(r))
        /\ Splits(r) \subseteq PageSplits(r) \ ObservedAlike(r)
        /\ {c \in Cases : SaysOneThing(PatternOf(r, c))} \subseteq ObservedAlike(r)
        /\ \A ten \in Tens(r) :
             /\ \A c \in ten : Cardinality(Real(votes[r][c])) >= 2
             /\ Decided(r) # {} => ten # {}
        /\ \A who \in People :
             SaidBy(r, who) \ AgreedWithConsensus(r, who) \subseteq Disagreements(r)

(* server/app.ts:1711: unanimous cases are skipped by the stability pass.  *)
(* What every seat that graded a case said is, for good, what the map, the *)
(* report and a rerun read, as long as two of those seats are left; no     *)
(* pass, reweighting or deletion moves it.                                 *)
SettledStays ==
    \A r \in Runs, c \in Cases :
        settled[r][c] # NoVerdict /\ Cardinality(Real(votes[r][c])) >= 2 =>
            /\ SaysOneThing(PatternOf(r, c)) /\ VerdictOf(r, c) = settled[r][c]
            /\ Labels(votes[r][c], Word(r, c)) \subseteq {settled[r][c], Abstain}

(* server/app.ts:2725: the diff is against the run before.  A run that     *)
(* reads every case as the run before reads it now passes every gate that  *)
(* one passes, is the same point in the series with nothing new, and, if   *)
(* the whole series reads so, has not drifted by any limit.  A case the    *)
(* comparison of the two calls flipped from one verdict to another has     *)
(* flipped in the report, if it is decided in either.                      *)
SameReading(q, r) ==
    \A c \in Cases : PatternOf(r, c) = PatternOf(q, c) /\ VerdictOf(r, c) = VerdictOf(q, c)

SameReadingsSameWord ==
    \A r \in Runs : \A q \in Previous(r) : Closed(r) =>
        /\ SameReading(q, r) => \A gate \in Gates : Passes(q, gate) => Passes(r, gate)
        /\ SameReading(q, r) => Point(r) = [Point(q) EXCEPT !.newSplits = {}, !.flipped = {}]
        /\ (\A p \in Series(r) : SameReading(p, r)) => ~Drifted(r)
        /\ \A c \in CompareFlips(q, r) :
             /\ {OutcomeOf(q, c), OutcomeOf(r, c)} \subseteq Scale
             /\ c \in Decided(q) \cup Decided(r)
             => c \in Flipped(r)

(* server/training.ts:281, server/app.ts:2841: five builders read a closed *)
(* round for five files, the exports from all its votes and the others     *)
(* from the stable ones.  What is taught or expected of a case is what the *)
(* report, the comparison, the pairing and the people say of it, or they   *)
(* say nothing; it is no false settle, and no sentence is mined from it    *)
(* whoever the literalist is.  Supplied as what a rerun is to find, it is  *)
(* found wherever the run decides; and a seat is rewarded in full for the  *)
(* verdict the report counts as passed, and for no other.                  *)
ExportsTellOneStory ==
    \A r \in DOMAIN Training :
        LET taught == {<<row.case, row.label>> : row \in Training[r].examples}
            Taught(c) == {v \in Scale : <<c, v>> \in taught}
            found == ExpectedMatch(r, [c \in Cases |->
                         IF Taught(c) = {} THEN NoVerdict ELSE CHOOSE v \in Taught(c) : TRUE])
        IN /\ taught = {<<row.case, row.expected>> : row \in Bundle(r).golden}
           /\ found.agreed = found.compared
           /\ \A row \in Training[r].rewards : row.score.num = row.score.den <=> row.verdict = Top
           /\ \A c \in Cases : \A v \in Taught(c) :
                LET silent == {v, NoVerdict}
                IN /\ {VerdictOf(r, c), OutcomeOf(r, c), Word(r, c), Training[r].levels[c]} \subseteq silent
                   /\ ~FalseSettle(votes[r][c], Word(r, c)) /\ ~UnstableDissent(votes[r][c])
                   /\ \A s \in Seats : ~Disputed(StableVotes(votes[r][c]), s)
                   /\ \A row \in Training[r].rewards : row.case = c => row.verdict = v
                   /\ \A row \in Training[r].gold : row.case = c =>
                        row.label = v /\ row.panel \in {v, Abstain}
=============================================================================
