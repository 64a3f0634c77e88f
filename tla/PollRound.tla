----------------------------- MODULE PollRound -----------------------------
(***************************************************************************)
(* The human poll of server/app.ts over the tables of server/db.ts: rounds *)
(* drawn by the sampler, votes, the close, the two readers of finished     *)
(* votes (report and eval set) with their embargo, resolutions and the     *)
(* deletion of scenarios.                                                  *)
(*                                                                         *)
(* No handler runs in a transaction and several instances serve at once,   *)
(* so a request is a record that moves from one awaited statement to the   *)
(* next; between two of its steps every other request may run, and at any  *)
(* point the function may die (Crash).  A request whose guard fails writes *)
(* nothing and is not represented.  A definition whose comment starts with *)
(* "Fault" is a wrong variant of the one after it: it is in no             *)
(* specification, and shows what a property would catch.                   *)
(*                                                                         *)
(* An item is identified by its round and its scenario: round_items is     *)
(* UNIQUE (round_id, trace_id).  One project is modelled, with its         *)
(* standards in place: people, rounds and items of other projects are      *)
(* refused by every handler.                                               *)
(***************************************************************************)
EXTENDS Naturals, FiniteSets, FiniteSetsExt

CONSTANTS
    Graders,        \* people who vote and read; anybody with the project link
    Traces,         \* the project's scenarios
    Verdicts,       \* the scale of the standards
    Abstain,        \* "cannot judge", accepted beside the scale
    NoGrade,        \* no row in grades
    MaxRounds,      \* bound: rounds ever opened
    CalSizes,       \* bound: calibrationSize values asked for
    HeldSizes,      \* bound: heldoutSize values asked for
    MaxVotes,       \* bound: rows of grades, and votes on their way there
    MaxInFlight     \* bound: requests being served at one time

ASSUME PollConstants ==
    /\ IsFiniteSet(Graders)
    /\ MaxRounds \in Nat
    /\ CalSizes \subseteq Nat \ {0}
    /\ HeldSizes \subseteq Nat
    /\ Abstain \notin Verdicts
    /\ NoGrade \notin Verdicts \cup {Abstain}
    /\ MaxVotes \in Nat /\ MaxInFlight \in Nat

VARIABLES
    pool,       \* traces: the scenarios not deleted
    status,     \* rounds.status, "absent" before the row exists
    arm,        \* round_items.arm, "none" where there is no item
    grade,      \* grades.verdict, NoGrade where there is no row
    settled,    \* items that carry a row of resolutions
    voting,     \* POST grades past its guard
    closing,    \* rounds a POST close has counted participants for
    drafting,   \* POST rounds in progress
    reading,    \* GET report and GET evalset in progress
    \* What no table records and the properties are about:
    revealed,   \* rounds whose finished votes somebody was sent
    voters      \* voters[r]: everybody who ever had a vote stored in r

pollVars == <<pool, status, arm, grade, settled, voting, closing, drafting,
              reading, revealed, voters>>

Rounds == 1..MaxRounds
Votes == Verdicts \cup {Abstain}
Arms == {"calibration", "heldout"}
Ballots == [grader: Graders, round: Rounds, trace: Traces, verdict: Votes, informed: BOOLEAN]

(* A creator holds what it has read so far.  source 0 is strategy random.  *)
Drafts == [stage: {"pooled", "planned", "inserting"}, source: 0..MaxRounds, size: CalSizes \X HeldSizes,
           pool: SUBSET Traces, cal: SUBSET Traces, held: SUBSET Traces, round: 0..MaxRounds]

(* A reader holds the rows it read, then the other open rounds it listed,  *)
(* then the scenarios it will withhold.  live is what the code does not    *)
(* keep: the items other polls had open at the moment the rows were read.  *)
Reads == [round: Rounds, kind: {"report", "evalset"},
          stage: {"rows", "listed", "embargoed"},
          rows: SUBSET Traces, open: SUBSET Rounds, embargo: SUBSET Traces,
          live: SUBSET (Rounds \X Traces)]

Items(r) == {t \in Traces : arm[r][t] # "none"}
Participants(r) == {g \in Graders : \E t \in Traces : grade[r][t][g] # NoGrade}
RealVotes(r, t) == {grade[r][t][g] : g \in Graders} \cap Verdicts
VoteCount(r, t) == Cardinality({g \in Graders : grade[r][t][g] \in Verdicts})

(* classify: unanimous up to one distinct verdict, a split from two.       *)
Splits(r) == {t \in Items(r) : Cardinality(RealVotes(r, t)) >= 2}

InFlight == Cardinality(voting) + Cardinality(closing) + Cardinality(drafting) + Cardinality(reading)
Room == InFlight < MaxInFlight
Rows == {row \in Rounds \X Traces \X Graders : grade[row[1]][row[2]][row[3]] # NoGrade}

Init ==
    /\ pool = Traces
    /\ status = [r \in Rounds |-> "absent"]
    /\ arm = [r \in Rounds |-> [t \in Traces |-> "none"]]
    /\ grade = [r \in Rounds |-> [t \in Traces |-> [g \in Graders |-> NoGrade]]]
    /\ settled = [r \in Rounds |-> {}]
    /\ voting = {} /\ closing = {} /\ drafting = {} /\ reading = {}
    /\ revealed = {}
    /\ voters = [r \in Rounds |-> {}]

-----------------------------------------------------------------------------
(* Creating a poll: POST /projects/:slug/rounds.                           *)

(* Every sample the seeded sampler can draw.  The held-out arm is reserved *)
(* first, reused when the source had one; calibration takes the source's   *)
(* splits before anything else.                                            *)
PlanSample(from, splits, reuse, c, h) ==
    {plan \in [cal: SUBSET from, held: SUBSET from] :
        LET rest == from \ plan.held
            carried == splits \cap rest
        IN  /\ IF reuse # {} THEN plan.held = reuse \cap from
                             ELSE Cardinality(plan.held) = Min({h, Cardinality(from)})
            /\ plan.cal \subseteq rest
            /\ Cardinality(plan.cal) = Min({c, Cardinality(rest)})
            /\ plan.cal \subseteq carried \/ carried \subseteq plan.cal}

DraftBegin(s, c, h) ==
    /\ Room
    /\ s # 0 => status[s] # "absent"
    /\ pool # {} /\ Cardinality(pool) >= c + h
    /\ drafting' = drafting \cup
         {[stage |-> "pooled", source |-> s, size |-> <<c, h>>, pool |-> pool,
           cal |-> {}, held |-> {}, round |-> 0]}
    /\ UNCHANGED <<pool, status, arm, grade, settled, voting, closing, reading, revealed, voters>>

(* The source poll must be closed; its splits and, when asked for, its     *)
(* held-out items are read after the pool was.                             *)
DraftPlan(d) ==
    /\ d \in drafting /\ d.stage = "pooled"
    /\ d.source # 0 => status[d.source] = "closed"
    /\ \E reuse \in IF d.source = 0 THEN {{}} ELSE {{}, {t \in Traces : arm[d.source][t] = "heldout"}} :
         LET splits == IF d.source = 0 THEN {} ELSE Splits(d.source)
         IN  \E plan \in PlanSample(d.pool, splits, reuse, d.size[1], d.size[2]) :
               drafting' = (drafting \ {d}) \cup
                 {[d EXCEPT !.stage = "planned", !.source = 0, !.pool = {}, !.cal = plan.cal, !.held = plan.held]}
    /\ UNCHANGED <<pool, status, arm, grade, settled, voting, closing, reading, revealed, voters>>

(* The round row goes in as open, before any of its items.                 *)
DraftOpen(d) ==
    /\ d \in drafting /\ d.stage = "planned"
    /\ \E r \in Rounds :
         /\ status[r] = "absent"
         /\ \A q \in Rounds : status[q] = "absent" => r <= q
         /\ status' = [status EXCEPT ![r] = "open"]
         /\ drafting' = (drafting \ {d}) \cup {[d EXCEPT !.stage = "inserting", !.round = r]}
    /\ UNCHANGED <<pool, arm, grade, settled, voting, closing, reading, revealed, voters>>

(* Fault: the arm is stored under a name the schema does not know.         *)
DraftItemMisnamed(d, t) ==
    /\ d \in drafting /\ d.stage = "inserting"
    /\ t \in (d.cal \cup d.held) \cap pool
    /\ arm' = [arm EXCEPT ![d.round][t] = IF t \in d.held THEN "holdout" ELSE "calibration"]
    /\ drafting' = drafting \ {d}
    /\ UNCHANGED <<pool, status, grade, settled, voting, closing, reading, revealed, voters>>

(* Items go in one statement at a time, in a shuffled order.  A scenario   *)
(* deleted since the plan fails its foreign key, and the request with it:  *)
(* the round stays as far as it got.                                       *)
DraftItem(d, t) ==
    /\ d \in drafting /\ d.stage = "inserting"
    /\ t \in (d.cal \cup d.held) \cap pool
    /\ arm' = [arm EXCEPT ![d.round][t] = IF t \in d.held THEN "heldout" ELSE "calibration"]
    /\ LET left == [d EXCEPT !.cal = @ \ {t}, !.held = @ \ {t}]
       IN  drafting' = (drafting \ {d}) \cup (IF left.cal \cup left.held = {} THEN {} ELSE {left})
    /\ UNCHANGED <<pool, status, grade, settled, voting, closing, reading, revealed, voters>>

-----------------------------------------------------------------------------
(* Voting: POST /rounds/:roundId/grades.                                   *)

(* Fault: the status guard is missing.                                     *)
CastBeginAnyStatus(g, r, t, v) ==
    /\ Room
    /\ Cardinality(Rows) + Cardinality(voting) < MaxVotes
    /\ t \in Items(r)
    /\ voting' = voting \cup
         {[grader |-> g, round |-> r, trace |-> t, verdict |-> v, informed |-> r \in revealed]}
    /\ UNCHANGED <<pool, status, arm, grade, settled, closing, drafting, reading, revealed, voters>>

(* requireRound reads the status once; everything after trusts it.         *)
CastBegin(g, r, t, v) ==
    /\ Room
    /\ Cardinality(Rows) + Cardinality(voting) < MaxVotes
    /\ status[r] = "open"
    /\ t \in Items(r)
    /\ voting' = voting \cup
         {[grader |-> g, round |-> r, trace |-> t, verdict |-> v, informed |-> r \in revealed]}
    /\ UNCHANGED <<pool, status, arm, grade, settled, closing, drafting, reading, revealed, voters>>

(* The upsert does not look at the round again.                            *)
CastStore(b) ==
    /\ b \in voting
    /\ b.trace \in Items(b.round)
    /\ voting' = voting \ {b}
    /\ grade' = [grade EXCEPT ![b.round][b.trace][b.grader] = b.verdict]
    /\ voters' = [voters EXCEPT ![b.round] = @ \cup {b.grader}]
    /\ UNCHANGED <<pool, status, arm, settled, closing, drafting, reading, revealed>>

-----------------------------------------------------------------------------
(* Closing: POST /rounds/:roundId/close.                                   *)

(* Fault: two votes are counted where two people are meant.                *)
CloseBeginByVotes(r) ==
    /\ Room
    /\ status[r] # "absent"
    /\ Cardinality({row \in Rows : row[1] = r}) >= 2
    /\ closing' = closing \cup {r}
    /\ UNCHANGED <<pool, status, arm, grade, settled, voting, drafting, reading, revealed, voters>>

CloseBegin(r) ==
    /\ Room
    /\ status[r] # "absent"
    /\ Cardinality(Participants(r)) >= 2
    /\ closing' = closing \cup {r}
    /\ UNCHANGED <<pool, status, arm, grade, settled, voting, drafting, reading, revealed, voters>>

CloseWrite(r) ==
    /\ r \in closing
    /\ closing' = closing \ {r}
    /\ status' = IF status[r] = "open" THEN [status EXCEPT ![r] = "closed"] ELSE status
    /\ UNCHANGED <<pool, arm, grade, settled, voting, drafting, reading, revealed, voters>>

-----------------------------------------------------------------------------
(* Reading finished votes: GET /rounds/:roundId/report and .../evalset.    *)

(* The report's rows that have a vote to tell: an abstention is none.      *)
ReportRows(r) == {t \in Items(r) : RealVotes(r, t) # {}}

(* The cases of an eval set: resolved, or at least two votes and all equal.*)
EvalCases(r) ==
    {t \in Items(r) :
        /\ arm[r][t] = "calibration"
        /\ \/ t \in settled[r]
           \/ VoteCount(r, t) >= 2 /\ Cardinality(RealVotes(r, t)) = 1}

OpenElsewhere(r) == {q \in Rounds \ {r} : status[q] = "open"}
OpenItems(r) == {item \in OpenElsewhere(r) \X Traces : item[2] \in Items(item[1])}

(* Fault: an open poll is reported on.                                     *)
ReadRowsAnyStatus(r, kind) ==
    /\ Room
    /\ status[r] # "absent"
    /\ reading' = reading \cup
         {[round |-> r, kind |-> kind, stage |-> "rows",
           rows |-> ReportRows(r), open |-> {}, embargo |-> {}, live |-> OpenItems(r)]}
    /\ UNCHANGED <<pool, status, arm, grade, settled, voting, closing, drafting, revealed, voters>>

(* The status is read first and the rows after it; as no route reopens a   *)
(* round, the guard still holds when the rows are read.                    *)
ReadRows(r, kind) ==
    /\ Room
    /\ status[r] = "closed"
    /\ reading' = reading \cup
         {[round |-> r, kind |-> kind, stage |-> "rows",
           rows |-> IF kind = "report" THEN ReportRows(r) ELSE EvalCases(r),
           open |-> {}, embargo |-> {}, live |-> OpenItems(r)]}
    /\ UNCHANGED <<pool, status, arm, grade, settled, voting, closing, drafting, revealed, voters>>

(* traceIdsInOpenRounds lists the rounds, then reads the items of each.    *)
ReadOpenRounds(x) ==
    /\ x \in reading /\ x.stage = "rows"
    /\ reading' = (reading \ {x}) \cup {[x EXCEPT !.stage = "listed", !.open = OpenElsewhere(x.round)]}
    /\ UNCHANGED <<pool, status, arm, grade, settled, voting, closing, drafting, revealed, voters>>

(* Fault: what the other poll holds out is left off the embargo.           *)
ReadEmbargoDiscussed(x) ==
    /\ x \in reading /\ x.stage = "listed"
    /\ reading' = (reading \ {x}) \cup
         {[x EXCEPT !.stage = "embargoed", !.open = {},
                    !.embargo = UNION {{t \in Traces : arm[q][t] = "calibration"} : q \in x.open}]}
    /\ UNCHANGED <<pool, status, arm, grade, settled, voting, closing, drafting, revealed, voters>>

ReadEmbargo(x) ==
    /\ x \in reading /\ x.stage = "listed"
    /\ reading' = (reading \ {x}) \cup
         {[x EXCEPT !.stage = "embargoed", !.open = {}, !.embargo = UNION {Items(q) : q \in x.open}]}
    /\ UNCHANGED <<pool, status, arm, grade, settled, voting, closing, drafting, revealed, voters>>

(* The resolutions and the notes are read, and the answer is sent.         *)
ReadAnswer(x) ==
    /\ x \in reading /\ x.stage = "embargoed"
    /\ reading' = reading \ {x}
    /\ revealed' = revealed \cup {x.round}
    /\ UNCHANGED <<pool, status, arm, grade, settled, voting, closing, drafting, voters>>

-----------------------------------------------------------------------------
(* Resolutions, deletion of a scenario, and the death of a request.        *)

(* Fault: a held-out item may be settled.                                  *)
ResolveAnyArm(r, t) ==
    /\ status[r] = "closed"
    /\ t \in Items(r)
    /\ settled' = [settled EXCEPT ![r] = @ \cup {t}]
    /\ UNCHANGED <<pool, status, arm, grade, voting, closing, drafting, reading, revealed, voters>>

(* The poll stays closed and the item keeps its arm after the guards read  *)
(* them, so the guards and the upsert are one step.                        *)
Resolve(r, t) ==
    /\ status[r] = "closed"
    /\ t \in Items(r) /\ arm[r][t] # "heldout"
    /\ settled' = [settled EXCEPT ![r] = @ \cup {t}]
    /\ UNCHANGED <<pool, status, arm, grade, voting, closing, drafting, reading, revealed, voters>>

(* The item is deleted by its id alone: the round in the path is not       *)
(* checked against it, nor is its status.                                  *)
Unresolve(r, t) ==
    /\ t \in settled[r]
    /\ settled' = [settled EXCEPT ![r] = @ \ {t}]
    /\ UNCHANGED <<pool, status, arm, grade, voting, closing, drafting, reading, revealed, voters>>

(* Foreign keys cascade from traces to items, votes and resolutions, in    *)
(* rounds of any status.                                                   *)
DeleteTrace(t) ==
    /\ t \in pool
    /\ pool' = pool \ {t}
    /\ arm' = [r \in Rounds |-> [arm[r] EXCEPT ![t] = "none"]]
    /\ grade' = [r \in Rounds |-> [grade[r] EXCEPT ![t] = [g \in Graders |-> NoGrade]]]
    /\ settled' = [r \in Rounds |-> settled[r] \ {t}]
    /\ UNCHANGED <<status, voting, closing, drafting, reading, revealed, voters>>

(* A request that dies, or ends in an error between two of its writes.     *)
Crash ==
    /\ \/ /\ \E b \in voting : voting' = voting \ {b}
          /\ UNCHANGED <<closing, drafting, reading>>
       \/ /\ \E r \in closing : closing' = closing \ {r}
          /\ UNCHANGED <<voting, drafting, reading>>
       \/ /\ \E d \in drafting : drafting' = drafting \ {d}
          /\ UNCHANGED <<voting, closing, reading>>
       \/ /\ \E x \in reading : reading' = reading \ {x}
          /\ UNCHANGED <<voting, closing, drafting>>
    /\ UNCHANGED <<pool, status, arm, grade, settled, revealed, voters>>

-----------------------------------------------------------------------------
Creating ==
    \/ \E s \in 0..MaxRounds, c \in CalSizes, h \in HeldSizes : DraftBegin(s, c, h)
    \/ \E d \in drafting : DraftPlan(d) \/ DraftOpen(d) \/ \E t \in Traces : DraftItem(d, t)

Voting ==
    \/ \E g \in Graders, r \in Rounds, t \in Traces, v \in Votes : CastBegin(g, r, t, v)
    \/ \E b \in voting : CastStore(b)

Closing == \E r \in Rounds : CloseBegin(r) \/ CloseWrite(r)

Reading ==
    \/ \E r \in Rounds, kind \in {"report", "evalset"} : ReadRows(r, kind)
    \/ \E x \in reading : ReadOpenRounds(x) \/ ReadEmbargo(x) \/ ReadAnswer(x)

Settling == \E r \in Rounds, t \in Traces : Resolve(r, t) \/ Unresolve(r, t)

Next ==
    \/ Creating
    \/ Voting
    \/ Closing
    \/ Reading
    \/ Settling
    \/ \E t \in Traces : DeleteTrace(t)
    \/ Crash

Spec == Init /\ [][Next]_pollVars

-----------------------------------------------------------------------------
(* Every variable holds a value of its table or request type.              *)
TypeOK ==
    /\ pool \subseteq Traces
    /\ status \in [Rounds -> {"absent", "open", "closed"}]
    /\ arm \in [Rounds -> [Traces -> Arms \cup {"none"}]]
    /\ grade \in [Rounds -> [Traces -> [Graders -> Votes \cup {NoGrade}]]]
    /\ settled \in [Rounds -> SUBSET Traces]
    /\ voting \subseteq Ballots
    /\ closing \subseteq Rounds
    /\ drafting \subseteq Drafts
    /\ reading \subseteq Reads
    /\ revealed \subseteq Rounds
    /\ voters \in [Rounds -> SUBSET Graders]

(* Nobody looks first and grades second: no vote on its way to the store   *)
(* was decided by somebody who had been sent the round's finished votes.   *)
(* A vote may arrive late (the status is read once), never informed.       *)
BlindVotes == \A b \in voting : ~b.informed

(* A poll closes only on the votes of two people, although the count is    *)
(* taken in one statement and the close is written in another, with votes  *)
(* overwritten and scenarios deleted in between.                           *)
ClosedHasQuorum == \A r \in Rounds : status[r] = "closed" => Cardinality(voters[r]) >= 2

(* What is held back is never discussed: resolutions stand on calibration  *)
(* items of closed polls only, whatever creators, deletions and crashes    *)
(* did to the arms.                                                        *)
HeldoutNeverResolved ==
    \A r \in Rounds : \A t \in settled[r] : status[r] = "closed" /\ arm[r][t] = "calibration"

(* Cases other people were voting on in another poll when the rows were    *)
(* read, and still are.                                                    *)
StillLive(x) ==
    {t \in Traces : \E q \in Rounds : <<q, t>> \in x.live /\ status[q] = "open" /\ t \in Items(q)}

(* What the answer about to be sent tells of a case: who voted what on a   *)
(* row outside the embargo; but a report keeps the list of distinct        *)
(* verdicts on every row, and does not filter the resolutions.             *)
VotesTold(x) == x.rows \ x.embargo
VerdictsTold(x) == IF x.kind = "report" THEN x.rows ELSE VotesTold(x)

(* The votes and notes of a case that another poll has had open since the  *)
(* rows were read are withheld from the answer, although the rows, the     *)
(* open polls and their items are read by statements far apart.            *)
EmbargoWithholdsVotes ==
    \A x \in reading : x.stage = "embargoed" => VotesTold(x) \cap StillLive(x) = {}

(* shared/types.ts:299: a grader of the later poll cannot look up how      *)
(* everyone graded the case last time.  The embargoed row keeps its list   *)
(* of distinct verdicts: for an undivided case, everybody's vote.          *)
EmbargoWithholdsVerdicts ==
    \A x \in reading : x.stage = "embargoed" => VerdictsTold(x) \cap StillLive(x) = {}

(* The poll implements the promise of BlindBallot.                         *)
Ballot == INSTANCE BlindBallot WITH
    Votes <- Votes,
    phase <- status,
    votes <- grade,
    decided <- {[grader |-> b.grader, round |-> b.round, trace |-> b.trace, verdict |-> b.verdict] : b \in voting}

KeepsBallotPromise == Ballot!Spec
=============================================================================
