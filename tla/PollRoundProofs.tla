-------------------------- MODULE PollRoundProofs --------------------------
(***************************************************************************)
(* What PollRound promises for every set of people, scenarios, verdicts    *)
(* and rounds, with any number of requests in flight; and what Judge       *)
(* promises of the runs a poll is followed by, for every arm, any people   *)
(* and any number of requests, together with the statistics both of them   *)
(* are reported by, for every table of what raters said.                   *)
(***************************************************************************)
EXTENDS PollRound, Judge, SumLemmas

(* The sampler answers with two sets of scenarios of its pool that do not  *)
(* meet: calibration never eats the measurement set.                       *)
LEMMA PlanSampleDisjoint ==
    ASSUME NEW from, NEW splits, NEW reuse, NEW c, NEW h,
           NEW plan \in PlanSample(from, splits, reuse, c, h)
    PROVE  /\ plan.cal \subseteq from /\ plan.held \subseteq from
           /\ plan.cal \cap plan.held = {}
BY DEF PlanSample

(* So a planned request holds two disjoint arms, and has changed nothing   *)
(* but itself.                                                             *)
LEMMA DraftPlanEffect ==
    ASSUME NEW d \in drafting, DraftPlan(d)
    PROVE  \E cal, held \in SUBSET d.pool :
             /\ cal \cap held = {}
             /\ drafting' = (drafting \ {d}) \cup
                  {[d EXCEPT !.stage = "planned", !.source = 0, !.pool = {}, !.cal = cal, !.held = held]}
<1>1. PICK splits, reuse, plan :
        /\ plan \in PlanSample(d.pool, splits, reuse, d.size[1], d.size[2])
        /\ drafting' = (drafting \ {d}) \cup
             {[d EXCEPT !.stage = "planned", !.source = 0, !.pool = {}, !.cal = plan.cal, !.held = plan.held]}
    BY DEF DraftPlan
<1>2. plan.cal \in SUBSET d.pool /\ plan.held \in SUBSET d.pool /\ plan.cal \cap plan.held = {}
    BY <1>1, PlanSampleDisjoint
<1> QED
    BY <1>1, <1>2

-----------------------------------------------------------------------------
(* Type correctness.                                                       *)

LEMMA InitType == Init => TypeOK
BY PollConstants DEF Init, TypeOK, Rounds

(* The steps of creating a poll keep the types,                            *)
LEMMA CreatingType == TypeOK /\ Creating => TypeOK'
<1> SUFFICES ASSUME TypeOK, Creating PROVE TypeOK'
    OBVIOUS
<1> USE PollConstants DEF TypeOK, Rounds
<1>1. ASSUME NEW s \in 0..MaxRounds, NEW c \in CalSizes, NEW h \in HeldSizes, DraftBegin(s, c, h)
      PROVE  TypeOK'
    BY <1>1 DEF DraftBegin, Drafts
<1>2. ASSUME NEW d \in drafting, DraftPlan(d)
      PROVE  TypeOK'
    <2>1. PICK cal, held \in SUBSET d.pool :
            drafting' = (drafting \ {d}) \cup
              {[d EXCEPT !.stage = "planned", !.source = 0, !.pool = {}, !.cal = cal, !.held = held]}
        BY <1>2, DraftPlanEffect
    <2>2. d \in Drafts /\ cal \in SUBSET Traces /\ held \in SUBSET Traces /\ 0 \in 0..MaxRounds
        BY DEF Drafts
    <2>3. [d EXCEPT !.stage = "planned", !.source = 0, !.pool = {}, !.cal = cal, !.held = held] \in Drafts
        BY <2>2 DEF Drafts
    <2>4. drafting' \subseteq Drafts
        BY <2>1, <2>3
    <2> QED
        BY <1>2, <2>4 DEF DraftPlan
<1>3. ASSUME NEW d \in drafting, DraftOpen(d)
      PROVE  TypeOK'
    <2>1. PICK r \in Rounds :
            /\ status' = [status EXCEPT ![r] = "open"]
            /\ drafting' = (drafting \ {d}) \cup {[d EXCEPT !.stage = "inserting", !.round = r]}
        BY <1>3 DEF DraftOpen
    <2>2. d \in Drafts /\ r \in 0..MaxRounds
        OBVIOUS
    <2>3. [d EXCEPT !.stage = "inserting", !.round = r] \in Drafts
        BY <2>2 DEF Drafts
    <2> QED
        BY <1>3, <2>1, <2>3 DEF DraftOpen
<1>4. ASSUME NEW d \in drafting, NEW t \in Traces, DraftItem(d, t)
      PROVE  TypeOK'
    <2> DEFINE left == [d EXCEPT !.cal = @ \ {t}, !.held = @ \ {t}]
    <2>1. d \in Drafts
        OBVIOUS
    <2>2. left \in Drafts
        BY <2>1 DEF Drafts
    <2>3. drafting' \subseteq Drafts
        BY <1>4, <2>2 DEF DraftItem
    <2>4. arm' \in [Rounds -> [Traces -> Arms \cup {"none"}]]
        BY <1>4 DEF DraftItem, Arms
    <2> QED
        BY <1>4, <2>3, <2>4 DEF DraftItem
<1> QED
    BY <1>1, <1>2, <1>3, <1>4 DEF Creating

(* so do those of voting,                                                  *)
LEMMA VotingType == TypeOK /\ Voting => TypeOK'
<1> SUFFICES ASSUME TypeOK, Voting PROVE TypeOK'
    OBVIOUS
<1> USE DEF TypeOK
<1>1. ASSUME NEW g \in Graders, NEW r \in Rounds, NEW t \in Traces, NEW v \in Votes, CastBegin(g, r, t, v)
      PROVE  TypeOK'
    <2>1. [grader |-> g, round |-> r, trace |-> t, verdict |-> v, informed |-> r \in revealed] \in Ballots
        BY DEF Ballots
    <2> QED
        BY <1>1, <2>1 DEF CastBegin
<1>2. ASSUME NEW b \in voting, CastStore(b)
      PROVE  TypeOK'
    <2>1. b \in Ballots
        OBVIOUS
    <2>2. grade' \in [Rounds -> [Traces -> [Graders -> Votes \cup {NoGrade}]]]
        BY <1>2, <2>1 DEF CastStore, Ballots
    <2>3. voters' \in [Rounds -> SUBSET Graders]
        BY <1>2, <2>1 DEF CastStore, Ballots
    <2> QED
        BY <1>2, <2>2, <2>3 DEF CastStore
<1> QED
    BY <1>1, <1>2 DEF Voting

(* of closing,                                                             *)
LEMMA ClosingType == TypeOK /\ Closing => TypeOK'
BY DEF TypeOK, Closing, CloseBegin, CloseWrite

(* of reading,                                                             *)
LEMMA ReadingType == TypeOK /\ Reading => TypeOK'
<1> SUFFICES ASSUME TypeOK, Reading PROVE TypeOK'
    OBVIOUS
<1> USE DEF TypeOK
<1>1. ASSUME NEW r \in Rounds, NEW kind \in {"report", "evalset"}, ReadRows(r, kind)
      PROVE  TypeOK'
    <2>1. OpenItems(r) \subseteq Rounds \X Traces
        BY DEF OpenItems, OpenElsewhere
    <2>2. ReportRows(r) \subseteq Traces /\ EvalCases(r) \subseteq Traces
        BY DEF ReportRows, EvalCases, Items
    <2> QED
        BY <1>1, <2>1, <2>2 DEF ReadRows, Reads
<1>2. ASSUME NEW x \in reading, ReadOpenRounds(x)
      PROVE  TypeOK'
    <2>1. x \in Reads /\ OpenElsewhere(x.round) \in SUBSET Rounds
        BY DEF OpenElsewhere
    <2>2. [x EXCEPT !.stage = "listed", !.open = OpenElsewhere(x.round)] \in Reads
        BY <2>1 DEF Reads
    <2> QED
        BY <1>2, <2>2 DEF ReadOpenRounds
<1>3. ASSUME NEW x \in reading, ReadEmbargo(x)
      PROVE  TypeOK'
    <2>1. x \in Reads /\ UNION {Items(q) : q \in x.open} \in SUBSET Traces
        BY DEF Items
    <2>2. [x EXCEPT !.stage = "embargoed", !.open = {}, !.embargo = UNION {Items(q) : q \in x.open}] \in Reads
        BY <2>1 DEF Reads
    <2> QED
        BY <1>3, <2>2 DEF ReadEmbargo
<1>4. ASSUME NEW x \in reading, ReadAnswer(x)
      PROVE  TypeOK'
    BY <1>4 DEF ReadAnswer, Reads
<1> QED
    BY <1>1, <1>2, <1>3, <1>4 DEF Reading

(* of settling what was split,                                             *)
LEMMA SettlingType == TypeOK /\ Settling => TypeOK'
BY DEF TypeOK, Settling, Resolve, Unresolve

(* the deletion of a scenario,                                             *)
LEMMA DeleteTraceType == ASSUME TypeOK, NEW t \in Traces, DeleteTrace(t) PROVE TypeOK'
<1> USE DEF TypeOK, DeleteTrace
<1>1. arm' \in [Rounds -> [Traces -> Arms \cup {"none"}]]
    OBVIOUS
<1>2. grade' \in [Rounds -> [Traces -> [Graders -> Votes \cup {NoGrade}]]]
    OBVIOUS
<1> QED
    BY <1>1, <1>2

(* and a process killed.                                                   *)
LEMMA CrashType == TypeOK /\ Crash => TypeOK'
BY DEF TypeOK, Crash

-----------------------------------------------------------------------------
(* The inductive invariant.  Each part says what a request still relies on *)
(* when it takes its next step, long after it read it.                     *)

(* Finished votes were sent, or are about to be, only for closed polls.    *)
RevealedClosed == \A r \in revealed : status[r] = "closed"
ReadersSawClosed == \A x \in reading : status[x.round] = "closed"
BlindInv == BlindVotes /\ RevealedClosed /\ ReadersSawClosed

(* A vote in the table has a voter, and a close under way has counted two. *)
VotesHaveVoters ==
    \A r \in Rounds, t \in Traces, g \in Graders : grade[r][t][g] # NoGrade => g \in voters[r]
CountedQuorum == \A r \in closing : Cardinality(voters[r]) >= 2
QuorumInv == ClosedHasQuorum /\ VotesHaveVoters /\ CountedQuorum

(* A creator past its plan has two disjoint arms; one that is inserting    *)
(* owns its round, and none of what it has left to insert is there yet.    *)
Pending(d) == d.cal \cup d.held
ArmsApart == \A d \in drafting : d.cal \cap d.held = {}
CreatorsApart ==
    \A d, e \in drafting :
        d.stage = "inserting" /\ e.stage = "inserting" /\ d.round = e.round => d = e
PendingUnplaced ==
    \A d \in drafting : d.stage = "inserting" =>
        /\ d.round \in Rounds /\ status[d.round] # "absent"
        /\ \A t \in Pending(d) : arm[d.round][t] = "none"
AbsentEmpty == \A r \in Rounds : status[r] = "absent" => \A t \in Traces : arm[r][t] = "none"
ArmsInv == ArmsApart /\ CreatorsApart /\ PendingUnplaced /\ AbsentEmpty /\ HeldoutNeverResolved

(* What was live when a reader read its rows is still there to be found,   *)
(* or has stopped being live: it is listed, then embargoed.                *)
LiveStays ==
    \A x \in reading : \A item \in x.live :
        /\ item[1] # x.round /\ status[item[1]] # "absent"
        /\ item[2] \in pool => arm[item[1]][item[2]] # "none"
LiveListed ==
    \A x \in reading : x.stage = "listed" =>
        \A item \in x.live : status[item[1]] = "open" => item[1] \in x.open
LiveEmbargoed ==
    \A x \in reading : x.stage = "embargoed" =>
        \A item \in x.live :
            status[item[1]] = "open" /\ arm[item[1]][item[2]] # "none" => item[2] \in x.embargo
EmbargoInv == LiveStays /\ LiveListed /\ LiveEmbargoed

IInv == TypeOK /\ BlindInv /\ QuorumInv /\ ArmsInv /\ EmbargoInv

-----------------------------------------------------------------------------
(* Blindness.                                                              *)

LEMMA BlindStep == TypeOK /\ BlindInv /\ [Next]_pollVars => BlindInv'
<1> SUFFICES ASSUME TypeOK, BlindInv, [Next]_pollVars PROVE BlindInv'
    OBVIOUS
<1> USE DEF BlindInv, BlindVotes, RevealedClosed, ReadersSawClosed
<1>1. CASE Creating
    <2>1. ASSUME NEW d \in drafting, DraftOpen(d) PROVE BlindInv'
        BY <2>1 DEF DraftOpen, TypeOK, Reads
    <2> QED
        BY <1>1, <2>1 DEF Creating, DraftBegin, DraftPlan, DraftItem
<1>2. CASE Voting
    <2>1. ASSUME NEW g \in Graders, NEW r \in Rounds, NEW t \in Traces, NEW v \in Votes, CastBegin(g, r, t, v)
          PROVE  BlindInv'
        \* The poll is open, so nobody has been sent its votes.
        <3>1. r \notin revealed
            BY <2>1 DEF CastBegin
        <3> DEFINE new == [grader |-> g, round |-> r, trace |-> t, verdict |-> v, informed |-> r \in revealed]
        <3>2. ~new.informed
            BY <3>1
        <3>3. voting' = voting \cup {new} /\ UNCHANGED <<status, reading, revealed>>
            BY <2>1 DEF CastBegin
        <3> HIDE DEF new
        <3> QED
            BY <3>2, <3>3
    <2>2. ASSUME NEW b \in voting, CastStore(b) PROVE BlindInv'
        BY <2>2 DEF CastStore
    <2> QED
        BY <1>2, <2>1, <2>2 DEF Voting
<1>3. CASE Closing
    BY <1>3 DEF Closing, CloseBegin, CloseWrite, TypeOK, Reads
<1>4. CASE Reading
    <2>1. ASSUME NEW r \in Rounds, NEW kind \in {"report", "evalset"}, ReadRows(r, kind) PROVE BlindInv'
        BY <2>1 DEF ReadRows
    <2>2. ASSUME NEW x \in reading, ReadOpenRounds(x) PROVE BlindInv'
        BY <2>2 DEF ReadOpenRounds, TypeOK, Reads
    <2>3. ASSUME NEW x \in reading, ReadEmbargo(x) PROVE BlindInv'
        BY <2>3 DEF ReadEmbargo, TypeOK, Reads
    <2>4. ASSUME NEW x \in reading, ReadAnswer(x) PROVE BlindInv'
        BY <2>4 DEF ReadAnswer
    <2> QED
        BY <1>4, <2>1, <2>2, <2>3, <2>4 DEF Reading
<1>5. CASE Settling
    BY <1>5 DEF Settling, Resolve, Unresolve
<1>6. CASE \E t \in Traces : DeleteTrace(t)
    BY <1>6 DEF DeleteTrace
<1>7. CASE Crash
    BY <1>7 DEF Crash
<1>8. CASE UNCHANGED pollVars
    BY <1>8 DEF pollVars
<1> QED
    BY <1>1, <1>2, <1>3, <1>4, <1>5, <1>6, <1>7, <1>8 DEF Next

-----------------------------------------------------------------------------
(* Quorum.                                                                 *)

LEMMA TwoVotersStay ==
    ASSUME NEW S \in SUBSET Graders, NEW T \in SUBSET Graders, S \subseteq T, Cardinality(S) >= 2
    PROVE  Cardinality(T) >= 2
<1>1. IsFiniteSet(T) /\ IsFiniteSet(S)
    BY PollConstants, FS_Subset
<1>2. Cardinality(S) \in Nat /\ Cardinality(T) \in Nat
    BY <1>1, FS_CardinalityType
<1>3. Cardinality(S) <= Cardinality(T)
    BY <1>1, FS_Subset
<1> QED
    BY <1>2, <1>3

(* Whoever was counted has voted, also when votes are deleted before the   *)
(* close is written.                                                       *)
LEMMA QuorumStep == TypeOK /\ QuorumInv /\ [Next]_pollVars => QuorumInv'
<1> SUFFICES ASSUME TypeOK, QuorumInv, [Next]_pollVars PROVE QuorumInv'
    OBVIOUS
<1> USE DEF QuorumInv, ClosedHasQuorum, VotesHaveVoters, CountedQuorum
<1>1. CASE Creating
    <2>1. ASSUME NEW d \in drafting, DraftOpen(d) PROVE QuorumInv'
        BY <2>1 DEF DraftOpen, TypeOK
    <2> QED
        BY <1>1, <2>1 DEF Creating, DraftBegin, DraftPlan, DraftItem
<1>2. CASE Voting
    <2>1. ASSUME NEW g \in Graders, NEW r \in Rounds, NEW t \in Traces, NEW v \in Votes, CastBegin(g, r, t, v)
          PROVE  QuorumInv'
        BY <2>1 DEF CastBegin
    <2>2. ASSUME NEW b \in voting, CastStore(b) PROVE QuorumInv'
        <3>1. b \in Ballots
            BY DEF TypeOK
        <3>2. voters \in [Rounds -> SUBSET Graders] /\ voters' \in [Rounds -> SUBSET Graders]
            BY <2>2, <3>1 DEF CastStore, TypeOK, Ballots
        <3>3. \A r \in Rounds : voters[r] \subseteq voters'[r]
            BY <2>2, <3>1, <3>2 DEF CastStore, Ballots
        <3>4. \A r \in Rounds : Cardinality(voters[r]) >= 2 => Cardinality(voters'[r]) >= 2
            BY <3>2, <3>3, TwoVotersStay
        <3>5. ClosedHasQuorum'
            BY <2>2, <3>4 DEF CastStore
        <3>6. CountedQuorum'
            BY <2>2, <3>4 DEF CastStore, TypeOK
        <3>7. VotesHaveVoters'
            <4> SUFFICES ASSUME NEW r \in Rounds, NEW t \in Traces, NEW g \in Graders, grade'[r][t][g] # NoGrade
                         PROVE  g \in voters'[r]
                OBVIOUS
            <4>1. CASE grade[r][t][g] # NoGrade
                BY <4>1, <3>3
            <4>2. CASE grade[r][t][g] = NoGrade
                <5>1. r = b.round /\ g = b.grader
                    BY <4>2, <2>2, <3>1 DEF CastStore, TypeOK, Ballots
                <5> QED
                    BY <5>1, <2>2, <3>1 DEF CastStore, TypeOK, Ballots
            <4> QED
                BY <4>1, <4>2
        <3> QED
            BY <3>5, <3>6, <3>7
    <2> QED
        BY <1>2, <2>1, <2>2 DEF Voting
<1>3. CASE Closing
    <2>1. ASSUME NEW r \in Rounds, CloseBegin(r) PROVE QuorumInv'
        \* Whoever has a vote in the table was once stored.
        <3>1. Participants(r) \subseteq voters[r] /\ voters[r] \in SUBSET Graders
            BY DEF Participants, TypeOK
        <3>2. Cardinality(voters[r]) >= 2
            BY <2>1, <3>1, TwoVotersStay DEF CloseBegin
        <3> QED
            BY <2>1, <3>2 DEF CloseBegin
    <2>2. ASSUME NEW r \in Rounds, CloseWrite(r) PROVE QuorumInv'
        BY <2>2 DEF CloseWrite, TypeOK
    <2> QED
        BY <1>3, <2>1, <2>2 DEF Closing
<1>4. CASE Reading
    BY <1>4 DEF Reading, ReadRows, ReadOpenRounds, ReadEmbargo, ReadAnswer
<1>5. CASE Settling
    BY <1>5 DEF Settling, Resolve, Unresolve
<1>6. CASE \E t \in Traces : DeleteTrace(t)
    BY <1>6 DEF DeleteTrace, TypeOK
<1>7. CASE Crash
    BY <1>7 DEF Crash
<1>8. CASE UNCHANGED pollVars
    BY <1>8 DEF pollVars
<1> QED
    BY <1>1, <1>2, <1>3, <1>4, <1>5, <1>6, <1>7, <1>8 DEF Next

-----------------------------------------------------------------------------
(* The arms: what is held out is never settled.                            *)

LEMMA DraftPlanArms ==
    ASSUME TypeOK, ArmsInv, NEW d \in drafting, DraftPlan(d)
    PROVE  ArmsInv'
<1> USE DEF ArmsInv, ArmsApart, CreatorsApart, PendingUnplaced, AbsentEmpty, HeldoutNeverResolved, Pending
<1>1. PICK cal, held \in SUBSET d.pool :
        /\ cal \cap held = {}
        /\ drafting' = (drafting \ {d}) \cup
             {[d EXCEPT !.stage = "planned", !.source = 0, !.pool = {}, !.cal = cal, !.held = held]}
    BY DraftPlanEffect
<1> DEFINE new == [d EXCEPT !.stage = "planned", !.source = 0, !.pool = {}, !.cal = cal, !.held = held]
<1>2. new.stage = "planned" /\ new.cal = cal /\ new.held = held
    BY DEF TypeOK, Drafts
<1>3. drafting' = (drafting \ {d}) \cup {new} /\ UNCHANGED <<status, arm, settled>>
    BY <1>1 DEF DraftPlan
<1> HIDE DEF new
<1> QED
    BY <1>1, <1>2, <1>3

(* A round is stored with no items yet.                                    *)
LEMMA DraftOpenArms ==
    ASSUME TypeOK, ArmsInv, NEW d \in drafting, DraftOpen(d)
    PROVE  ArmsInv'
<1> USE DEF ArmsInv, ArmsApart, CreatorsApart, PendingUnplaced, AbsentEmpty, HeldoutNeverResolved, Pending
<1>1. PICK r \in Rounds :
        /\ status[r] = "absent"
        /\ status' = [status EXCEPT ![r] = "open"]
        /\ drafting' = (drafting \ {d}) \cup {[d EXCEPT !.stage = "inserting", !.round = r]}
    BY DEF DraftOpen
<1> DEFINE new == [d EXCEPT !.stage = "inserting", !.round = r]
<1>2. /\ new.stage = "inserting" /\ new.round = r
      /\ new.cal = d.cal /\ new.held = d.held /\ d.cal \subseteq Traces /\ d.held \subseteq Traces
    BY DEF TypeOK, Drafts
<1>3. drafting' = (drafting \ {d}) \cup {new} /\ UNCHANGED <<arm, settled>>
    BY <1>1 DEF DraftOpen
<1>4. \A e \in drafting : e.stage = "inserting" => e.round # r
    BY <1>1
<1> HIDE DEF new
<1>5. ArmsApart' /\ CreatorsApart'
    BY <1>2, <1>3, <1>4
<1>6. PendingUnplaced'
    BY <1>1, <1>2, <1>3, <1>4 DEF TypeOK
<1>7. AbsentEmpty' /\ HeldoutNeverResolved'
    BY <1>1, <1>3 DEF TypeOK
<1> QED
    BY <1>5, <1>6, <1>7

(* An item is placed in the arm it was drawn for.                          *)
LEMMA DraftItemArms ==
    ASSUME TypeOK, ArmsInv, NEW d \in drafting, NEW t \in Traces, DraftItem(d, t)
    PROVE  ArmsInv'
<1> USE DEF ArmsInv, ArmsApart, CreatorsApart, PendingUnplaced, AbsentEmpty, HeldoutNeverResolved, Pending
<1> DEFINE left == [d EXCEPT !.cal = @ \ {t}, !.held = @ \ {t}]
<1>1. left.stage = d.stage /\ left.round = d.round /\ left.cal = d.cal \ {t} /\ left.held = d.held \ {t}
    BY DEF TypeOK, Drafts
<1>2. /\ drafting' \subseteq (drafting \ {d}) \cup {left}
      /\ d.stage = "inserting" /\ t \in Pending(d) /\ UNCHANGED <<status, settled>>
    BY DEF DraftItem
<1>3. d.round \in Rounds /\ arm[d.round][t] = "none" /\ status[d.round] # "absent"
    BY <1>2
<1>4. PICK a : arm' = [arm EXCEPT ![d.round][t] = a]
    BY DEF DraftItem
<1>5. \A r \in Rounds, u \in Traces : r # d.round \/ u # t => arm'[r][u] = arm[r][u]
    BY <1>3, <1>4 DEF TypeOK
<1> HIDE DEF left
<1>6. ArmsApart' /\ CreatorsApart'
    BY <1>1, <1>2
<1>7. PendingUnplaced'
    <2> SUFFICES ASSUME NEW e \in drafting', e.stage = "inserting"
                 PROVE  /\ e.round \in Rounds /\ status'[e.round] # "absent"
                        /\ \A u \in Pending(e) : arm'[e.round][u] = "none"
        OBVIOUS
    <2>1. CASE e = left
        BY <2>1, <1>1, <1>2, <1>3, <1>5 DEF TypeOK, Drafts
    <2>2. CASE e \in drafting \ {d}
        \* Another creator is inserting into another round.
        <3>1. e.round # d.round
            BY <2>2, <1>2
        <3> QED
            BY <2>2, <3>1, <1>2, <1>5 DEF TypeOK, Drafts
    <2> QED
        BY <1>2, <2>1, <2>2
<1>8. AbsentEmpty'
    BY <1>2, <1>3, <1>5
<1>9. HeldoutNeverResolved'
    <2> SUFFICES ASSUME NEW r \in Rounds, NEW u \in settled'[r]
                 PROVE  status'[r] = "closed" /\ arm'[r][u] = "calibration"
        OBVIOUS
    <2>1. u \in settled[r] /\ u \in Traces
        BY <1>2 DEF TypeOK
    <2>2. status[r] = "closed" /\ arm[r][u] = "calibration"
        BY <2>1
    <2>3. arm'[r][u] = arm[r][u]
        BY <2>1, <2>2, <1>3, <1>5
    <2> QED
        BY <2>2, <2>3, <1>2
<1> QED
    BY <1>6, <1>7, <1>8, <1>9

(* The arms of a round stay apart in every step.                           *)
LEMMA ArmsStep == TypeOK /\ ArmsInv /\ [Next]_pollVars => ArmsInv'
<1> SUFFICES ASSUME TypeOK, ArmsInv, [Next]_pollVars PROVE ArmsInv'
    OBVIOUS
<1> USE DEF ArmsInv, ArmsApart, CreatorsApart, PendingUnplaced, AbsentEmpty, HeldoutNeverResolved, Pending
<1>0. ASSUME UNCHANGED <<status, arm, settled, drafting>> PROVE ArmsInv'
    BY <1>0
<1>1. CASE Creating
    <2>1. ASSUME NEW s \in 0..MaxRounds, NEW c \in CalSizes, NEW h \in HeldSizes, DraftBegin(s, c, h)
          PROVE  ArmsInv'
        BY <2>1 DEF DraftBegin
    <2> QED
        BY <1>1, <2>1, DraftPlanArms, DraftOpenArms, DraftItemArms DEF Creating
<1>2. CASE Voting
    <2>1. UNCHANGED <<status, arm, settled, drafting>>
        BY <1>2 DEF Voting, CastBegin, CastStore
    <2> QED
        BY <1>0, <2>1
<1>3. CASE Closing
    <2>1. ASSUME NEW r \in Rounds, CloseWrite(r) PROVE ArmsInv'
        <3>1. \A q \in Rounds : /\ status[q] = "absent" <=> status'[q] = "absent"
                               /\ status[q] = "closed" => status'[q] = "closed"
            BY <2>1 DEF CloseWrite, TypeOK
        <3> QED
            BY <2>1, <3>1 DEF CloseWrite
    <2> QED
        BY <1>3, <2>1 DEF Closing, CloseBegin
<1>4. CASE Reading
    <2>1. UNCHANGED <<status, arm, settled, drafting>>
        BY <1>4 DEF Reading, ReadRows, ReadOpenRounds, ReadEmbargo, ReadAnswer
    <2> QED
        BY <1>0, <2>1
<1>5. CASE Settling
    <2>1. ASSUME NEW r \in Rounds, NEW t \in Traces, Resolve(r, t) PROVE ArmsInv'
        <3>1. arm[r][t] = "calibration"
            BY <2>1 DEF Resolve, Items, TypeOK, Arms
        <3> QED
            BY <2>1, <3>1 DEF Resolve, TypeOK
    <2>2. ASSUME NEW r \in Rounds, NEW t \in Traces, Unresolve(r, t) PROVE ArmsInv'
        BY <2>2 DEF Unresolve, TypeOK
    <2> QED
        BY <1>5, <2>1, <2>2 DEF Settling
<1>6. ASSUME NEW t \in Traces, DeleteTrace(t) PROVE ArmsInv'
    <2>1. \A r \in Rounds, u \in Traces :
             arm'[r][u] = "none" \/ (u # t /\ arm'[r][u] = arm[r][u])
        BY <1>6 DEF DeleteTrace, TypeOK
    <2>2. \A r \in Rounds, u \in Traces : arm[r][u] = "none" => arm'[r][u] = "none"
        BY <2>1
    <2>3. \A r \in Rounds : settled'[r] = settled[r] \ {t} /\ settled[r] \subseteq Traces
        BY <1>6 DEF DeleteTrace, TypeOK
    <2>4. HeldoutNeverResolved'
        BY <1>6, <2>3 DEF DeleteTrace, TypeOK
    <2> QED
        BY <1>6, <2>2, <2>4 DEF DeleteTrace, TypeOK, Drafts
<1>7. CASE Crash
    BY <1>7 DEF Crash
<1>8. CASE UNCHANGED pollVars
    BY <1>8 DEF pollVars
<1> QED
    BY <1>1, <1>2, <1>3, <1>4, <1>5, <1>6, <1>7, <1>8 DEF Next

-----------------------------------------------------------------------------
(* The embargo.                                                            *)

(* Readers keep what they have while nothing they track comes to life.     *)
LEMMA EmbargoKept ==
    ASSUME TypeOK, EmbargoInv, reading' \subseteq reading, pool' \subseteq pool,
           \A r \in Rounds : /\ status[r] # "absent" => status'[r] # "absent"
                             /\ status'[r] = "open" => status[r] \in {"absent", "open"},
           \A r \in Rounds, t \in Traces :
             /\ arm'[r][t] # "none" => arm[r][t] # "none" \/ t \in pool
             /\ arm[r][t] # "none" /\ t \in pool' => arm'[r][t] # "none"
    PROVE  EmbargoInv'
<1> USE DEF EmbargoInv, LiveStays, LiveListed, LiveEmbargoed
<1>1. \A x \in reading' : \A item \in x.live : item[1] \in Rounds /\ item[2] \in Traces
    BY DEF TypeOK, Reads
<1>2. LiveStays'
    BY <1>1
<1>3. LiveListed'
    BY <1>1
<1>4. LiveEmbargoed'
    <2> SUFFICES ASSUME NEW x \in reading', x.stage = "embargoed", NEW item \in x.live,
                        status'[item[1]] = "open", arm'[item[1]][item[2]] # "none"
                 PROVE  item[2] \in x.embargo
        OBVIOUS
    <2>1. item[1] \in Rounds /\ item[2] \in Traces /\ x \in reading
        BY <1>1
    <2>2. status[item[1]] = "open"
        BY <2>1
    <2>3. arm[item[1]][item[2]] # "none"
        BY <2>1
    <2> QED
        BY <2>1, <2>2, <2>3
<1> QED
    BY <1>2, <1>3, <1>4

(* What is open stays covered by what a reader holds, in every step.       *)
LEMMA EmbargoStep == TypeOK /\ ArmsInv /\ EmbargoInv /\ [Next]_pollVars => EmbargoInv'
<1> SUFFICES ASSUME TypeOK, ArmsInv, EmbargoInv, [Next]_pollVars PROVE EmbargoInv'
    OBVIOUS
<1>1. CASE Creating
    <2>1. ASSUME NEW s \in 0..MaxRounds, NEW c \in CalSizes, NEW h \in HeldSizes, DraftBegin(s, c, h)
          PROVE  EmbargoInv'
        BY <2>1, EmbargoKept DEF DraftBegin
    <2>2. ASSUME NEW d \in drafting, DraftPlan(d) PROVE EmbargoInv'
        BY <2>2, EmbargoKept DEF DraftPlan
    <2>3. ASSUME NEW d \in drafting, DraftOpen(d) PROVE EmbargoInv'
        BY <2>3, EmbargoKept DEF DraftOpen, TypeOK
    <2>4. ASSUME NEW d \in drafting, NEW t \in Traces, DraftItem(d, t) PROVE EmbargoInv'
        <3>1. d.round \in Rounds /\ t \in pool
            BY <2>4 DEF DraftItem, ArmsInv, PendingUnplaced
        <3>2. \A r \in Rounds, u \in Traces :
                arm'[r][u] = arm[r][u] \/ (u \in pool /\ arm'[r][u] # "none")
            BY <2>4, <3>1 DEF DraftItem, TypeOK
        <3>3. UNCHANGED <<pool, status, reading>>
            BY <2>4 DEF DraftItem
        <3> QED
            BY <3>2, <3>3, EmbargoKept
    <2> QED
        BY <1>1, <2>1, <2>2, <2>3, <2>4 DEF Creating
<1>2. CASE Voting
    BY <1>2, EmbargoKept DEF Voting, CastBegin, CastStore
<1>3. CASE Closing
    <2>1. ASSUME NEW r \in Rounds, CloseWrite(r) PROVE EmbargoInv'
        BY <2>1, EmbargoKept DEF CloseWrite, TypeOK
    <2> QED
        BY <1>3, <2>1, EmbargoKept DEF Closing, CloseBegin
<1>4. CASE Reading
    <2> USE DEF EmbargoInv, LiveStays, LiveListed, LiveEmbargoed
    <2>1. ASSUME NEW r \in Rounds, NEW kind \in {"report", "evalset"}, ReadRows(r, kind) PROVE EmbargoInv'
        <3> DEFINE new == [round |-> r, kind |-> kind, stage |-> "rows",
                           rows |-> IF kind = "report" THEN ReportRows(r) ELSE EvalCases(r),
                           open |-> {}, embargo |-> {}, live |-> OpenItems(r)]
        <3>1. \A item \in new.live : /\ item[1] # new.round /\ status[item[1]] = "open"
                                     /\ arm[item[1]][item[2]] # "none"
            BY DEF OpenItems, OpenElsewhere, Items
        <3>2. new.stage = "rows" /\ reading' = reading \cup {new} /\ UNCHANGED <<pool, status, arm>>
            BY <2>1 DEF ReadRows
        <3> HIDE DEF new
        <3> QED
            BY <3>1, <3>2
    <2>2. ASSUME NEW x \in reading, ReadOpenRounds(x) PROVE EmbargoInv'
        <3> DEFINE new == [x EXCEPT !.stage = "listed", !.open = OpenElsewhere(x.round)]
        <3>1. /\ new.stage = "listed" /\ new.live = x.live /\ new.round = x.round
              /\ new.open = {q \in Rounds \ {x.round} : status[q] = "open"}
            BY DEF TypeOK, Reads, OpenElsewhere
        <3>2. reading' = (reading \ {x}) \cup {new} /\ UNCHANGED <<pool, status, arm>>
            BY <2>2 DEF ReadOpenRounds
        <3>3. \A item \in x.live : item[1] \in Rounds
            BY DEF TypeOK, Reads
        <3> HIDE DEF new
        <3>4. LiveStays' /\ LiveEmbargoed'
            BY <3>1, <3>2
        <3>5. LiveListed'
            BY <3>1, <3>2, <3>3
        <3> QED
            BY <3>4, <3>5
    <2>3. ASSUME NEW x \in reading, ReadEmbargo(x) PROVE EmbargoInv'
        <3> DEFINE new == [x EXCEPT !.stage = "embargoed", !.open = {}, !.embargo = UNION {Items(q) : q \in x.open}]
        <3>1. /\ new.stage = "embargoed" /\ new.live = x.live /\ new.round = x.round
              /\ new.embargo = UNION {Items(q) : q \in x.open}
            BY DEF TypeOK, Reads
        <3>2. reading' = (reading \ {x}) \cup {new} /\ x.stage = "listed" /\ UNCHANGED <<pool, status, arm>>
            BY <2>3 DEF ReadEmbargo
        <3>3. \A item \in x.live : item[2] \in Traces
            BY DEF TypeOK, Reads
        \* What is live still was in an open poll the reader listed.
        <3>4. \A item \in x.live : status[item[1]] = "open" /\ arm[item[1]][item[2]] # "none"
                                     => item[2] \in new.embargo
            <4> SUFFICES ASSUME NEW item \in x.live, status[item[1]] = "open", arm[item[1]][item[2]] # "none"
                         PROVE  item[2] \in UNION {Items(q) : q \in x.open}
                BY <3>1
            <4>1. item[1] \in x.open
                BY <3>2
            <4>2. item[2] \in Items(item[1])
                BY <3>3 DEF Items
            <4> QED
                BY <4>1, <4>2
        <3> HIDE DEF new
        <3>5. LiveStays' /\ LiveListed'
            BY <3>1, <3>2
        <3>6. LiveEmbargoed'
            BY <3>1, <3>2, <3>4
        <3> QED
            BY <3>5, <3>6
    <2>4. ASSUME NEW x \in reading, ReadAnswer(x) PROVE EmbargoInv'
        BY <2>4 DEF ReadAnswer
    <2> QED
        BY <1>4, <2>1, <2>2, <2>3, <2>4 DEF Reading
<1>5. CASE Settling
    BY <1>5, EmbargoKept DEF Settling, Resolve, Unresolve
<1>6. ASSUME NEW t \in Traces, DeleteTrace(t) PROVE EmbargoInv'
    <2>1. \A r \in Rounds, u \in Traces :
            arm'[r][u] = IF u = t THEN "none" ELSE arm[r][u]
        BY <1>6 DEF DeleteTrace, TypeOK
    <2>2. pool' = pool \ {t} /\ UNCHANGED <<status, reading>>
        BY <1>6 DEF DeleteTrace
    <2> QED
        BY <2>1, <2>2, EmbargoKept
<1>7. CASE Crash
    BY <1>7, EmbargoKept DEF Crash
<1>8. CASE UNCHANGED pollVars
    BY <1>8, EmbargoKept DEF pollVars
<1> QED
    BY <1>1, <1>2, <1>3, <1>4, <1>5, <1>6, <1>7, <1>8 DEF Next

-----------------------------------------------------------------------------
(* The theorems.                                                           *)

LEMMA InitInvariant == Init => IInv
<1> SUFFICES ASSUME Init PROVE IInv
    OBVIOUS
<1>1. TypeOK
    BY InitType
<1>2. BlindInv
    BY DEF Init, BlindInv, BlindVotes, RevealedClosed, ReadersSawClosed
<1>3. QuorumInv
    BY DEF Init, QuorumInv, ClosedHasQuorum, VotesHaveVoters, CountedQuorum
<1>4. ArmsInv
    BY DEF Init, ArmsInv, ArmsApart, CreatorsApart, PendingUnplaced, AbsentEmpty, HeldoutNeverResolved
<1>5. EmbargoInv
    BY DEF Init, EmbargoInv, LiveStays, LiveListed, LiveEmbargoed
<1> QED
    BY <1>1, <1>2, <1>3, <1>4, <1>5 DEF IInv

(* The types are kept by every step.                                       *)
LEMMA TypeStep == TypeOK /\ [Next]_pollVars => TypeOK'
<1>1. TypeOK /\ UNCHANGED pollVars => TypeOK'
    BY DEF TypeOK, pollVars
<1> QED
    BY <1>1, CreatingType, VotingType, ClosingType, ReadingType, SettlingType, DeleteTraceType, CrashType DEF Next

(* The inductive invariant holds in every reachable state.                 *)
THEOREM Invariance == Spec => []IInv
<1>1. IInv /\ [Next]_pollVars => IInv'
    BY TypeStep, BlindStep, QuorumStep, ArmsStep, EmbargoStep DEF IInv
<1> QED
    BY <1>1, InitInvariant, PTL DEF Spec

(* Every variable of the poll keeps to its table or request type.          *)
THEOREM TypeCorrect == Spec => []TypeOK
<1>1. IInv => TypeOK
    BY DEF IInv
<1> QED
    BY <1>1, Invariance, PTL

(* No vote is decided by somebody who was sent the poll's finished votes,  *)
(* however the close, the readers and the voters interleave.               *)
THEOREM Blindness == Spec => []BlindVotes
<1>1. IInv => BlindVotes
    BY DEF IInv, BlindInv
<1> QED
    BY <1>1, Invariance, PTL

(* Two people voted in every poll that closed, although they are counted   *)
(* one statement before the close is written.                              *)
THEOREM Quorum == Spec => []ClosedHasQuorum
<1>1. IInv => ClosedHasQuorum
    BY DEF IInv, QuorumInv
<1> QED
    BY <1>1, Invariance, PTL

(* Resolutions stand on calibration items of closed polls only.            *)
THEOREM HeldBack == Spec => []HeldoutNeverResolved
<1>1. IInv => HeldoutNeverResolved
    BY DEF IInv, ArmsInv
<1> QED
    BY <1>1, Invariance, PTL

(* Who voted what on a case that another poll has had open since the rows  *)
(* were read is in no answer of the report or the eval set.                *)
THEOREM Embargo == Spec => []EmbargoWithholdsVotes
<1>1. IInv => EmbargoWithholdsVotes
    <2> SUFFICES ASSUME IInv, NEW x \in reading, x.stage = "embargoed", NEW t \in StillLive(x)
                 PROVE  t \in x.embargo
        BY DEF EmbargoWithholdsVotes, VotesTold
    <2>1. PICK q \in Rounds : <<q, t>> \in x.live /\ status[q] = "open" /\ arm[q][t] # "none"
        BY DEF StillLive, Items
    <2> QED
        BY <2>1 DEF IInv, EmbargoInv, LiveEmbargoed
<1> QED
    BY <1>1, Invariance, PTL

-----------------------------------------------------------------------------
(* The poll implements the abstract ballot.                                *)

Decision(b) == [grader |-> b.grader, round |-> b.round, trace |-> b.trace, verdict |-> b.verdict]
Decided == {Decision(b) : b \in voting}

(* Two votes on their way say the same only if they are the same: what     *)
(* BlindBallot forgets of them is FALSE of both.                           *)
LEMMA DecisionsDiffer ==
    ASSUME TypeOK, BlindVotes, NEW b \in voting
    PROVE  {Decision(c) : c \in voting \ {b}} = Decided \ {Decision(b)}
<1>1. \A c \in voting : c.informed = FALSE
    BY DEF TypeOK, Ballots, BlindVotes
<1>2. \A c \in voting : c = [grader |-> c.grader, round |-> c.round, trace |-> c.trace,
                             verdict |-> c.verdict, informed |-> FALSE]
    BY <1>1 DEF TypeOK, Ballots
<1>3. \A c \in voting : Decision(c) = Decision(b) =>
         /\ c.grader = b.grader /\ c.round = b.round /\ c.trace = b.trace /\ c.verdict = b.verdict
    BY DEF Decision
<1>4. \A c \in voting : Decision(c) = Decision(b) => c = b
    BY <1>2, <1>3
<1> QED
    BY <1>4 DEF Decided

(* The votes on their way are the decided ballots.                         *)
LEMMA DecidedMaps == Decided = {[grader |-> b.grader, round |-> b.round, trace |-> b.trace, verdict |-> b.verdict] : b \in voting}
BY DEF Decided, Decision

(* Every step of the poll is a step of the ballot, or none.                *)
LEMMA RefinementStep ==
    ASSUME IInv, [Next]_pollVars
    PROVE  [Ballot!Next]_(Ballot!ballotVars)
<1> DEFINE same == UNCHANGED <<status, grade, revealed, voting>>
<1>0. same => [Ballot!Next]_(Ballot!ballotVars)
    BY DEF Ballot!ballotVars
<1> HIDE DEF same
<1>1. CASE Creating
    <2>1. ASSUME NEW d \in drafting, DraftOpen(d) PROVE \E r \in Rounds : Ballot!Open(r)
        BY <2>1, DecidedMaps DEF DraftOpen, Ballot!Open
    <2> QED
        BY <1>0, <1>1, <2>1 DEF Creating, DraftBegin, DraftPlan, DraftItem, Ballot!Next, same
<1>2. CASE Voting
    <2>1. ASSUME NEW g \in Graders, NEW r \in Rounds, NEW t \in Traces, NEW v \in Votes, CastBegin(g, r, t, v)
          PROVE  \E b \in Ballot!Ballot : Ballot!Decide(b)
        <3>0. PICK new : new = [grader |-> g, round |-> r, trace |-> t, verdict |-> v, informed |-> r \in revealed]
            OBVIOUS
        <3>1. /\ voting' = voting \cup {new}
              /\ r \notin revealed /\ status[r] = "open" /\ UNCHANGED <<status, grade, revealed>>
            BY <2>1, <3>0 DEF CastBegin, IInv, BlindInv, RevealedClosed
        <3>2. Decided' = Decided \cup {Decision(new)}
            BY <3>1 DEF Decided
        <3>3. Decision(new) \in Ballot!Ballot /\ Decision(new).round = r
            BY <3>0 DEF Decision, Ballot!Ballot
        <3>4. Ballot!Decide(Decision(new))
            BY <3>1, <3>2, <3>3, DecidedMaps DEF Ballot!Decide, Decided, Decision
        <3> QED
            BY <3>3, <3>4
    <2>2. ASSUME NEW b \in voting, CastStore(b) PROVE \E c \in Ballot!Ballot : Ballot!Count(c)
        <3>1. Decided' = Decided \ {Decision(b)}
            BY <2>2, DecisionsDiffer DEF CastStore, Decided, IInv, BlindInv
        <3>2. Decision(b) \in Ballot!Ballot /\ Decision(b) \in Decided
            BY DEF Decision, Decided, Ballot!Ballot, IInv, TypeOK, Ballots
        <3>3. /\ Decision(b).round = b.round /\ Decision(b).trace = b.trace
              /\ Decision(b).grader = b.grader /\ Decision(b).verdict = b.verdict
            BY DEF Decision
        <3>4. Ballot!Count(Decision(b))
            BY <2>2, <3>1, <3>2, <3>3, DecidedMaps DEF CastStore, Ballot!Count, Decided, Decision
        <3> QED
            BY <3>2, <3>4
    <2> QED
        BY <1>2, <2>1, <2>2 DEF Voting, Ballot!Next
<1>3. CASE Closing
    <2>1. ASSUME NEW r \in Rounds, CloseWrite(r) PROVE Ballot!Close(r) \/ same
        BY <2>1, DecidedMaps DEF CloseWrite, Ballot!Close, same
    <2> QED
        BY <1>0, <1>3, <2>1 DEF Closing, CloseBegin, Ballot!Next, same
<1>4. CASE Reading
    <2>1. ASSUME NEW x \in reading, ReadAnswer(x) PROVE \E r \in Rounds : Ballot!Reveal(r)
        <3>1. x.round \in Rounds /\ status[x.round] = "closed"
            BY DEF IInv, TypeOK, Reads, BlindInv, ReadersSawClosed
        <3> QED
            BY <2>1, <3>1, DecidedMaps DEF ReadAnswer, Ballot!Reveal
    <2> QED
        BY <1>0, <1>4, <2>1 DEF Reading, ReadRows, ReadOpenRounds, ReadEmbargo, Ballot!Next, same
<1>5. CASE Settling
    BY <1>0, <1>5 DEF Settling, Resolve, Unresolve, same
<1>6. ASSUME NEW t \in Traces, DeleteTrace(t) PROVE Ballot!Strike(t)
    BY <1>6, DecidedMaps DEF DeleteTrace, Ballot!Strike
<1>7. CASE Crash
    <2>1. ASSUME NEW b \in voting, voting' = voting \ {b}, UNCHANGED <<status, grade, revealed>>
          PROVE  \E c \in Ballot!Ballot : Ballot!Lose(c)
        <3>1. Decided' = Decided \ {Decision(b)}
            BY <2>1, DecisionsDiffer DEF Decided, IInv, BlindInv
        <3>2. Decision(b) \in Ballot!Ballot /\ Decision(b) \in Decided
            BY DEF Decision, Decided, Ballot!Ballot, IInv, TypeOK, Ballots
        <3>3. Ballot!Lose(Decision(b))
            BY <2>1, <3>1, <3>2, DecidedMaps DEF Ballot!Lose, Decided, Decision
        <3> QED
            BY <3>2, <3>3
    <2> QED
        BY <1>0, <1>7, <2>1 DEF Crash, Ballot!Next, same
<1>8. CASE UNCHANGED pollVars
    BY <1>0, <1>8 DEF pollVars, same
<1> QED
    BY <1>1, <1>2, <1>3, <1>4, <1>5, <1>6, <1>7, <1>8 DEF Next, Ballot!Next

(* With requests, tables, samples and deaths in between, the poll keeps    *)
(* the promise of BlindBallot.                                             *)
THEOREM Refinement == Spec => KeepsBallotPromise
<1>1. Init => Ballot!Init
    BY DEF Init, Ballot!Init
<1>2. IInv /\ [Next]_pollVars => [Ballot!Next]_(Ballot!ballotVars)
    BY RefinementStep
<1> QED
    BY <1>1, <1>2, Invariance, PTL DEF Spec, KeepsBallotPromise, Ballot!Spec

-----------------------------------------------------------------------------
(* The judge of a closed poll.                                             *)

JudgeStages == {"idle", "read", "grading", "saving", "created", "error"}
Said == Answers \cup {NoVote}

JudgeRequests == [stage : JudgeStages, items : SUBSET Cases,
                  results : UNION {[part -> Said] : part \in SUBSET Cases}]

JudgeTypeOK ==
    /\ cases \in SUBSET Cases /\ run \in SUBSET Requests
    /\ verdict \in [Requests -> [Cases -> Said]]
    /\ req \in [Requests -> JudgeRequests]
    /\ \A q \in Requests : req[q].stage = "saving" => \A c \in req[q].items : req[q].results[c] \in Answers

(* What a request that was left alone has saved: nothing until it has      *)
(* every result, or if the model failed; then all but what it has still to *)
(* save, for which it has a result; and in the end a verdict for every     *)
(* case there is.                                                          *)
ArmOK(q) ==
    /\ req[q].stage \in {"idle", "read", "grading", "error"} => \A c \in cases : verdict[q][c] = NoVote
    /\ req[q].stage \in {"read", "grading"} => req[q].items = cases
    /\ req[q].stage = "saving" =>
         /\ req[q].items \subseteq cases
         /\ \A c \in cases \ req[q].items : verdict[q][c] # NoVote
    /\ req[q].stage = "created" => \A c \in cases : verdict[q][c] # NoVote

(* Votes are verdicts, or none.                                            *)
VotesOK == vote \in [Cases -> [People -> Said]]

JudgeInv == JudgeTypeOK /\ VotesOK /\ \A q \in Requests \ disturbed : ArmOK(q)

(* A sentinel is no answer (shared/types.ts:19).                           *)
LEMMA NoVoteIsNoAnswer == NoVote \notin Answers
BY ScaleIsRanked DEF Answers

(* Before any request nothing is saved.                                    *)
LEMMA InitJudge == JudgeInit => JudgeInv
<1> SUFFICES ASSUME JudgeInit PROVE JudgeInv
    OBVIOUS
<1>1. Nothing \in [Cases -> Said] /\ \A c \in Cases : Nothing[c] = NoVote
    BY DEF Nothing, Said
<1>2. Nothing \in UNION {[part -> Said] : part \in SUBSET Cases}
    BY <1>1
<1>3. JudgeTypeOK
    BY <1>1, <1>2 DEF JudgeInit, JudgeTypeOK, JudgeStages, JudgeRequests
<1>v. VotesOK
    BY DEF JudgeInit, VotesOK, Said
<1>4. ASSUME NEW q \in Requests PROVE ArmOK(q)
    <2>1. req[q].stage = "idle" /\ \A c \in cases : verdict[q][c] = NoVote
        BY <1>1 DEF JudgeInit
    <2> QED
        BY <2>1 DEF ArmOK
<1> QED
    BY <1>3, <1>4, <1>v DEF JudgeInv

(* A step of one request leaves the others as they are.                    *)
LEMMA OnlyOneGoes ==
    ASSUME JudgeTypeOK, NEW q \in Requests, NEW next, Goes(q, next), cases' = cases,
           \A p \in Requests \ {q} : verdict'[p] = verdict[p],
           NEW p \in Requests \ {q}, ArmOK(p)
    PROVE  ArmOK(p)'
<1>1. req'[p] = req[p] /\ verdict'[p] = verdict[p]
    BY DEF Goes, JudgeTypeOK
<1> QED
    BY <1>1 DEF ArmOK

(* Every step of a judge run keeps the invariant: verdicts are saved only  *)
(* once there is one for each case (server/app.ts:3679).                   *)
LEMMA JudgingKeeps ==
    ASSUME JudgeInv, NEW q \in Requests, Judging(q) \/ Die(q)
    PROVE  JudgeInv'
<1> USE DEF JudgeStages, JudgeRequests
<1>0. JudgeTypeOK /\ (q \notin disturbed => ArmOK(q)) /\ req[q] \in JudgeRequests
    BY DEF JudgeInv, JudgeTypeOK
<1>r. run \in SUBSET Requests
    BY DEF JudgeInv, JudgeTypeOK
<1>v. VotesOK'
    <2>1. vote' = vote
        BY DEF Judging, Begin, StoreRun, GradeArm, GradingFails, Answer, Save, Die
    <2> QED
        BY <2>1 DEF JudgeInv, VotesOK
<1>1. ASSUME NEW next \in JudgeRequests, next.stage = "saving" => \A c \in next.items : next.results[c] \in Answers,
             Goes(q, next), cases' = cases, run' \in SUBSET Requests, disturbed \subseteq disturbed',
             verdict' \in [Requests -> [Cases -> Said]],
             \A p \in Requests \ {q} : verdict'[p] = verdict[p],
             q \notin disturbed' => ArmOK(q)'
      PROVE  JudgeInv'
    <2>1. JudgeTypeOK'
        BY <1>0, <1>1 DEF JudgeTypeOK, Goes
    <2>2. \A p \in Requests \ disturbed' : ArmOK(p)'
        BY <1>0, <1>1, OnlyOneGoes DEF JudgeInv
    <2> QED
        BY <1>v, <2>1, <2>2 DEF JudgeInv
<1>2. ASSUME NEW next, Goes(q, next) PROVE req'[q] = next
    BY <1>0, <1>2 DEF Goes, JudgeTypeOK
<1>3. ASSUME verdict' = verdict
      PROVE  /\ verdict' \in [Requests -> [Cases -> Said]]
             /\ \A p \in Requests : verdict'[p] = verdict[p]
    BY <1>0, <1>3 DEF JudgeTypeOK
<1>4. CASE Begin(q)
    <2> DEFINE next == [req[q] EXCEPT !.stage = "read", !.items = cases]
    <2>1. Goes(q, next) /\ cases' = cases /\ run' \in SUBSET Requests /\ verdict' = verdict /\ disturbed' = disturbed /\ req[q].stage = "idle"
        BY <1>r, <1>4 DEF Begin
    <2>2. next \in JudgeRequests
          /\ next.stage = "read" /\ next.items = cases
        BY <1>0 DEF JudgeTypeOK
    <2> HIDE DEF next
    <2>3. req'[q] = next
        BY <1>2, <2>1
    <2>4. q \notin disturbed' => ArmOK(q)'
        BY <1>0, <2>1, <2>2, <2>3 DEF ArmOK
    <2> QED
        BY <1>1, <1>3, <2>1, <2>2, <2>4
<1>5. CASE StoreRun(q)
    <2> DEFINE next == [req[q] EXCEPT !.stage = "grading"]
    <2>1. Goes(q, next) /\ cases' = cases /\ run' \in SUBSET Requests /\ verdict' = verdict /\ disturbed' = disturbed /\ req[q].stage = "read"
        BY <1>r, <1>5 DEF StoreRun
    <2>2. next \in JudgeRequests
          /\ next.stage = "grading" /\ next.items = req[q].items
        BY <1>0 DEF JudgeTypeOK
    <2> HIDE DEF next
    <2>3. req'[q] = next
        BY <1>2, <2>1
    <2>4. q \notin disturbed' => ArmOK(q)'
        BY <1>0, <2>1, <2>2, <2>3 DEF ArmOK
    <2> QED
        BY <1>1, <1>3, <2>1, <2>2, <2>4
<1>6. CASE GradeArm(q)
    <2>0. PICK results \in [req[q].items -> Answers] :
            Goes(q, [req[q] EXCEPT !.stage = "saving", !.results = results])
        BY <1>r, <1>6 DEF GradeArm
    <2> DEFINE next == [req[q] EXCEPT !.stage = "saving", !.results = results]
    <2>1. Goes(q, next) /\ cases' = cases /\ run' \in SUBSET Requests /\ verdict' = verdict /\ disturbed' = disturbed /\ req[q].stage = "grading"
        BY <1>r, <1>6, <2>0 DEF GradeArm
    <2>a. req[q].items \in SUBSET Cases /\ results \in [req[q].items -> Said]
        BY <1>0 DEF Said
    <2>b. results \in UNION {[part -> Said] : part \in SUBSET Cases}
        BY <2>a
    <2>2. next \in JudgeRequests
          /\ next.stage = "saving" /\ next.items = req[q].items /\ next.results = results
        BY <1>0, <2>b DEF JudgeTypeOK
    <2> HIDE DEF next
    <2>3. req'[q] = next
        BY <1>2, <2>1
    <2>4. q \notin disturbed' => ArmOK(q)'
        BY <1>0, <2>1, <2>2, <2>3 DEF ArmOK
    <2> QED
        BY <1>1, <1>3, <2>1, <2>2, <2>4
<1>7. CASE GradingFails(q)
    <2> DEFINE next == [req[q] EXCEPT !.stage = "error"]
    <2>1. Goes(q, next) /\ cases' = cases /\ run' \in SUBSET Requests /\ verdict' = verdict /\ disturbed' = disturbed /\ req[q].stage = "grading"
        BY <1>r, <1>7 DEF GradingFails
    <2>2. next \in JudgeRequests
          /\ next.stage = "error"
        BY <1>0 DEF JudgeTypeOK
    <2> HIDE DEF next
    <2>3. req'[q] = next
        BY <1>2, <2>1
    <2>4. q \notin disturbed' => ArmOK(q)'
        BY <1>0, <2>1, <2>2, <2>3 DEF ArmOK
    <2> QED
        BY <1>1, <1>3, <2>1, <2>2, <2>4
<1>8. CASE Answer(q)
    <2> DEFINE next == [req[q] EXCEPT !.stage = "created"]
    <2>1. /\ Goes(q, next) /\ cases' = cases /\ run' \in SUBSET Requests /\ verdict' = verdict /\ disturbed' = disturbed
          /\ req[q].stage = "saving" /\ req[q].items = {}
        BY <1>r, <1>8 DEF Answer
    <2>2. next \in JudgeRequests
          /\ next.stage = "created"
        BY <1>0 DEF JudgeTypeOK
    <2> HIDE DEF next
    <2>3. req'[q] = next
        BY <1>2, <2>1
    <2>4. q \notin disturbed' => ArmOK(q)'
        BY <1>0, <2>1, <2>2, <2>3 DEF ArmOK
    <2> QED
        BY <1>1, <1>3, <2>1, <2>2, <2>4
<1>9. ASSUME NEW c \in Cases, Save(q, c) PROVE JudgeInv'
    <2>0. /\ req[q].stage = "saving" /\ c \in req[q].items /\ cases' = cases /\ run' \in SUBSET Requests /\ disturbed' = disturbed
        BY <1>r, <1>9 DEF Save
    <2>1. CASE c \in cases
        <3> DEFINE next == [req[q] EXCEPT !.items = @ \ {c}]
        <3>1. Goes(q, next) /\ verdict' = [verdict EXCEPT ![q][c] = req[q].results[c]]
            BY <1>r, <1>9, <2>1 DEF Save
        <3>2. next \in JudgeRequests
              /\ next.stage = "saving" /\ next.items = req[q].items \ {c} /\ next.results = req[q].results
            BY <1>0, <2>0
        <3>a. \A d \in req[q].items : req[q].results[d] \in Answers
            BY <1>0, <2>0 DEF JudgeTypeOK
        <3> HIDE DEF next
        <3>3. req'[q] = next
            BY <1>2, <3>1
        <3>4. /\ \A p \in Requests \ {q} : verdict'[p] = verdict[p]
              /\ verdict'[q] = [verdict[q] EXCEPT ![c] = req[q].results[c]]
            BY <1>0, <3>1 DEF JudgeTypeOK
        <3>5. \A d \in Cases : verdict'[q][d] = IF d = c THEN req[q].results[c] ELSE verdict[q][d]
            BY <1>0, <3>4 DEF JudgeTypeOK
        <3>6. verdict' \in [Requests -> [Cases -> Said]]
            BY <1>0, <2>0, <3>a, <3>1 DEF JudgeTypeOK, Said
        <3>7. ASSUME q \notin disturbed' PROVE ArmOK(q)'
            <4>1. /\ req[q].items \subseteq cases
                  /\ \A d \in cases \ req[q].items : verdict[q][d] # NoVote
                BY <1>0, <2>0, <3>7 DEF ArmOK
            <4>2. \A d \in cases \ req'[q].items : verdict'[q][d] # NoVote
                BY <1>0, <2>0, <3>a, <3>2, <3>3, <3>5, <4>1, NoVoteIsNoAnswer DEF JudgeTypeOK
            <4> QED
                BY <2>0, <3>2, <3>3, <4>1, <4>2 DEF ArmOK
        <3> QED
            BY <1>1, <2>0, <3>a, <3>1, <3>2, <3>4, <3>6, <3>7
    <2>2. CASE c \notin cases
        <3> DEFINE next == [req[q] EXCEPT !.stage = "error"]
        <3>1. Goes(q, next) /\ verdict' = verdict
            BY <1>r, <1>9, <2>2 DEF Save
        <3>2. next \in JudgeRequests
              /\ next.stage = "error"
            BY <1>0 DEF JudgeTypeOK
        <3> HIDE DEF next
        <3>3. q \in disturbed
            BY <1>0, <2>0, <2>2 DEF ArmOK
        <3> QED
            BY <1>1, <1>3, <2>0, <3>1, <3>2, <3>3
    <2> QED
        BY <2>1, <2>2
<1>10. CASE Die(q)
    <2> DEFINE next == [req[q] EXCEPT !.stage = "error"]
    <2>1. Goes(q, next) /\ cases' = cases /\ run' \in SUBSET Requests /\ verdict' = verdict /\ disturbed' = disturbed \cup {q}
        BY <1>r, <1>10 DEF Die
    <2>2. next \in JudgeRequests
          /\ next.stage = "error"
        BY <1>0 DEF JudgeTypeOK
    <2> HIDE DEF next
    <2> QED
        BY <1>1, <1>3, <2>1, <2>2
<1> QED
    BY <1>4, <1>5, <1>6, <1>7, <1>8, <1>9, <1>10 DEF Judging

(* A case that is deleted disturbs whoever works, and takes its verdicts   *)
(* out of every run.                                                       *)
LEMMA DeleteCaseKeeps ==
    ASSUME JudgeInv, NEW c \in Cases, DeleteCase(c)
    PROVE  JudgeInv'
<1>1. /\ cases' = cases \ {c} /\ req' = req /\ run' = run
      /\ verdict' = [q \in Requests |-> [verdict[q] EXCEPT ![c] = NoVote]]
      /\ disturbed' = disturbed \cup {q \in Requests : ~Over(q)}
    BY DEF DeleteCase
<1>2. \A q \in Requests, d \in Cases : verdict'[q][d] = IF d = c THEN NoVote ELSE verdict[q][d]
    BY <1>1 DEF JudgeInv, JudgeTypeOK
<1>3. JudgeTypeOK'
    BY <1>1 DEF JudgeInv, JudgeTypeOK, Said
<1>4. ASSUME NEW q \in Requests \ disturbed' PROVE ArmOK(q)'
    <2>1. ArmOK(q) /\ req[q].stage \in {"idle", "created", "error"}
        BY <1>1, <1>4 DEF JudgeInv, Over
    <2>2. \A d \in cases' : d \in cases /\ verdict'[q][d] = verdict[q][d]
        BY <1>1, <1>2, <1>4 DEF JudgeInv, JudgeTypeOK
    <2> QED
        BY <1>1, <2>1, <2>2 DEF ArmOK
<1>v. VotesOK'
    <2>1. vote' = [vote EXCEPT ![c] = [p \in People |-> NoVote]]
        BY DEF DeleteCase
    <2> QED
        BY <2>1 DEF JudgeInv, VotesOK, Said
<1> QED
    BY <1>3, <1>4, <1>v DEF JudgeInv

(* What a judge run has saved is always what its request had results for.  *)
THEOREM JudgeInvariance == JudgeSpec => []JudgeInv
<1>1. JudgeInv /\ UNCHANGED judgeVars => JudgeInv'
    BY DEF judgeVars, JudgeInv, JudgeTypeOK, VotesOK, ArmOK
<1>2. JudgeInv /\ [JudgeNext]_judgeVars => JudgeInv'
    BY <1>1, JudgingKeeps, DeleteCaseKeeps DEF JudgeNext
<1> QED
    BY <1>2, InitJudge, PTL DEF JudgeSpec

(* server/app.ts:3679: a run whose request is over and was left alone has  *)
(* a verdict for every case still there, or none at all, so that no part   *)
(* of an arm is ever scored as though it were the whole.                   *)
THEOREM WholeArm == JudgeSpec => []WholeArmOrNothing
<1>1. ASSUME JudgeInv PROVE WholeArmOrNothing
    <2>1. SUFFICES ASSUME NEW q \in run \ disturbed
                   PROVE  /\ req[q].stage = "created" => Judged(q) = cases
                          /\ req[q].stage = "error" => Judged(q) = {}
        BY DEF WholeArmOrNothing
    <2>2. ArmOK(q)
        BY <1>1, <2>1 DEF JudgeInv, JudgeTypeOK
    <2> QED
        BY <2>2 DEF ArmOK, Judged
<1> QED
    BY <1>1, JudgeInvariance, PTL

-----------------------------------------------------------------------------
(* The agreement statistics.  A table of what the raters said of finitely  *)
(* many cases.                                                             *)
Table(said) == IsFiniteSet(DOMAIN said) /\ said \in [DOMAIN said -> Says]

(* There are finitely many raters and verdicts.                            *)
LEMMA RatersAndScale ==
    /\ IsFiniteSet(Raters) /\ Cardinality(Raters) \in Nat \ {0}
    /\ IsFiniteSet(Scale) /\ Cardinality(Scale) \in Nat /\ Cardinality(Scale) >= 2
    /\ Scale \subseteq Int
<1>1. IsFiniteSet(Raters) /\ Raters # {}
    BY JudgeConstants, FS_AddElement
<1>2. Cardinality(Raters) \in Nat \ {0}
    BY <1>1, FS_CardinalityType, FS_EmptySet
<1>3. Cardinality(Scale) \in Nat
    BY ScaleIsRanked, FS_CardinalityType
<1> QED
    BY <1>1, <1>2, <1>3, ScaleIsRanked

(* shared/metrics.ts:85: whatever the number of verdicts in a case, the    *)
(* common denominator is a multiple of the number of others.               *)
LEMMA CommonShares ==
    /\ Common \in Nat \ {0}
    /\ \A m \in 2..Cardinality(Raters) :
         Common = (m - 1) * (Common \div (m - 1)) /\ Common \div (m - 1) \in Nat \ {0}
<1> DEFINE others == 1..(Cardinality(Raters) - 1)
<1>0. Cardinality(Raters) \in Nat /\ Cardinality(Raters) - 1 \in Int
    BY RatersAndScale
<1>1. IsFiniteSet(others) /\ others \subseteq Nat \ {0}
    <2>1. IsFiniteSet(1..(Cardinality(Raters) - 1))
        BY <1>0, FS_Interval
    <2> QED
        BY <1>0, <2>1
<1>2. \A m \in 2..Cardinality(Raters) : m - 1 \in others
    BY <1>0
<1> HIDE DEF others
<1>3. ProductSet(others) \in Nat \ {0} /\ \A x \in others : \E k \in Nat \ {0} : ProductSet(others) = x * k
    BY <1>1, ProductDivides
<1>4. Common = ProductSet(others)
    BY DEF Common, others
<1>5. ASSUME NEW m \in 2..Cardinality(Raters)
      PROVE  Common = (m - 1) * (Common \div (m - 1)) /\ Common \div (m - 1) \in Nat \ {0}
    <2> DEFINE x == m - 1
    <2>1. x \in Nat \ {0} /\ x \in others
        BY <1>0, <1>2
    <2> HIDE DEF x
    <2>2. PICK k \in Nat \ {0} : Common = x * k
        BY <1>3, <1>4, <2>1
    <2>3. (x * k) \div x = k
        BY <2>1, DividesOut
    <2> QED
        BY <2>2, <2>3 DEF x
<1> QED
    BY <1>3, <1>4, <1>5

(* shared/metrics.ts:46: and another is one of the number of its pairs.    *)
LEMMA PairShares ==
    /\ PairCommon \in Nat \ {0}
    /\ \A m \in 2..Cardinality(Raters) :
         /\ PairCommon = (m * (m - 1)) * (PairCommon \div (m * (m - 1)))
         /\ PairCommon \div (m * (m - 1)) \in Nat \ {0}
<1> DEFINE sizes == 2..Cardinality(Raters)
           pairs == {m * (m - 1) : m \in sizes}
           count == [m \in sizes |-> m * (m - 1)]
<1>0. Cardinality(Raters) \in Nat
    BY RatersAndScale
<1>1. \A m \in sizes : m \in Nat \ {0} /\ m - 1 \in Nat \ {0} /\ m * (m - 1) \in Nat \ {0}
    <2>1. \A m \in sizes : m \in Nat \ {0} /\ m - 1 \in Nat \ {0}
        BY <1>0
    <2> QED
        BY <2>1, PositiveTimes
<1>2. IsFiniteSet(pairs) /\ pairs \subseteq Nat \ {0}
    <2>1. count \in Surjection(sizes, pairs)
        BY DEF Surjection
    <2>2. IsFiniteSet(sizes)
        BY <1>0, FS_Interval
    <2> HIDE DEF count, sizes
    <2> QED
        BY <1>1, <2>1, <2>2, FS_Surjection
<1>3. \A m \in sizes : m * (m - 1) \in pairs
    OBVIOUS
<1>4. PairCommon = ProductSet(pairs)
    BY DEF PairCommon
<1> HIDE DEF pairs
<1>5. ProductSet(pairs) \in Nat \ {0} /\ \A x \in pairs : \E k \in Nat \ {0} : ProductSet(pairs) = x * k
    BY <1>2, ProductDivides
<1>6. ASSUME NEW m \in sizes
      PROVE  /\ PairCommon = (m * (m - 1)) * (PairCommon \div (m * (m - 1)))
             /\ PairCommon \div (m * (m - 1)) \in Nat \ {0}
    <2> DEFINE x == m * (m - 1)
    <2>1. x \in Nat \ {0} /\ x \in pairs
        BY <1>1, <1>3
    <2> HIDE DEF x
    <2>2. PICK k \in Nat \ {0} : PairCommon = x * k
        BY <1>4, <1>5, <2>1
    <2>3. (x * k) \div x = k
        BY <2>1, DividesOut
    <2> QED
        BY <2>2, <2>3 DEF x
<1> QED
    BY <1>4, <1>5, <1>6

(* shared/metrics.ts:339: a third is one of the number of verdicts.        *)
LEMMA CommonShareOfAll ==
    /\ ShareCommon \in Nat \ {0}
    /\ \A m \in 1..Cardinality(Raters) :
         ShareCommon = m * (ShareCommon \div m) /\ ShareCommon \div m \in Nat \ {0}
<1> DEFINE sizes == 1..Cardinality(Raters)
           all == ProductSet(sizes)
           multiples == {n \in 1..all : \A m \in sizes : n % m = 0}
<1>n. Cardinality(Raters) \in Nat
    BY RatersAndScale
<1>0. IsFiniteSet(sizes) /\ sizes \subseteq Nat \ {0}
    <2>1. IsFiniteSet(1..Cardinality(Raters))
        BY <1>n, FS_Interval
    <2> QED
        BY <1>n, <2>1
<1>1. all \in Nat \ {0} /\ \A x \in sizes : \E k \in Nat \ {0} : all = x * k
    <2> HIDE DEF sizes
    <2> QED
        BY <1>0, ProductDivides
<1> HIDE DEF all
<1>2. all \in multiples
    <2>1. ASSUME NEW m \in sizes PROVE all % m = 0
        <3>1. PICK k \in Nat \ {0} : all = m * k
            BY <1>1
        <3>2. m \in Nat \ {0}
            BY <1>0
        <3> QED
            BY <3>1, <3>2, DividesOut
    <2> QED
        BY <1>1, <2>1
<1>3. IsFiniteSet(multiples) /\ multiples \subseteq Nat \ {0}
    <2>1. IsFiniteSet(1..all) /\ multiples \in SUBSET (1..all) /\ 1..all \subseteq Nat \ {0}
        BY <1>1, FS_Interval
    <2> QED
        BY <2>1, FS_Subset
<1>4. ShareCommon = Min(multiples)
    BY DEF ShareCommon, all
<1>5. ShareCommon \in multiples
    <2>1. multiples # {} /\ multiples \subseteq Int
        BY <1>2, <1>3
    <2> HIDE DEF multiples
    <2> QED
        BY <1>3, <1>4, <2>1, MinIsIn
<1>6. ShareCommon \in Nat \ {0} /\ \A m \in sizes : ShareCommon % m = 0 /\ m \in Nat \ {0}
    BY <1>0, <1>3, <1>5
<1> QED
    BY <1>6, DividesEvenly

(* The raters who said k of a case, and the pairs whose verdicts count.    *)
Saying(by, k) == {g \in Raters : by[g] = k}
Within(by) == {p \in Counting(by) \X Counting(by) : p[1] # p[2]}

(* What a rater says counts once, for one verdict.                         *)
LEMMA CountingByVerdict ==
    ASSUME NEW by \in Says
    PROVE  /\ IsFiniteSet(Counting(by)) /\ Cardinality(Counting(by)) \in 0..Cardinality(Raters)
           /\ \A k \in Scale : IsFiniteSet(Saying(by, k)) /\ Cardinality(Saying(by, k)) \in Nat
           /\ Cardinality(Counting(by)) = Sum([k \in Scale |-> Cardinality(Saying(by, k))], Scale)
<1> DEFINE N == Counting(by)
           key == [g \in N |-> by[g]]
           groups == [k \in Scale |-> Cardinality(Fiber(key, N, k))]
           sizes == [k \in Scale |-> Cardinality(Saying(by, k))]
<1>0. IsFiniteSet(Raters) /\ Cardinality(Raters) \in Nat /\ IsFiniteSet(Scale)
    BY RatersAndScale
<1>1. N \in SUBSET Raters /\ \A k \in Scale : Saying(by, k) \in SUBSET Raters
    BY DEF Counting, Saying
<1>2. IsFiniteSet(N) /\ \A k \in Scale : IsFiniteSet(Saying(by, k))
    BY <1>0, <1>1, FS_Subset
<1>3. Cardinality(N) \in Nat /\ Cardinality(N) <= Cardinality(Raters)
    BY <1>0, <1>1, <1>2, FS_Subset, FS_CardinalityType
<1>4. \A k \in Scale : Cardinality(Saying(by, k)) \in Nat
    BY <1>2, FS_CardinalityType
<1>5. \A g \in N : key[g] \in Scale
    BY DEF Counting
<1>6. \A k \in Scale : Fiber(key, N, k) = Saying(by, k)
    BY DEF Fiber, Saying, Counting
<1>7. groups = sizes
    <2>1. \A k \in Scale : groups[k] = sizes[k]
        BY <1>6
    <2> QED
        BY <2>1
<1> HIDE DEF N, key
<1>8. Cardinality(N) = Sum(groups, Scale)
    BY <1>0, <1>2, <1>5, CountByKey
<1>9. Cardinality(N) = Sum(sizes, Scale)
    BY <1>7, <1>8
<1> QED
    BY <1>0, <1>2, <1>3, <1>4, <1>9 DEF N

(* A unit is a case with two verdicts or more.                             *)
LEMMA UnitsAre ==
    ASSUME NEW said, Table(said)
    PROVE  /\ IsFiniteSet(UnitsFrom(said)) /\ Cardinality(UnitsFrom(said)) \in Nat
           /\ UnitsFrom(said) \subseteq DOMAIN said
           /\ \A c \in DOMAIN said : said[c] \in Says
           /\ \A c \in UnitsFrom(said) :
                /\ said[c] \in Says
                /\ Cardinality(Counting(said[c])) \in 2..Cardinality(Raters)
<1>0. Cardinality(Raters) \in Nat
    BY RatersAndScale
<1>1. \A c \in DOMAIN said : said[c] \in Says
    BY DEF Table
<1>2. UnitsFrom(said) \in SUBSET DOMAIN said /\ IsFiniteSet(DOMAIN said)
    BY DEF UnitsFrom, Table
<1>3. IsFiniteSet(UnitsFrom(said)) /\ Cardinality(UnitsFrom(said)) \in Nat
    BY <1>2, FS_Subset, FS_CardinalityType
<1>4. ASSUME NEW c \in UnitsFrom(said)
      PROVE  said[c] \in Says /\ Cardinality(Counting(said[c])) \in 2..Cardinality(Raters)
    <2>1. said[c] \in Says /\ Cardinality(Counting(said[c])) >= 2
        BY <1>1 DEF UnitsFrom
    <2>2. Cardinality(Counting(said[c])) \in 0..Cardinality(Raters)
        BY <2>1, CountingByVerdict
    <2> QED
        BY <1>0, <2>1, <2>2
<1> QED
    BY <1>1, <1>2, <1>3, <1>4

(* Of a case with n verdicts, t of them u, there are t (n - 1) pairs with  *)
(* u first (shared/metrics.ts:90).                                         *)
LEMMA PairsWithFirst ==
    ASSUME NEW by \in Says, NEW u \in Scale
    PROVE  /\ \A v \in Scale : IsFiniteSet(PairsSaying(by, u, v)) /\ Cardinality(PairsSaying(by, u, v)) \in Nat
           /\ Sum([v \in Scale |-> Cardinality(PairsSaying(by, u, v))], Scale)
                = Cardinality(Saying(by, u)) * (Cardinality(Counting(by)) - 1)
<1> DEFINE N == Counting(by)
           P == {p \in N \X N : p[1] # p[2] /\ by[p[1]] = u}
           second == [p \in P |-> by[p[2]]]
           first == [p \in P |-> p[1]]
           G == Saying(by, u)
           k == Cardinality(N) - 1
           bySecond == [v \in Scale |-> Cardinality(Fiber(second, P, v))]
           byFirst == [g \in G |-> Cardinality(Fiber(first, P, g))]
           sizes == [v \in Scale |-> Cardinality(PairsSaying(by, u, v))]
<1>0. IsFiniteSet(N) /\ Cardinality(N) \in Nat /\ k \in Int /\ IsFiniteSet(Scale)
      /\ IsFiniteSet(G) /\ Cardinality(G) \in Nat
    <2>1. IsFiniteSet(N) /\ Cardinality(N) \in 0..Cardinality(Raters) /\ IsFiniteSet(G) /\ Cardinality(G) \in Nat
        BY CountingByVerdict
    <2>2. Cardinality(Raters) \in Nat /\ IsFiniteSet(Scale)
        BY RatersAndScale
    <2>3. Cardinality(N) \in Nat
        BY <2>1, <2>2
    <2> QED
        BY <2>1, <2>2, <2>3
<1>1. IsFiniteSet(P)
    BY <1>0, FS_Product, FS_Subset
<1>2. ASSUME NEW v \in Scale
      PROVE  /\ Fiber(second, P, v) = PairsSaying(by, u, v)
             /\ IsFiniteSet(PairsSaying(by, u, v)) /\ Cardinality(PairsSaying(by, u, v)) \in Nat
    <2>1. Fiber(second, P, v) = PairsSaying(by, u, v) /\ PairsSaying(by, u, v) \in SUBSET P
        BY DEF Fiber, PairsSaying
    <2> HIDE DEF P
    <2>2. IsFiniteSet(PairsSaying(by, u, v))
        BY <1>1, <2>1, FS_Subset
    <2> QED
        BY <2>1, <2>2, FS_CardinalityType
<1>3. ASSUME NEW g \in G PROVE byFirst[g] = k
    <2>1. g \in N /\ Fiber(first, P, g) = {g} \X (N \ {g})
        BY DEF Fiber, Saying, Counting
    <2>2. IsFiniteSet({g}) /\ Cardinality({g}) = 1 /\ IsFiniteSet(N \ {g}) /\ Cardinality(N \ {g}) = k
        <3> HIDE DEF N
        <3> QED
            BY <1>0, <2>1, FS_Singleton, FS_RemoveElement
    <2>3. Cardinality({g} \X (N \ {g})) = 1 * k
        <3> HIDE DEF N, k
        <3> QED
            BY <2>2, FS_Product
    <2>4. 1 * k = k
        <3> HIDE DEF k
        <3> QED
            BY <1>0
    <2> QED
        BY <2>1, <2>3, <2>4
<1>4. \A p \in P : second[p] \in Scale /\ first[p] \in G
    BY DEF Counting, Saying
<1>5. sizes = bySecond
    <2>1. \A v \in Scale : bySecond[v] = sizes[v]
        BY <1>2
    <2> QED
        BY <2>1
<1> HIDE DEF N, P, first, second, G, k
<1>6. Cardinality(P) = Sum(bySecond, Scale)
    BY <1>0, <1>1, <1>4, CountByKey
<1>7. Cardinality(P) = Sum(byFirst, G)
    BY <1>0, <1>1, <1>4, CountByKey
<1> HIDE DEF bySecond, byFirst
<1>8. Sum(byFirst, G) = k * Cardinality(G)
    BY <1>0, <1>3, SumOfOne
<1>9. k * Cardinality(G) = Cardinality(G) * k
    BY <1>0
<1>10. Sum(sizes, Scale) = Cardinality(G) * k
    BY <1>5, <1>6, <1>7, <1>8, <1>9
<1> QED
    BY <1>2, <1>10 DEF G, N, k

(* As many pairs agree on k as there are pairs of those who said it.       *)
LEMMA PairsAlike ==
    ASSUME NEW by \in Says, NEW k \in Scale
    PROVE  Cardinality(PairsSaying(by, k, k)) = Cardinality(Saying(by, k)) * (Cardinality(Saying(by, k)) - 1)
<1> DEFINE G == Saying(by, k)
<1>1. PairsSaying(by, k, k) = {p \in G \X G : p[1] # p[2]}
    BY DEF PairsSaying, Saying, Counting
<1>2. IsFiniteSet(G)
    BY CountingByVerdict
<1> HIDE DEF G
<1> QED
    BY <1>1, <1>2, PairsOfDistinct DEF G

(* shared/metrics.ts:38, 297: the pairs of a case that agree, counted by   *)
(* verdict; and no more than all of them.                                  *)
LEMMA AlikeIsByVerdict ==
    ASSUME NEW by \in Says
    PROVE  /\ IsFiniteSet(Within(by)) /\ Alike(by) \subseteq Within(by) /\ IsFiniteSet(Alike(by))
           /\ Cardinality(Within(by)) = Cardinality(Counting(by)) * (Cardinality(Counting(by)) - 1)
           /\ Cardinality(Alike(by)) = Sum([k \in Scale |-> Cardinality(Saying(by, k)) * (Cardinality(Saying(by, k)) - 1)], Scale)
<1> DEFINE N == Counting(by)
           A == Alike(by)
           key == [p \in A |-> by[p[1]]]
           groups == [k \in Scale |-> Cardinality(Fiber(key, A, k))]
           sizes == [k \in Scale |-> Cardinality(Saying(by, k)) * (Cardinality(Saying(by, k)) - 1)]
<1>0. IsFiniteSet(N) /\ IsFiniteSet(Scale)
    BY RatersAndScale, CountingByVerdict
<1>1. Cardinality(Within(by)) = Cardinality(N) * (Cardinality(N) - 1)
    <2> HIDE DEF N
    <2>1. Within(by) = {p \in N \X N : p[1] # p[2]}
        BY DEF Within, N
    <2> QED
        BY <1>0, <2>1, PairsOfDistinct
<1>2. IsFiniteSet(N \X N) /\ Within(by) \in SUBSET (N \X N) /\ A \in SUBSET Within(by)
    <2>1. Within(by) \in SUBSET (N \X N) /\ A \in SUBSET Within(by)
        BY DEF Within, Alike
    <2> HIDE DEF N, A
    <2> QED
        BY <1>0, <2>1, FS_Product
<1>3. IsFiniteSet(Within(by)) /\ IsFiniteSet(A)
    <2> HIDE DEF N, A
    <2>1. IsFiniteSet(Within(by))
        BY <1>2, FS_Subset
    <2> QED
        BY <1>2, <2>1, FS_Subset
<1>4. \A p \in A : key[p] \in Scale
    BY DEF Alike, Counting
<1>5. \A k \in Scale : Fiber(key, A, k) = PairsSaying(by, k, k)
    BY DEF Fiber, Alike, PairsSaying
<1>6. groups = sizes
    <2>1. \A k \in Scale : groups[k] = sizes[k]
        <3> HIDE DEF key, A
        <3> QED
            BY <1>5, PairsAlike
    <2> QED
        BY <2>1
<1> HIDE DEF A, key
<1>7. Cardinality(A) = Sum(groups, Scale)
    BY <1>0, <1>3, <1>4, CountByKey
<1>8. Cardinality(A) = Sum(sizes, Scale)
    BY <1>6, <1>7
<1> QED
    BY <1>1, <1>2, <1>3, <1>8 DEF A, N

(* The values are counted case by case: as often as raters said u.         *)
LEMMA TimesAre ==
    ASSUME NEW said, Table(said)
    PROVE  /\ IsFiniteSet(Values(said))
           /\ \A u \in Scale :
                /\ \A c \in UnitsFrom(said) : Tally(said, c, u) \in Nat
                /\ Times(said)[u] = Sum([c \in UnitsFrom(said) |-> Tally(said, c, u)], UnitsFrom(said))
                /\ Times(said)[u] \in Nat
                /\ Cardinality({x \in Values(said) : SaidIn(said, x) = u}) = Times(said)[u]
<1> DEFINE U == UnitsFrom(said)
<1>0. IsFiniteSet(U) /\ \A c \in U : said[c] \in Says
    BY UnitsAre
<1>1. IsFiniteSet(Values(said))
    <2>1. IsFiniteSet(U \X Raters)
        <3> HIDE DEF U
        <3> QED
            BY <1>0, RatersAndScale, FS_Product
    <2>2. Values(said) \in SUBSET (U \X Raters)
        BY DEF Values
    <2> HIDE DEF U
    <2> QED
        BY <2>1, <2>2, FS_Subset
<1>2. ASSUME NEW u \in Scale
      PROVE  /\ \A c \in U : Tally(said, c, u) \in Nat
             /\ Times(said)[u] = Sum([c \in U |-> Tally(said, c, u)], U)
             /\ Times(said)[u] \in Nat
             /\ Cardinality({x \in Values(said) : SaidIn(said, x) = u}) = Times(said)[u]
    <2> DEFINE V == {x \in Values(said) : SaidIn(said, x) = u}
               case == [x \in V |-> x[1]]
               sizes == [c \in U |-> Cardinality(Fiber(case, V, c))]
               tallies == [c \in U |-> Tally(said, c, u)]
    <2>1. IsFiniteSet(V)
        BY <1>1, FS_Subset
    <2>2. \A x \in V : case[x] \in U
        BY DEF Values
    <2>3. ASSUME NEW c \in U
          PROVE  Cardinality(Fiber(case, V, c)) = Tally(said, c, u) /\ Tally(said, c, u) \in Nat
        <3> DEFINE G == Saying(said[c], u)
        <3>1. Fiber(case, V, c) = {c} \X G
            BY DEF Fiber, Values, SaidIn, Saying, Counting
        <3>2. IsFiniteSet({c}) /\ Cardinality({c}) = 1 /\ IsFiniteSet(G) /\ Cardinality(G) \in Nat
            BY <1>0, FS_Singleton, CountingByVerdict
        <3>3. Tally(said, c, u) = Cardinality(G)
            BY DEF Tally, Saying
        <3> HIDE DEF G
        <3>4. Cardinality({c} \X G) = 1 * Cardinality(G)
            BY <3>2, FS_Product
        <3>5. 1 * Cardinality(G) = Cardinality(G)
            BY <3>2
        <3> QED
            BY <3>1, <3>2, <3>3, <3>4, <3>5
    <2>4. sizes = tallies
        <3>1. \A c \in U : sizes[c] = tallies[c]
            BY <2>3
        <3> QED
            BY <3>1
    <2>5. Times(said)[u] = Cardinality(V)
        BY DEF Times
    <2> HIDE DEF V, case, U
    <2>6. Cardinality(V) = Sum(sizes, U)
        BY <1>0, <2>1, <2>2, CountByKey
    <2>7. Cardinality(V) \in Nat
        BY <2>1, FS_CardinalityType
    <2>8. Times(said)[u] = Sum(tallies, U)
        BY <2>4, <2>5, <2>6
    <2> QED
        BY <2>3, <2>5, <2>7, <2>8 DEF V
<1> QED
    BY <1>1, <1>2

(* What a tally counts.                                                    *)
LEMMA TallyIs ==
    ASSUME NEW said, Table(said), NEW c \in UnitsFrom(said), NEW k \in Scale
    PROVE  Tally(said, c, k) = Cardinality(Saying(said[c], k)) /\ Tally(said, c, k) \in Nat
<1>1. said[c] \in Says
    BY UnitsAre
<1>2. Cardinality(Saying(said[c], k)) \in Nat
    BY <1>1, CountingByVerdict
<1> QED
    BY <1>2 DEF Tally, Saying

(* The coincidences, as a sum over the units.                              *)
LEMMA CoincidenceIs ==
    ASSUME NEW said, NEW u \in Scale, NEW v \in Scale
    PROVE  Coincidence(said)[<<u, v>>]
             = Sum([c \in UnitsFrom(said) |-> Share(said[c]) * Cardinality(PairsSaying(said[c], u, v))], UnitsFrom(said))
<1>1. Coincidence(said)[<<u, v>>]
        = SumFunction([c \in UnitsFrom(said) |-> Share(said[c]) * Cardinality(PairsSaying(said[c], u, v))])
    BY DEF Coincidence
<1> QED
    BY <1>1, SumFunctionIs

(* The share of a unit.                                                    *)
LEMMA ShareIs ==
    ASSUME NEW said, Table(said), NEW c \in UnitsFrom(said)
    PROVE  /\ Share(said[c]) \in Nat \ {0} /\ Cardinality(Counting(said[c])) \in Nat
           /\ (Cardinality(Counting(said[c])) - 1) * Share(said[c]) = Common
<1>1. Cardinality(Counting(said[c])) \in 2..Cardinality(Raters)
    BY UnitsAre
<1>2. Cardinality(Raters) \in Nat
    BY RatersAndScale
<1>3. Cardinality(Counting(said[c])) \in Nat
    BY <1>1, <1>2
<1> QED
    BY <1>1, <1>3, CommonShares DEF Share

(* shared/metrics.ts:90: the mass of a verdict is how often it was given.  *)
LEMMA MassesAre ==
    ASSUME NEW said, Table(said)
    PROVE  Masses(Coincidence(said)) = [u \in Scale |-> Common * Times(said)[u]]
<1> DEFINE U == UnitsFrom(said)
           o == Coincidence(said)
<1>0. IsFiniteSet(U) /\ IsFiniteSet(Scale) /\ \A c \in U : said[c] \in Says
    BY UnitsAre, RatersAndScale
<1>1. ASSUME NEW u \in Scale PROVE Masses(o)[u] = Common * Times(said)[u]
    <2> DEFINE M == [v \in Scale |-> [c \in U |-> Share(said[c]) * Cardinality(PairsSaying(said[c], u, v))]]
               row == [v \in Scale |-> Sum(M[v], U)]
               weight == [c \in U |-> Common * Tally(said, c, u)]
               tallies == [c \in U |-> Tally(said, c, u)]
               cols == [c \in U |-> Sum(Turned(M, Scale, U)[c], Scale)]
    <2>1. Masses(o)[u] = Sum(row, Scale)
        <3>1. Masses(o)[u] = SumFunction([v \in Scale |-> o[<<u, v>>]])
            BY DEF Masses
        <3>2. \A v \in Scale : o[<<u, v>>] = row[v]
            BY CoincidenceIs
        <3>3. [v \in Scale |-> o[<<u, v>>]] = row
            <4> HIDE DEF o, M
            <4> QED
                BY <3>2
        <3> QED
            BY <3>1, <3>3, SumFunctionIs
    <2>2. \A v \in Scale, c \in U : M[v][c] \in Int
        <3>1. ASSUME NEW v \in Scale, NEW c \in U
              PROVE  Share(said[c]) * Cardinality(PairsSaying(said[c], u, v)) \in Int
            <4>1. Share(said[c]) \in Int
                BY ShareIs
            <4>s. said[c] \in Says
                BY <1>0
            <4>2. Cardinality(PairsSaying(said[c], u, v)) \in Nat
                BY <4>s, PairsWithFirst
            <4> QED
                BY <4>1, <4>2
        <3> QED
            BY <3>1
    <2>3. Sum(row, Scale) = Sum(cols, U)
        <3> HIDE DEF M, U
        <3>1. Twice(M, Scale, U) = Twice(Turned(M, Scale, U), U, Scale)
            BY <1>0, <2>2, Interchange
        <3> QED
            BY <3>1 DEF Twice
    <2>4. ASSUME NEW c \in U PROVE cols[c] = weight[c] /\ weight[c] \in Int
        <3> DEFINE P == [v \in Scale |-> Cardinality(PairsSaying(said[c], u, v))]
                   col == Turned(M, Scale, U)[c]
                   t == Tally(said, c, u)
                   s == Share(said[c])
                   n == Cardinality(Counting(said[c]))
        <3>1. said[c] \in Says /\ t = Cardinality(Saying(said[c], u))
            BY <1>0 DEF Tally, Saying
        <3>2. s \in Int /\ n \in Int /\ t \in Int /\ (n - 1) * s = Common /\ Common \in Int
            <4>1. s \in Int /\ n \in Int /\ (n - 1) * s = Common
                BY ShareIs
            <4>2. t \in Nat
                BY TallyIs
            <4>3. Common \in Int
                BY CommonShares
            <4> QED
                BY <4>1, <4>2, <4>3
        <3>3. \A v \in Scale : col[v] = s * P[v] /\ P[v] \in Int
            <4>1. \A v \in Scale : col[v] = s * P[v]
                BY DEF Turned
            <4>2. \A v \in Scale : Cardinality(PairsSaying(said[c], u, v)) \in Nat
                BY <3>1, PairsWithFirst
            <4> QED
                BY <4>1, <4>2
        <3>4. Sum(P, Scale) = t * (n - 1)
            BY <3>1, PairsWithFirst
        <3>5. cols[c] = Sum(col, Scale) /\ weight[c] = Common * t
            OBVIOUS
        <3> HIDE DEF P, col, t, s, n, cols, weight
        <3>6. Sum(col, Scale) = s * Sum(P, Scale)
            BY <1>0, <3>2, <3>3, SumScale
        <3>7. s * (t * (n - 1)) = ((n - 1) * s) * t /\ Common * t \in Int
            BY <3>2
        <3> QED
            BY <3>2, <3>4, <3>5, <3>6, <3>7
    <2>5. Sum(cols, U) = Sum(weight, U)
        <3> HIDE DEF cols, weight, U
        <3> QED
            BY <1>0, <2>4, SumSame
    <2>6. Sum(weight, U) = Common * Sum(tallies, U)
        <3>0. \A c \in U : Tally(said, c, u) \in Nat
            BY TallyIs
        <3>1. \A c \in U : weight[c] = Common * tallies[c] /\ tallies[c] \in Int
            BY <3>0
        <3> HIDE DEF weight, tallies, U
        <3> QED
            BY <1>0, <3>1, CommonShares, SumScale
    <2>7. Times(said)[u] = Sum(tallies, U)
        BY TimesAre
    <2> QED
        BY <2>1, <2>3, <2>5, <2>6, <2>7
<1>2. Masses(o) = [u \in Scale |-> Masses(o)[u]]
    BY DEF Masses
<1> HIDE DEF o
<1>3. Masses(o) = [u \in Scale |-> Common * Times(said)[u]]
    BY <1>1, <1>2
<1> QED
    BY <1>3 DEF o

(* (a scaled gap, squared)                                                 *)
LEMMA GapScales ==
    ASSUME NEW k \in Int, NEW s \in Int, NEW a \in Int, NEW b \in Int
    PROVE  /\ 2 * (k * s) - k * a - k * b = k * (2 * s - a - b)
           /\ (k * (2 * s - a - b)) * (k * (2 * s - a - b)) = (k * k) * ((2 * s - a - b) * (2 * s - a - b))
    OBVIOUS

(* shared/metrics.ts:118, 122: the differences are numbers, none between a *)
(* verdict and itself.                                                     *)
LEMMA DeltaIs ==
    ASSUME NEW metric, NEW mass, \A w \in Scale : mass[w] \in Int, NEW u \in Scale, NEW v \in Scale
    PROVE  Delta(metric, mass, u, v) \in Int /\ (u = v => Delta(metric, mass, u, v) = 0)
<1> DEFINE between == {w \in Scale : (u <= w /\ w <= v) \/ (v <= w /\ w <= u)}
           d == 2 * SumFunctionOnSet(mass, between) - mass[u] - mass[v]
<1>1. IsFiniteSet(between) /\ \A w \in between : mass[w] \in Int
    BY RatersAndScale, FS_Subset
<1>2. SumFunctionOnSet(mass, between) \in Int
    <2> HIDE DEF between
    <2> QED
        BY <1>1, SumOnSetIs, SumIsInt
<1>3. OrdinalDelta(mass, u, v) = IF u = v THEN 0 ELSE d * d
    BY DEF OrdinalDelta
<1> HIDE DEF between
<1>4. d \in Int
    BY <1>2
<1> HIDE DEF d
<1>5. d * d \in Int
    BY <1>4
<1> QED
    BY <1>3, <1>5 DEF Delta, NominalDelta

(* Only the ordinal one depends on the masses: on their square.            *)
LEMMA DeltaScales ==
    ASSUME NEW k \in Int, NEW big, NEW mass, \A w \in Scale : mass[w] \in Int /\ big[w] = k * mass[w],
           NEW u \in Scale, NEW v \in Scale
    PROVE  /\ Delta("nominal", big, u, v) = Delta("nominal", mass, u, v)
           /\ Delta("ordinal", big, u, v) = (k * k) * Delta("ordinal", mass, u, v)
<1> DEFINE between == {w \in Scale : (u <= w /\ w <= v) \/ (v <= w /\ w <= u)}
           s == SumFunctionOnSet(mass, between)
           e == 2 * SumFunctionOnSet(big, between) - big[u] - big[v]
           d == 2 * s - mass[u] - mass[v]
<1>1. IsFiniteSet(between) /\ \A w \in between : mass[w] \in Int /\ big[w] = k * mass[w]
    BY RatersAndScale, FS_Subset
<1>2. s \in Int /\ SumFunctionOnSet(big, between) = k * s
    <2> HIDE DEF between
    <2> QED
        BY <1>1, SumOnSetIs, SumIsInt, SumScale
<1>3. /\ OrdinalDelta(mass, u, v) = IF u = v THEN 0 ELSE d * d
      /\ OrdinalDelta(big, u, v) = IF u = v THEN 0 ELSE e * e
    BY DEF OrdinalDelta
<1> HIDE DEF between, s
<1>4. e = 2 * (k * s) - k * mass[u] - k * mass[v] /\ mass[u] \in Int /\ mass[v] \in Int
    BY <1>2
<1>5. e * e = (k * k) * (d * d)
    BY <1>2, <1>4, GapScales
<1> HIDE DEF d, e
<1>6. (k * k) * 0 = 0
    OBVIOUS
<1>7. OrdinalDelta(big, u, v) = (k * k) * OrdinalDelta(mass, u, v)
    BY <1>3, <1>5, <1>6
<1> QED
    BY <1>7 DEF Delta, NominalDelta

(* The disagreement within a case, value by value.                         *)
DiffersIn(said, metric, mass, c) ==
    Sum([p \in Within(said[c]) |-> Delta(metric, mass, said[c][p[1]], said[c][p[2]])], Within(said[c]))

(* It is a number, and the sum over the verdicts of what the coincidences  *)
(* of the case weigh.                                                      *)
LEMMA DiffersByVerdict ==
    ASSUME NEW said, Table(said), NEW c \in UnitsFrom(said),
           NEW metric, NEW mass, \A w \in Scale : mass[w] \in Int
    PROVE  /\ DiffersIn(said, metric, mass, c) \in Int
           /\ DiffersIn(said, metric, mass, c)
                = Sum([uv \in Scale \X Scale |->
                         Delta(metric, mass, uv[1], uv[2]) * Cardinality(PairsSaying(said[c], uv[1], uv[2]))], Scale \X Scale)
<1> DEFINE by == said[c]
           W == Within(by)
           K == Scale \X Scale
           key == [p \in W |-> <<by[p[1]], by[p[2]]>>]
           g == [uv \in K |-> Delta(metric, mass, uv[1], uv[2])]
           differ == [p \in W |-> Delta(metric, mass, by[p[1]], by[p[2]])]
           groups == [uv \in K |-> g[uv] * Cardinality(Fiber(key, W, uv))]
           sizes == [uv \in K |-> Delta(metric, mass, uv[1], uv[2]) * Cardinality(PairsSaying(by, uv[1], uv[2]))]
<1>1. by \in Says
    BY UnitsAre
<1>2. IsFiniteSet(W) /\ IsFiniteSet(K)
    <2>1. IsFiniteSet(W)
        BY <1>1, AlikeIsByVerdict
    <2>2. IsFiniteSet(K)
        BY RatersAndScale, FS_Product
    <2> QED
        BY <2>1, <2>2
<1>3. \A p \in W : key[p] = <<by[p[1]], by[p[2]]>> /\ by[p[1]] \in Scale /\ by[p[2]] \in Scale
    BY DEF Within, Counting
<1>4. \A uv \in K : g[uv] = Delta(metric, mass, uv[1], uv[2]) /\ g[uv] \in Int
    BY DeltaIs
<1>5. \A p \in W : key[p] \in K /\ differ[p] = g[key[p]] /\ differ[p] \in Int
    <2>1. ASSUME NEW p \in W
          PROVE  key[p] \in K /\ differ[p] = g[key[p]] /\ differ[p] \in Int
        <3>1. key[p] \in K /\ key[p][1] = by[p[1]] /\ key[p][2] = by[p[2]]
            BY <1>3
        <3>2. differ[p] = Delta(metric, mass, by[p[1]], by[p[2]])
            OBVIOUS
        <3> HIDE DEF key, g, differ, by
        <3> QED
            BY <1>4, <3>1, <3>2
    <2> QED
        BY <2>1
<1>6. ASSUME NEW uv \in K PROVE Fiber(key, W, uv) = PairsSaying(by, uv[1], uv[2])
    <2>1. uv = <<uv[1], uv[2]>>
        OBVIOUS
    <2> QED
        BY <1>3, <2>1 DEF Fiber, PairsSaying, Within
<1>7. groups = sizes
    <2>1. \A uv \in K : groups[uv] = sizes[uv]
        <3> HIDE DEF key, W, by
        <3> QED
            BY <1>6
    <2> QED
        BY <2>1
<1>8. DiffersIn(said, metric, mass, c) = Sum(differ, W)
    BY DEF DiffersIn
<1> HIDE DEF by, W, K, key, g, differ
<1>9. Sum(differ, W) = Sum(groups, K) /\ Sum(differ, W) \in Int
    BY <1>2, <1>4, <1>5, SumByKey, SumIsInt
<1>10. DiffersIn(said, metric, mass, c) \in Int /\ DiffersIn(said, metric, mass, c) = Sum(sizes, K)
    BY <1>7, <1>8, <1>9
<1> QED
    BY <1>10 DEF K, by

(* shared/metrics.ts:97: the disagreement of the coincidences is that      *)
(* within the cases, each weighing its share.                              *)
LEMMA ObservedIs ==
    ASSUME NEW said, Table(said), NEW metric,
           \A w \in Scale : Masses(Coincidence(said))[w] \in Int
    PROVE  Observed(Coincidence(said), metric)
             = Sum([c \in UnitsFrom(said) |->
                      Share(said[c]) * DiffersIn(said, metric, Masses(Coincidence(said)), c)], UnitsFrom(said))
<1> DEFINE U == UnitsFrom(said)
           K == Scale \X Scale
           o == Coincidence(said)
           mass == Masses(o)
           D(uv) == Delta(metric, mass, uv[1], uv[2])
           P(uv, c) == Cardinality(PairsSaying(said[c], uv[1], uv[2]))
           M == [uv \in K |-> [c \in U |-> (Share(said[c]) * P(uv, c)) * D(uv)]]
           row == [uv \in K |-> Sum(M[uv], U)]
           col == [c \in U |-> Sum(Turned(M, K, U)[c], K)]
           cells == [uv \in K |-> o[uv] * D(uv)]
           shares == [c \in U |-> Share(said[c]) * DiffersIn(said, metric, mass, c)]
<1>0. IsFiniteSet(U) /\ IsFiniteSet(K)
    <2>1. IsFiniteSet(U)
        BY UnitsAre
    <2>2. IsFiniteSet(K)
        BY RatersAndScale, FS_Product
    <2> QED
        BY <2>1, <2>2
<1>1. \A uv \in K : D(uv) \in Int /\ uv = <<uv[1], uv[2]>> /\ uv[1] \in Scale /\ uv[2] \in Scale
    <2>1. ASSUME NEW uv \in K PROVE D(uv) \in Int
        <3>1. uv[1] \in Scale /\ uv[2] \in Scale
            OBVIOUS
        <3> HIDE DEF mass
        <3> QED
            BY <3>1, DeltaIs DEF mass
    <2> QED
        BY <2>1
<1>2. \A c \in U : Share(said[c]) \in Int /\ said[c] \in Says
    BY ShareIs, UnitsAre
<1>3. \A uv \in K, c \in U : P(uv, c) \in Int
    <2>1. ASSUME NEW uv \in K, NEW c \in U PROVE P(uv, c) \in Nat
        <3>1. said[c] \in Says /\ uv[1] \in Scale /\ uv[2] \in Scale
            BY <1>1, <1>2
        <3> QED
            BY <3>1, PairsWithFirst
    <2> QED
        BY <2>1
<1> HIDE DEF D, P
<1>4. Observed(o, metric) = Sum(cells, K)
    <2>1. Observed(o, metric) = SumFunction(cells)
        BY DEF Observed, D
    <2> QED
        BY <2>1, SumFunctionIs
<1>5. ASSUME NEW uv \in K PROVE cells[uv] = row[uv] /\ row[uv] \in Int
    <2> DEFINE weights == [c \in U |-> Share(said[c]) * P(uv, c)]
    <2>1. o[uv] = Sum(weights, U)
        BY <1>1, CoincidenceIs DEF P
    <2>2. \A c \in U : M[uv][c] = D(uv) * weights[c] /\ weights[c] \in Int
        BY <1>1, <1>2, <1>3
    <2>3. row[uv] = Sum(M[uv], U) /\ cells[uv] = o[uv] * D(uv)
        OBVIOUS
    <2> DEFINE line == M[uv]
    <2> HIDE DEF weights, M, U, o, line
    <2>4. Sum(line, U) = D(uv) * Sum(weights, U) /\ Sum(weights, U) \in Int
        <3>1. \A c \in U : line[c] = D(uv) * weights[c] /\ weights[c] \in Int
            BY <2>2 DEF line
        <3> QED
            BY <1>0, <1>1, <3>1, SumScale, SumIsInt
    <2>5. D(uv) * Sum(weights, U) = Sum(weights, U) * D(uv) /\ Sum(weights, U) * D(uv) \in Int
        BY <1>1, <2>4
    <2> QED
        BY <2>1, <2>3, <2>4, <2>5 DEF line
<1>6. Sum(cells, K) = Sum(row, K)
    <2> HIDE DEF cells, row, K
    <2> QED
        BY <1>0, <1>5, SumSame
<1>7. Sum(row, K) = Sum(col, U)
    <2>1. \A uv \in K, c \in U : M[uv][c] \in Int
        BY <1>1, <1>2, <1>3
    <2> HIDE DEF M, U, K
    <2>2. Twice(M, K, U) = Twice(Turned(M, K, U), U, K)
        BY <1>0, <2>1, Interchange
    <2> QED
        BY <2>2 DEF Twice
<1>8. ASSUME NEW c \in U PROVE col[c] = shares[c] /\ shares[c] \in Int
    <2> DEFINE line == Turned(M, K, U)[c]
               weights == [uv \in K |-> D(uv) * P(uv, c)]
               s == Share(said[c])
    <2>1. \A uv \in K : line[uv] = s * weights[uv] /\ weights[uv] \in Int
        <3>1. \A uv \in K : line[uv] = (s * P(uv, c)) * D(uv) /\ weights[uv] = D(uv) * P(uv, c)
            BY DEF Turned
        <3>2. \A uv \in K : s \in Int /\ P(uv, c) \in Int /\ D(uv) \in Int
            BY <1>1, <1>2, <1>3
        <3> HIDE DEF line, weights, s
        <3> QED
            BY <3>1, <3>2
    <2>2. col[c] = Sum(line, K) /\ shares[c] = s * DiffersIn(said, metric, mass, c) /\ s \in Int
        BY <1>2
    <2>3. DiffersIn(said, metric, mass, c) = Sum(weights, K) /\ DiffersIn(said, metric, mass, c) \in Int
        <3>1. \A w \in Scale : mass[w] \in Int
            OBVIOUS
        <3> HIDE DEF mass
        <3> QED
            BY <3>1, DiffersByVerdict DEF D, P
    <2> HIDE DEF line, weights, s, K, col, shares, mass
    <2>4. Sum(line, K) = s * Sum(weights, K)
        BY <1>0, <2>1, <2>2, SumScale
    <2> QED
        BY <2>2, <2>3, <2>4
<1>9. Sum(col, U) = Sum(shares, U)
    <2> HIDE DEF col, shares, U
    <2> QED
        BY <1>0, <1>8, SumSame
<1> HIDE DEF cells, row, col, o, mass, K
<1>10. Observed(o, metric) = Sum(shares, U)
    BY <1>4, <1>6, <1>7, <1>9
<1> QED
    BY <1>10 DEF o, mass

(* The disagreement expected between any two values, by verdict; a value   *)
(* does not differ from itself.                                            *)
LEMMA ExpectedByVerdict ==
    ASSUME NEW said, Table(said), NEW metric
    PROVE  ExpectedByValues(said, metric)
             = Sum([uv \in Scale \X Scale |->
                      Delta(metric, Times(said), uv[1], uv[2]) * (Times(said)[uv[1]] * Times(said)[uv[2]])], Scale \X Scale)
<1> DEFINE V == Values(said)
           K == Scale \X Scale
           D(u, v) == Delta(metric, Times(said), u, v)
           X == {xy \in V \X V : xy[1] # xy[2]}
           part == [xy \in X |-> D(SaidIn(said, xy[1]), SaidIn(said, xy[2]))]
           whole == [xy \in V \X V |-> D(SaidIn(said, xy[1]), SaidIn(said, xy[2]))]
           key == [xy \in V \X V |-> <<SaidIn(said, xy[1]), SaidIn(said, xy[2])>>]
           g == [uv \in K |-> D(uv[1], uv[2])]
           groups == [uv \in K |-> g[uv] * Cardinality(Fiber(key, V \X V, uv))]
           sizes == [uv \in K |-> D(uv[1], uv[2]) * (Times(said)[uv[1]] * Times(said)[uv[2]])]
           Of(u) == {x \in V : SaidIn(said, x) = u}
<1>0. \A u \in Scale : Times(said)[u] \in Nat /\ Cardinality(Of(u)) = Times(said)[u]
    BY TimesAre
<1>1. IsFiniteSet(V) /\ IsFiniteSet(V \X V) /\ IsFiniteSet(K)
    <2>1. IsFiniteSet(V)
        BY TimesAre
    <2>2. IsFiniteSet(K)
        BY RatersAndScale, FS_Product
    <2> HIDE DEF V
    <2> QED
        BY <2>1, <2>2, FS_Product
<1>2. \A x \in V : SaidIn(said, x) \in Scale
    BY DEF Values, SaidIn, Counting
<1>3. \A u, v \in Scale : D(u, v) \in Int /\ (u = v => D(u, v) = 0)
    <2>1. \A w \in Scale : Times(said)[w] \in Nat
        BY TimesAre
    <2>2. \A w \in Scale : Times(said)[w] \in Int
        BY <2>1
    <2> QED
        BY <2>2, DeltaIs
<1> HIDE DEF D, V
<1>4. ExpectedByValues(said, metric) = Sum(part, X)
    <2>1. ExpectedByValues(said, metric) = SumFunction(part)
        BY DEF ExpectedByValues, D, V
    <2> QED
        BY <2>1, SumFunctionIs
<1>5. \A xy \in V \X V : whole[xy] \in Int /\ (xy \notin X => whole[xy] = 0) /\ (xy \in X => part[xy] = whole[xy])
    BY <1>2, <1>3
<1>6. Sum(part, X) = Sum(whole, V \X V)
    <2>1. X \in SUBSET (V \X V)
        OBVIOUS
    <2> DEFINE pairs == V \X V
    <2>2. IsFiniteSet(X) /\ IsFiniteSet(pairs) /\ X \in SUBSET pairs
        BY <1>1, <2>1, FS_Subset
    <2>3. /\ \A xy \in X : whole[xy] \in Int /\ part[xy] = whole[xy]
          /\ \A xy \in pairs \ X : whole[xy] = 0
        BY <1>5
    <2> HIDE DEF pairs, X, part, whole
    <2>4. Sum(part, X) = Sum(whole, X)
        BY <2>2, <2>3, SumSame
    <2>5. Sum(whole, pairs) = Sum(whole, X)
        BY <2>2, <2>3, SumOfPart
    <2> QED
        BY <2>4, <2>5 DEF pairs
<1>7. \A xy \in V \X V : key[xy] \in K /\ whole[xy] = g[key[xy]]
    BY <1>2
<1>8. \A uv \in K : g[uv] \in Int
    BY <1>3
<1>9. groups = sizes
    <2>1. ASSUME NEW uv \in K PROVE groups[uv] = sizes[uv]
        <3> DEFINE u == uv[1]
                   v == uv[2]
                   A == Of(u)
                   B == Of(v)
        <3>1. u \in Scale /\ v \in Scale /\ uv = <<u, v>>
            OBVIOUS
        <3>2. Fiber(key, V \X V, uv) = A \X B
            BY <3>1 DEF Fiber
        <3>3. IsFiniteSet(A) /\ IsFiniteSet(B)
            BY <1>1, FS_Subset
        <3>4. Cardinality(A) = Times(said)[u] /\ Cardinality(B) = Times(said)[v]
            BY <1>0, <3>1
        <3>5. Cardinality(A \X B) = Times(said)[u] * Times(said)[v]
            <4> HIDE DEF A, B, u, v
            <4> QED
                BY <3>3, <3>4, FS_Product
        <3> HIDE DEF A, B
        <3> QED
            BY <3>2, <3>5
    <2> QED
        BY <2>1
<1>10. Sum(whole, V \X V) = Sum(groups, K)
    <2> DEFINE pairs == V \X V
               other == [uv \in K |-> g[uv] * Cardinality(Fiber(key, pairs, uv))]
    <2>1. IsFiniteSet(pairs) /\ (\A xy \in pairs : key[xy] \in K) /\ (\A xy \in pairs : whole[xy] = g[key[xy]])
        BY <1>1, <1>7
    <2>a. IsFiniteSet(K) /\ \A uv \in K : g[uv] \in Int
        BY <1>1, <1>8
    <2> HIDE DEF pairs, key, whole, K, g
    <2>2. Sum(whole, pairs) = Sum(other, K)
        BY <2>1, <2>a, SumByKey
    <2> QED
        BY <2>2 DEF pairs
<1> HIDE DEF groups, sizes, whole, part, X
<1>11. ExpectedByValues(said, metric) = Sum(sizes, K)
    BY <1>4, <1>6, <1>9, <1>10
<1> QED
    BY <1>11 DEF sizes, D

(* (factors gathered)                                                      *)
LEMMA FactorsGather ==
    ASSUME NEW k \in Int, NEW a \in Int, NEW b \in Int, NEW d \in Int
    PROVE  /\ ((k * a) * (k * b)) * d = (k * k) * (d * (a * b))
           /\ ((k * a) * (k * b)) * ((k * k) * d) = (((k * k) * k) * k) * (d * (a * b))
           /\ (k * k) \in Int /\ (((k * k) * k) * k) \in Int /\ d * (a * b) \in Int
<1>1. (k * a) * (k * b) = (k * k) * (a * b)
    OBVIOUS
<1> DEFINE m == k * k
           c == a * b
<1>2. m \in Int /\ c \in Int
    OBVIOUS
<1> HIDE DEF m, c
<1>3. (m * c) * d = m * (d * c) /\ (m * c) * (m * d) = (m * m) * (d * c) /\ d * c \in Int
    BY <1>2
<1>4. m * m = ((k * k) * k) * k
    BY DEF m
<1>5. m * m \in Int
    BY <1>2
<1> QED
    BY <1>1, <1>2, <1>3, <1>4, <1>5 DEF m, c

(* server/app.ts:3722, shared/metrics.ts:104: all that alpha is made of is *)
(* that of the values themselves.                                          *)
LEMMA AlphaOfValues ==
    ASSUME NEW said, Table(said)
    PROVE  /\ Observed(Coincidence(said), "nominal") = ObservedByValues(said, "nominal")
           /\ Expected(Coincidence(said), "nominal") = Common * Common * ExpectedByValues(said, "nominal")
           /\ Observed(Coincidence(said), "ordinal") = Common * Common * ObservedByValues(said, "ordinal")
           /\ Expected(Coincidence(said), "ordinal") = Common * Common * Common * Common * ExpectedByValues(said, "ordinal")
<1> DEFINE U == UnitsFrom(said)
           K == Scale \X Scale
           o == Coincidence(said)
           mass == Masses(o)
           times == Times(said)
           ByMass(metric) == [c \in U |-> Share(said[c]) * DiffersIn(said, metric, mass, c)]
           ByTimes(metric) == [c \in U |-> Share(said[c]) * DiffersIn(said, metric, times, c)]
           MassCells(metric) == [uv \in K |-> mass[uv[1]] * mass[uv[2]] * Delta(metric, mass, uv[1], uv[2])]
           TimesCells(metric) == [uv \in K |-> Delta(metric, times, uv[1], uv[2]) * (times[uv[1]] * times[uv[2]])]
<1>0. IsFiniteSet(U) /\ IsFiniteSet(K)
    <2>1. IsFiniteSet(U)
        BY UnitsAre
    <2>2. IsFiniteSet(K)
        BY RatersAndScale, FS_Product
    <2> QED
        BY <2>1, <2>2
<1>1. Common \in Int
    BY CommonShares
<1>2. \A w \in Scale : times[w] \in Int /\ mass[w] = Common * times[w] /\ mass[w] \in Int
    <2>1. \A w \in Scale : times[w] \in Nat
        BY TimesAre
    <2>2. \A w \in Scale : mass[w] = Common * times[w]
        BY MassesAre
    <2> HIDE DEF times, mass
    <2> QED
        BY <1>1, <2>1, <2>2
<1>3. ASSUME NEW u \in Scale, NEW v \in Scale
      PROVE  /\ Delta("nominal", times, u, v) \in Int /\ Delta("ordinal", times, u, v) \in Int
             /\ Delta("nominal", mass, u, v) = Delta("nominal", times, u, v)
             /\ Delta("ordinal", mass, u, v) = (Common * Common) * Delta("ordinal", times, u, v)
    <2>1. \A w \in Scale : times[w] \in Int
        BY <1>2
    <2>2. \A w \in Scale : times[w] \in Int /\ mass[w] = Common * times[w]
        BY <1>2
    <2> HIDE DEF times, mass
    <2>3. Delta("nominal", times, u, v) \in Int /\ Delta("ordinal", times, u, v) \in Int
        BY <2>1, DeltaIs
    <2>4. /\ Delta("nominal", mass, u, v) = Delta("nominal", times, u, v)
          /\ Delta("ordinal", mass, u, v) = (Common * Common) * Delta("ordinal", times, u, v)
        BY <1>1, <2>2, DeltaScales
    <2> QED
        BY <2>3, <2>4
<1>4. ASSUME NEW metric
      PROVE  /\ Observed(o, metric) = Sum(ByMass(metric), U)
             /\ ObservedByValues(said, metric) = Sum(ByTimes(metric), U)
             /\ Expected(o, metric) = Sum(MassCells(metric), K)
             /\ ExpectedByValues(said, metric) = Sum(TimesCells(metric), K)
    <2>1. Observed(o, metric) = Sum(ByMass(metric), U)
        BY <1>2, ObservedIs
    <2>2. ObservedByValues(said, metric) = Sum(ByTimes(metric), U)
        <3>1. ObservedByValues(said, metric) = SumFunction([c \in U |-> Share(said[c]) *
                 SumFunction([p \in Within(said[c]) |-> Delta(metric, times, said[c][p[1]], said[c][p[2]])])])
            BY DEF ObservedByValues, Within
        <3>2. \A c \in U : SumFunction([p \in Within(said[c]) |-> Delta(metric, times, said[c][p[1]], said[c][p[2]])])
                             = DiffersIn(said, metric, times, c)
            BY SumFunctionIs DEF DiffersIn
        <3>3. ObservedByValues(said, metric) = SumFunction(ByTimes(metric))
            BY <3>1, <3>2
        <3> QED
            BY <3>3, SumFunctionIs
    <2>3. Expected(o, metric) = Sum(MassCells(metric), K)
        <3>1. Expected(o, metric) = SumFunction(MassCells(metric))
            BY DEF Expected
        <3> QED
            BY <3>1, SumFunctionIs
    <2>4. ExpectedByValues(said, metric) = Sum(TimesCells(metric), K)
        BY ExpectedByVerdict
    <2> QED
        BY <2>1, <2>2, <2>3, <2>4
<1>5. \A c \in U : DiffersIn(said, "nominal", times, c) \in Int /\ DiffersIn(said, "ordinal", times, c) \in Int
                   /\ Share(said[c]) \in Int
    <2>1. \A w \in Scale : times[w] \in Int
        BY <1>2
    <2> HIDE DEF times
    <2>2. \A c \in U : DiffersIn(said, "nominal", times, c) \in Int /\ DiffersIn(said, "ordinal", times, c) \in Int
        BY <2>1, DiffersByVerdict
    <2>3. \A c \in U : Share(said[c]) \in Int
        BY ShareIs
    <2> QED
        BY <2>2, <2>3
<1>6. ASSUME NEW c \in U
      PROVE  /\ DiffersIn(said, "nominal", mass, c) = DiffersIn(said, "nominal", times, c)
             /\ DiffersIn(said, "ordinal", mass, c) = (Common * Common) * DiffersIn(said, "ordinal", times, c)
    <2> DEFINE by == said[c]
               W == Within(by)
               f(metric, m) == [p \in W |-> Delta(metric, m, by[p[1]], by[p[2]])]
    <2>1. IsFiniteSet(W)
        BY UnitsAre, AlikeIsByVerdict
    <2>2. \A p \in W : by[p[1]] \in Scale /\ by[p[2]] \in Scale
        BY DEF Within, Counting
    <2> HIDE DEF by, W, times, mass
    <2>3. \A p \in W : f("nominal", mass)[p] = f("nominal", times)[p] /\ f("nominal", times)[p] \in Int
        BY <1>3, <2>2
    <2>4. \A p \in W : f("ordinal", mass)[p] = (Common * Common) * f("ordinal", times)[p] /\ f("ordinal", times)[p] \in Int
        BY <1>3, <2>2
    <2>5. Common * Common \in Int
        BY <1>1
    <2>6. \A metric, m : DiffersIn(said, metric, m, c) = Sum(f(metric, m), W)
        BY DEF DiffersIn, by, W
    <2> HIDE DEF f
    <2>7. Sum(f("nominal", mass), W) = Sum(f("nominal", times), W)
        BY <2>1, <2>3, SumSame
    <2>8. Sum(f("ordinal", mass), W) = (Common * Common) * Sum(f("ordinal", times), W)
        BY <2>1, <2>4, <2>5, SumScale
    <2> QED
        BY <2>6, <2>7, <2>8
<1>7. Observed(o, "nominal") = ObservedByValues(said, "nominal")
    <2>1. \A c \in U : ByMass("nominal")[c] = ByTimes("nominal")[c] /\ ByTimes("nominal")[c] \in Int
        BY <1>5, <1>6
    <2> HIDE DEF ByMass, ByTimes, U, o
    <2>2. Sum(ByMass("nominal"), U) = Sum(ByTimes("nominal"), U)
        BY <1>0, <2>1, SumSame
    <2> QED
        BY <1>4, <2>2
<1>8. Observed(o, "ordinal") = (Common * Common) * ObservedByValues(said, "ordinal")
    <2>1. ASSUME NEW c \in U
          PROVE  /\ ByMass("ordinal")[c] = (Common * Common) * ByTimes("ordinal")[c]
                 /\ ByTimes("ordinal")[c] \in Int
        <3> DEFINE s == Share(said[c])
                   d == DiffersIn(said, "ordinal", times, c)
                   k == Common * Common
        <3>1. s \in Int /\ d \in Int /\ k \in Int
            BY <1>1, <1>5
        <3>2. ByMass("ordinal")[c] = s * (k * d) /\ ByTimes("ordinal")[c] = s * d
            BY <1>6
        <3> HIDE DEF s, d, k, ByMass, ByTimes
        <3>3. s * (k * d) = k * (s * d) /\ s * d \in Int
            BY <3>1
        <3> QED
            BY <3>2, <3>3 DEF k
    <2>2. Common * Common \in Int
        BY <1>1
    <2> HIDE DEF ByMass, ByTimes, U, o
    <2>3. Sum(ByMass("ordinal"), U) = (Common * Common) * Sum(ByTimes("ordinal"), U)
        BY <1>0, <2>1, <2>2, SumScale
    <2> QED
        BY <1>4, <2>3
<1>9. /\ Expected(o, "nominal") = (Common * Common) * ExpectedByValues(said, "nominal")
      /\ Expected(o, "ordinal") = (((Common * Common) * Common) * Common) * ExpectedByValues(said, "ordinal")
    <2> DEFINE k2 == Common * Common
               k4 == ((Common * Common) * Common) * Common
    <2>1. ASSUME NEW uv \in K
          PROVE  /\ MassCells("nominal")[uv] = k2 * TimesCells("nominal")[uv]
                 /\ TimesCells("nominal")[uv] \in Int
                 /\ MassCells("ordinal")[uv] = k4 * TimesCells("ordinal")[uv]
                 /\ TimesCells("ordinal")[uv] \in Int
        <3> DEFINE u == uv[1]
                   v == uv[2]
                   a == times[u]
                   b == times[v]
                   d == Delta("nominal", times, u, v)
                   e == Delta("ordinal", times, u, v)
        <3>1. u \in Scale /\ v \in Scale
            OBVIOUS
        <3>2. a \in Int /\ b \in Int /\ d \in Int /\ e \in Int /\ mass[u] = Common * a /\ mass[v] = Common * b
              /\ Delta("nominal", mass, u, v) = d /\ Delta("ordinal", mass, u, v) = (Common * Common) * e
            <4> HIDE DEF u, v
            <4> QED
                BY <1>2, <1>3, <3>1
        <3>3. /\ MassCells("nominal")[uv] = ((Common * a) * (Common * b)) * d
              /\ TimesCells("nominal")[uv] = d * (a * b)
              /\ MassCells("ordinal")[uv] = ((Common * a) * (Common * b)) * ((Common * Common) * e)
              /\ TimesCells("ordinal")[uv] = e * (a * b)
            <4> HIDE DEF times, mass
            <4> QED
                BY <3>2
        <3> HIDE DEF MassCells, TimesCells, u, v, a, b, d, e
        <3> QED
            BY <1>1, <3>2, <3>3, FactorsGather
    <2>2. k2 \in Int /\ k4 \in Int
        BY <1>1
    <2> HIDE DEF MassCells, TimesCells, k2, k4, K
    <2>3. /\ Sum(MassCells("nominal"), K) = k2 * Sum(TimesCells("nominal"), K)
          /\ Sum(MassCells("ordinal"), K) = k4 * Sum(TimesCells("ordinal"), K)
        BY <1>0, <2>1, <2>2, SumScale
    <2> HIDE DEF o
    <2> QED
        BY <1>4, <2>3 DEF k2, k4
<1> QED
    BY <1>7, <1>8, <1>9

(* server/app.ts:3722, shared/metrics.ts:112: nothing is expected to       *)
(* differ just where all the values are the same.                          *)
LEMMA NothingExpected ==
    ASSUME NEW said, Table(said)
    PROVE  Expected(Coincidence(said), "nominal") = 0
             <=> \A x \in Values(said), y \in Values(said) : SaidIn(said, x) = SaidIn(said, y)
<1> DEFINE V == Values(said)
           X == {xy \in V \X V : xy[1] # xy[2]}
           differ == [xy \in X |-> Delta("nominal", Times(said), SaidIn(said, xy[1]), SaidIn(said, xy[2]))]
           e == ExpectedByValues(said, "nominal")
<1>1. IsFiniteSet(X)
    <2>1. IsFiniteSet(V)
        BY TimesAre
    <2>2. X \in SUBSET (V \X V)
        OBVIOUS
    <2> HIDE DEF V, X
    <2> QED
        BY <2>1, <2>2, FS_Product, FS_Subset
<1>2. e = Sum(differ, X)
    <2>1. e = SumFunction(differ)
        BY DEF ExpectedByValues
    <2> QED
        BY <2>1, SumFunctionIs
<1>3. \A xy \in X : differ[xy] = IF SaidIn(said, xy[1]) = SaidIn(said, xy[2]) THEN 0 ELSE 1
    BY DEF Delta, NominalDelta
<1>4. \A xy \in X : differ[xy] \in Nat
    BY <1>3
<1>5. e = 0 <=> \A xy \in X : differ[xy] = 0
    <2> HIDE DEF X, differ, e
    <2> QED
        BY <1>1, <1>2, <1>4, SumIsZero
<1>6. e \in Nat
    <2> HIDE DEF X, differ, e
    <2> QED
        BY <1>1, <1>2, <1>4, SumIsNat
<1>7. e = 0 <=> \A x, y \in V : SaidIn(said, x) = SaidIn(said, y)
    <2>1. \A xy \in X : differ[xy] = 0 <=> SaidIn(said, xy[1]) = SaidIn(said, xy[2])
        BY <1>3
    <2>2. \A x, y \in V : x # y => <<x, y>> \in X
        OBVIOUS
    <2>3. ASSUME e = 0, NEW x \in V, NEW y \in V, x # y PROVE SaidIn(said, x) = SaidIn(said, y)
        BY <1>5, <2>1, <2>2, <2>3
    <2>4. ASSUME \A x, y \in V : SaidIn(said, x) = SaidIn(said, y) PROVE e = 0
        BY <1>5, <2>1, <2>4
    <2> QED
        BY <2>3, <2>4
<1>8. Expected(Coincidence(said), "nominal") = Common * Common * e
    BY AlphaOfValues
<1>9. Common * Common \in Nat \ {0}
    BY CommonShares, PositiveTimes
<1> DEFINE k == Common * Common
<1> HIDE DEF e
<1>10. Expected(Coincidence(said), "nominal") = k * e
    BY <1>8
<1> HIDE DEF k
<1>11. k * e = 0 <=> e = 0
    BY <1>6, <1>9 DEF k
<1> QED
    BY <1>7, <1>10, <1>11

(* server/app.ts:3722: alpha is the textbook alpha.                        *)
LEMMA AlphaTextbook == ASSUME NEW said, Table(said) PROVE AlphaIsTheTextbook(said)
<1>1. AgreementStats(said).units = Cardinality(UnitsFrom(said))
    BY DEF AgreementStats
<1>2. Cardinality(Scale) >= 2 /\ Cardinality(Scale) \in Nat
    BY RatersAndScale
<1> DEFINE few == Cardinality(UnitsFrom(said)) < MinUnits
           same == \A x \in Values(said), y \in Values(said) : SaidIn(said, x) = SaidIn(said, y)
<1>3. Withheld(said) <=> few \/ same
    <2>1. Withheld(said) <=> few \/ Cardinality(Scale) < 2 \/ Expected(Coincidence(said), "nominal") = 0
        BY DEF Withheld
    <2>2. Expected(Coincidence(said), "nominal") = 0 <=> same
        BY NothingExpected
    <2> QED
        BY <1>2, <2>1, <2>2
<1>4. Explained(said, Withheld(said)) = IF few THEN "too few" ELSE IF same THEN "undefined" ELSE "shown"
    <2> HIDE DEF same
    <2> QED
        BY <1>3 DEF Explained
<1> QED
    BY <1>1, <1>4, MassesAre, AlphaOfValues DEF AlphaIsTheTextbook

-----------------------------------------------------------------------------
(* (chance never reaches one)                                              *)
LEMMA ChanceAlgebra ==
    ASSUME NEW B \in Nat \ {0}, NEW K \in Nat, K >= 2, NEW p \in Int, NEW q \in Nat \ {0}, B * B = p + q
    PROVE  p < (B * B) * (K - 1)
<1>1. (B * B) * (K - 1) = B * B + (B * B) * (K - 2)
    OBVIOUS
<1>2. B * B \in Nat /\ K - 2 \in Nat
    OBVIOUS
<1>3. (B * B) * (K - 2) \in Nat
    BY <1>2
<1> QED
    BY <1>1, <1>2, <1>3

(* (a factor comes out of the sum over the verdicts)                       *)
LEMMA FactorOfAll ==
    ASSUME NEW k \in Int, NEW m, \A v \in Scale : m[v] \in Int
    PROVE  Sum([v \in Scale |-> k * m[v]], Scale) = k * Sum(m, Scale)
<1> DEFINE scaled == [v \in Scale |-> k * m[v]]
<1>0. IsFiniteSet(Scale)
    BY RatersAndScale
<1>1. \A v \in Scale : scaled[v] = k * m[v] /\ m[v] \in Int
    OBVIOUS
<1> HIDE DEF scaled
<1>2. Sum(scaled, Scale) = k * Sum(m, Scale)
    BY <1>0, <1>1, SumScale
<1> QED
    BY <1>2 DEF scaled

(* shared/metrics.ts:312, 353: agreement by chance, from the shares of the *)
(* verdicts in all that was said, is always less than one.                 *)
LEMMA ChanceBelowOne ==
    ASSUME NEW m, \A k \in Scale : m[k] \in Nat, NEW B, B = Sum(m, Scale), B # 0
    PROVE  /\ B \in Nat \ {0}
           /\ Sum([k \in Scale |-> m[k] * (B - m[k])], Scale) \in Int
           /\ Sum([k \in Scale |-> m[k] * (B - m[k])], Scale) < (B * B) * (Cardinality(Scale) - 1)
<1> DEFINE prod == [k \in Scale |-> m[k] * (B - m[k])]
           sq == [k \in Scale |-> m[k] * m[k]]
           times == [k \in Scale |-> B * m[k]]
<1>0. IsFiniteSet(Scale) /\ Cardinality(Scale) \in Nat /\ Cardinality(Scale) >= 2
    BY RatersAndScale
<1>1. B \in Nat \ {0}
    BY <1>0, SumIsNat
<1>2. ASSUME NEW k \in Scale
      PROVE  /\ prod[k] \in Int /\ sq[k] \in Nat /\ times[k] = prod[k] + sq[k]
             /\ times[k] = B * m[k] /\ m[k] \in Int /\ (sq[k] = 0 => m[k] = 0)
    <2> DEFINE x == m[k]
    <2>1. x \in Nat /\ prod[k] = x * (B - x) /\ sq[k] = x * x /\ times[k] = B * x
        OBVIOUS
    <2> HIDE DEF x, prod, sq, times
    <2>2. x * (B - x) \in Int /\ x * x \in Nat /\ B * x = x * (B - x) + x * x /\ (x * x = 0 => x = 0)
        BY <1>1, <2>1
    <2> QED
        BY <2>1, <2>2 DEF x
<1> HIDE DEF prod, sq, times
<1>3. Sum(times, Scale) = Sum(prod, Scale) + Sum(sq, Scale) /\ Sum(prod, Scale) \in Int /\ Sum(sq, Scale) \in Nat
    BY <1>0, <1>2, SumAdd, SumIsInt, SumIsNat
<1>4. Sum(times, Scale) = B * B
    <2>0. B \in Int /\ \A k \in Scale : times[k] = B * m[k] /\ m[k] \in Int
        BY <1>1, <1>2
    <2>1. Sum(times, Scale) = B * Sum(m, Scale)
        BY <1>0, <2>0, FactorOfAll DEF times
    <2> QED
        BY <2>1
<1>5. Sum(sq, Scale) # 0
    <2>1. SUFFICES ASSUME Sum(sq, Scale) = 0 PROVE FALSE
        OBVIOUS
    <2>2. \A k \in Scale : sq[k] = 0
        BY <1>0, <1>2, <2>1, SumIsZero
    <2>3. \A k \in Scale : m[k] = 0
        BY <1>2, <2>2
    <2> QED
        BY <1>0, <2>3, SumIsZero
<1>6. Sum(prod, Scale) < (B * B) * (Cardinality(Scale) - 1)
    BY <1>0, <1>1, <1>3, <1>4, <1>5, ChanceAlgebra
<1> QED
    BY <1>1, <1>3, <1>6 DEF prod

(* shared/metrics.ts:288: the shares are of all the values, of which a     *)
(* unit has two or more.                                                   *)
LEMMA AllThatWasSaid ==
    ASSUME NEW said, Table(said)
    PROVE  /\ \A k \in Scale : Prevalence(said)[k] \in Nat
           /\ Sum(Prevalence(said), Scale)
                = Sum([c \in UnitsFrom(said) |-> Cardinality(Counting(said[c]))], UnitsFrom(said))
           /\ UnitsFrom(said) # {} => Sum(Prevalence(said), Scale) # 0
<1> DEFINE U == UnitsFrom(said)
           times == Prevalence(said)
           M == [k \in Scale |-> [c \in U |-> Tally(said, c, k)]]
           row == [k \in Scale |-> Sum(M[k], U)]
           col == [c \in U |-> Sum(Turned(M, Scale, U)[c], Scale)]
           sizes == [c \in U |-> Cardinality(Counting(said[c]))]
<1>0. IsFiniteSet(U) /\ IsFiniteSet(Scale)
    BY UnitsAre, RatersAndScale
<1>1. \A k \in Scale : times[k] = row[k]
    <2>1. ASSUME NEW k \in Scale PROVE times[k] = Sum(M[k], U)
        <3>1. times[k] = SumFunction([c \in U |-> Tally(said, c, k)])
            BY DEF Prevalence
        <3> QED
            BY <3>1, SumFunctionIs
    <2> QED
        BY <2>1
<1>2. \A k \in Scale, c \in U : M[k][c] \in Nat
    BY TallyIs
<1>3. \A k \in Scale : row[k] \in Nat
    <2>1. ASSUME NEW k \in Scale PROVE Sum(M[k], U) \in Nat
        <3>1. \A c \in U : M[k][c] \in Nat
            BY <1>2
        <3> DEFINE line == M[k]
        <3> HIDE DEF U, M
        <3> QED
            BY <1>0, <3>1, SumIsNat
    <2> QED
        BY <2>1
<1>4. ASSUME NEW c \in U PROVE col[c] = sizes[c] /\ sizes[c] \in Nat /\ sizes[c] >= 2
    <2> DEFINE line == Turned(M, Scale, U)[c]
               saying == [k \in Scale |-> Cardinality(Saying(said[c], k))]
    <2>1. line = saying
        <3>1. line = [k \in Scale |-> Tally(said, c, k)]
            BY DEF Turned
        <3> QED
            BY <3>1, TallyIs
    <2>2. said[c] \in Says /\ Cardinality(Counting(said[c])) \in 2..Cardinality(Raters) /\ Cardinality(Raters) \in Nat
        BY UnitsAre, RatersAndScale
    <2>3. Cardinality(Counting(said[c])) = Sum(saying, Scale)
        BY <2>2, CountingByVerdict
    <2>4. col[c] = Sum(line, Scale) /\ sizes[c] = Cardinality(Counting(said[c]))
        OBVIOUS
    <2> HIDE DEF line, saying, col, sizes
    <2> QED
        BY <2>1, <2>2, <2>3, <2>4
<1>5. Sum(row, Scale) = Sum(col, U)
    <2>1. \A k \in Scale, c \in U : M[k][c] \in Int
        BY <1>2
    <2> HIDE DEF M, U
    <2>2. Twice(M, Scale, U) = Twice(Turned(M, Scale, U), U, Scale)
        BY <1>0, <2>1, Interchange
    <2> QED
        BY <2>2 DEF Twice
<1> HIDE DEF times, M, row, col, sizes, U
<1>6. Sum(times, Scale) = Sum(row, Scale)
    BY <1>0, <1>1, <1>3, SumSame
<1>7. Sum(col, U) = Sum(sizes, U)
    BY <1>0, <1>4, SumSame
<1>8. U # {} => Sum(sizes, U) # 0
    <2>1. SUFFICES ASSUME NEW c \in U, Sum(sizes, U) = 0 PROVE FALSE
        OBVIOUS
    <2>2. sizes[c] = 0
        BY <1>0, <1>4, <2>1, SumIsZero
    <2> QED
        BY <1>4, <2>2
<1> QED
    BY <1>1, <1>3, <1>5, <1>6, <1>7, <1>8 DEF times, sizes, U

(* shared/metrics.ts:297: the pairs that agree in a unit.                  *)
LEMMA AlikeInUnit ==
    ASSUME NEW said, Table(said), NEW c \in UnitsFrom(said)
    PROVE  AlikeByVerdict(said, c) = Cardinality(Alike(said[c]))
<1> DEFINE tallies == [k \in Scale |-> Tally(said, c, k) * (Tally(said, c, k) - 1)]
           saying == [k \in Scale |-> Cardinality(Saying(said[c], k)) * (Cardinality(Saying(said[c], k)) - 1)]
<1>1. said[c] \in Says
    BY UnitsAre
<1>2. tallies = saying
    BY TallyIs
<1>3. AlikeByVerdict(said, c) = Sum(tallies, Scale)
    <2>1. AlikeByVerdict(said, c) = SumFunction(tallies)
        BY DEF AlikeByVerdict
    <2> QED
        BY <2>1, SumFunctionIs
<1>4. Cardinality(Alike(said[c])) = Sum(saying, Scale)
    BY <1>1, AlikeIsByVerdict
<1> HIDE DEF tallies, saying
<1> QED
    BY <1>2, <1>3, <1>4

(* (a share of what is there is no more than all)                          *)
LEMMA ShareAtMost ==
    ASSUME NEW w \in Nat, NEW q \in Nat \ {0}, NEW a \in Nat, a <= w
    PROVE  /\ a * q \in Nat /\ a * q <= w * q /\ (a * q = w * q <=> a = w)
<1>1. PICK d \in Nat : w = a + d
    <2>1. w - a \in Nat /\ w = a + (w - a)
        OBVIOUS
    <2> QED
        BY <2>1
<1>2. w * q = a * q + d * q
    BY <1>1
<1>3. d * q \in Nat /\ a * q \in Nat /\ (d * q = 0 <=> d = 0)
    OBVIOUS
<1> QED
    BY <1>1, <1>2, <1>3

(* shared/metrics.ts:48: the part of its pairs that agree is at most all,  *)
(* and all just where none of them differ.                                 *)
LEMMA AgreementInUnit ==
    ASSUME NEW said, Table(said), NEW c \in UnitsFrom(said)
    PROVE  LET part == OfPairs(said[c], Cardinality(Alike(said[c])))
               all == Cardinality(Counting(said[c])) * (Cardinality(Counting(said[c])) - 1)
           IN  /\ part \in Nat /\ part <= PairCommon
               /\ part = Cardinality(Alike(said[c])) * (PairCommon \div all)
               /\ PairCommon = all * (PairCommon \div all) /\ PairCommon \div all \in Nat \ {0}
               /\ part = PairCommon <=> Cardinality(Alike(said[c])) = Cardinality(Within(said[c]))
<1> DEFINE by == said[c]
           n == Cardinality(Counting(by))
           all == n * (n - 1)
           q == PairCommon \div all
           a == Cardinality(Alike(by))
           w == Cardinality(Within(by))
<1>1. by \in Says /\ n \in 2..Cardinality(Raters)
    BY UnitsAre
<1>2. PairCommon = all * q /\ q \in Nat \ {0}
    BY <1>1, PairShares
<1>3. /\ IsFiniteSet(Within(by)) /\ Alike(by) \in SUBSET Within(by) /\ IsFiniteSet(Alike(by))
      /\ w = all
    BY <1>1, AlikeIsByVerdict
<1>4. a \in Nat /\ w \in Nat /\ a <= w
    BY <1>3, FS_Subset, FS_CardinalityType
<1>5. OfPairs(by, a) = a * q
    BY DEF OfPairs
<1> HIDE DEF by, n, all, q, a, w
<1>6. a * q \in Nat /\ a * q <= w * q /\ (a * q = w * q <=> a = w)
    BY <1>2, <1>4, ShareAtMost
<1>7. PairCommon = w * q
    BY <1>2, <1>3
<1>8. OfPairs(by, a) \in Nat /\ OfPairs(by, a) <= PairCommon /\ (OfPairs(by, a) = PairCommon <=> a = w)
    BY <1>5, <1>6, <1>7
<1> QED
    BY <1>2, <1>5, <1>8 DEF by, a, w, q, all, n

(* So in all, observed agreement is at most one, and one just where no     *)
(* pair of any unit differs.                                               *)
LEMMA AgreementAtMostOne ==
    ASSUME NEW said, Table(said)
    PROVE  /\ ObservedAgreement(said).num \in Nat
           /\ ObservedAgreement(said).den = PairCommon * Cardinality(UnitsFrom(said))
           /\ ObservedAgreement(said).num = ObservedAgreement(said).den
                <=> \A c \in UnitsFrom(said) : Cardinality(Alike(said[c])) = Cardinality(Within(said[c]))
<1> DEFINE U == UnitsFrom(said)
           parts == [c \in U |-> OfPairs(said[c], Cardinality(Alike(said[c])))]
           wholes == [c \in U |-> PairCommon]
<1>0. IsFiniteSet(U)
    BY UnitsAre
<1>1. ObservedAgreement(said).num = Sum(parts, U)
    <2>1. ObservedAgreement(said).num = SumFunction(parts)
        BY DEF ObservedAgreement
    <2> QED
        BY <2>1, SumFunctionIs
<1>2. ObservedAgreement(said).den = PairCommon * Cardinality(U)
    BY DEF ObservedAgreement
<1>3. ASSUME NEW c \in U
      PROVE  /\ parts[c] \in Nat /\ parts[c] <= wholes[c] /\ wholes[c] = PairCommon
             /\ parts[c] = wholes[c] <=> Cardinality(Alike(said[c])) = Cardinality(Within(said[c]))
    BY AgreementInUnit
<1>4. PairCommon \in Int
    BY PairShares
<1> HIDE DEF parts, wholes, U
<1>5. Sum(wholes, U) = PairCommon * Cardinality(U)
    BY <1>0, <1>3, <1>4, SumOfOne
<1>6. Sum(parts, U) \in Nat
    BY <1>0, <1>3, SumIsNat
<1>7. Sum(parts, U) = Sum(wholes, U) <=> \A c \in U : parts[c] = wholes[c]
    <2>1. \A c \in U : parts[c] \in Int /\ wholes[c] \in Int /\ parts[c] <= wholes[c]
        BY <1>3, <1>4
    <2> QED
        BY <1>0, <2>1, SumAtMost
<1> QED
    BY <1>1, <1>2, <1>3, <1>5, <1>6, <1>7 DEF U

(* shared/metrics.ts:97: nothing is observed to differ just there too.     *)
LEMMA NothingObserved ==
    ASSUME NEW said, Table(said)
    PROVE  Observed(Coincidence(said), "nominal") = 0
             <=> \A c \in UnitsFrom(said) : Cardinality(Alike(said[c])) = Cardinality(Within(said[c]))
<1> DEFINE U == UnitsFrom(said)
           mass == Masses(Coincidence(said))
           D(c) == DiffersIn(said, "nominal", mass, c)
           parts == [c \in U |-> Share(said[c]) * D(c)]
<1>0. IsFiniteSet(U)
    BY UnitsAre
<1>1. Observed(Coincidence(said), "nominal") = Sum(parts, U)
    <2>1. \A w \in Scale : Times(said)[w] \in Nat
        BY TimesAre
    <2>2. \A w \in Scale : mass[w] = Common * Times(said)[w]
        BY MassesAre
    <2>3. \A w \in Scale : mass[w] \in Int
        BY <2>1, <2>2, CommonShares
    <2> QED
        BY <2>3, ObservedIs
<1>2. ASSUME NEW c \in U
      PROVE  D(c) \in Nat /\ (D(c) = 0 <=> Cardinality(Alike(said[c])) = Cardinality(Within(said[c])))
    <2> DEFINE by == said[c]
               W == Within(by)
               differ == [p \in W |-> Delta("nominal", mass, by[p[1]], by[p[2]])]
    <2>1. by \in Says
        BY UnitsAre
    <2>2. IsFiniteSet(W) /\ Alike(by) \in SUBSET W /\ IsFiniteSet(Alike(by))
        BY <2>1, AlikeIsByVerdict
    <2>3. \A p \in W : differ[p] = IF p \in Alike(by) THEN 0 ELSE 1
        BY DEF Delta, NominalDelta, Within, Alike
    <2>4. D(c) = Sum(differ, W)
        BY DEF DiffersIn
    <2>5. Cardinality(Alike(by)) = Cardinality(W) <=> \A p \in W : p \in Alike(by)
        <3>1. Cardinality(Alike(by)) = Cardinality(W) => W = Alike(by)
            BY <2>2, FS_Subset
        <3>2. (\A p \in W : p \in Alike(by)) => W = Alike(by)
            BY <2>2
        <3> QED
            BY <3>1, <3>2
    <2> HIDE DEF by, W, differ, D
    <2>6. \A p \in W : differ[p] \in Nat
        BY <2>3
    <2>7. D(c) \in Nat /\ (D(c) = 0 <=> \A p \in W : differ[p] = 0)
        BY <2>2, <2>4, <2>6, SumIsNat, SumIsZero
    <2>8. (\A p \in W : differ[p] = 0) <=> \A p \in W : p \in Alike(by)
        BY <2>3
    <2> QED
        BY <2>5, <2>7, <2>8 DEF by, W
<1> HIDE DEF D
<1>3. ASSUME NEW c \in U PROVE parts[c] \in Nat /\ (parts[c] = 0 <=> D(c) = 0)
    <2> DEFINE s == Share(said[c])
    <2>1. s \in Nat \ {0}
        BY ShareIs
    <2>2. parts[c] = s * D(c)
        OBVIOUS
    <2> HIDE DEF s, parts
    <2> QED
        BY <1>2, <2>1, <2>2
<1> HIDE DEF parts, U
<1>4. Sum(parts, U) = 0 <=> \A c \in U : parts[c] = 0
    BY <1>0, <1>3, SumIsZero
<1> QED
    BY <1>1, <1>2, <1>3, <1>4 DEF U

(* (a coefficient of agreement p / q beyond chance e / d is one just where *)
(* agreement is)                                                           *)
LEMMA CoefficientIsOne ==
    ASSUME NEW p \in Int, NEW q \in Int, NEW e \in Int, NEW d \in Nat \ {0}
    PROVE  p * d - e * q = q * (d - e) <=> p = q
<1>1. q * (d - e) = q * d - e * q /\ p * d = q * d + (p - q) * d
    OBVIOUS
<1> DEFINE r == p - q
<1>2. r \in Int /\ (r * d = 0 <=> r = 0) /\ (r = 0 <=> p = q)
    OBVIOUS
<1>3. p * d - e * q = q * (d - e) <=> (p - q) * d = 0
    <2> DEFINE a == p * d
               b == e * q
               c == q * d
               x == (p - q) * d
               y == q * (d - e)
    <2>1. a \in Int /\ b \in Int /\ c \in Int /\ x \in Int /\ y = c - b /\ a = c + x
        BY <1>1
    <2> HIDE DEF a, b, c, x, y
    <2>2. a - b = y <=> x = 0
        BY <2>1
    <2> QED
        BY <2>2 DEF a, b, c, x, y
<1> QED
    BY <1>2, <1>3

(* shared/metrics.ts:274, 306: chance agreement, of the shares.            *)
LEMMA ChanceIs ==
    ASSUME NEW said, Table(said)
    PROVE  LET times == Prevalence(said)
               all == Sum(times, Scale)
           IN  /\ Chance(said).num = Sum([k \in Scale |-> times[k] * (all - times[k])], Scale)
               /\ Chance(said).den = (all * all) * (Cardinality(Scale) - 1)
               /\ UnitsFrom(said) # {} =>
                    /\ Chance(said).num \in Int /\ Chance(said).den \in Nat \ {0}
                    /\ Chance(said).num < Chance(said).den
<1> DEFINE times == Prevalence(said)
           all == Sum(times, Scale)
           num == Chance(said).num
           den == Chance(said).den
<1>1. SumFunction(times) = all
    <2>1. DOMAIN times = Scale
        BY DEF Prevalence
    <2> QED
        BY <2>1, SumFunctionIs
<1>2. /\ num = SumFunction([k \in Scale |-> times[k] * (SumFunction(times) - times[k])])
      /\ den = SumFunction(times) * SumFunction(times) * (Cardinality(Scale) - 1)
    BY DEF Chance
<1>3. num = SumFunction([k \in Scale |-> times[k] * (all - times[k])]) /\ den = (all * all) * (Cardinality(Scale) - 1)
    BY <1>1, <1>2
<1>4. num = Sum([k \in Scale |-> times[k] * (all - times[k])], Scale)
    BY <1>3, SumFunctionIs
<1>5. (\A k \in Scale : times[k] \in Nat) /\ (UnitsFrom(said) # {} => all # 0)
    BY AllThatWasSaid
<1> HIDE DEF times, num, den
<1>6. ASSUME UnitsFrom(said) # {} PROVE num \in Int /\ den \in Nat \ {0} /\ num < den
    <2>1. all # 0
        BY <1>5, <1>6
    <2>2. all \in Nat \ {0} /\ num \in Int /\ num < (all * all) * (Cardinality(Scale) - 1)
        BY <1>4, <1>5, <2>1, ChanceBelowOne
    <2>3. Cardinality(Scale) - 1 \in Nat \ {0}
        BY RatersAndScale
    <2>4. (all * all) * (Cardinality(Scale) - 1) \in Nat \ {0}
        BY <2>2, <2>3, PositiveTimes
    <2> QED
        BY <1>3, <2>2, <2>4
<1> QED
    BY <1>3, <1>4, <1>6 DEF times, num, den

(* shared/metrics.ts:274: AC1 is the textbook AC1.                         *)
LEMMA AC1Textbook == ASSUME NEW said, Table(said) PROVE AC1IsTheTextbook(said)
<1> DEFINE U == UnitsFrom(said)
           few == Cardinality(U) < MinUnits
           pa == ObservedAgreement(said)
           pe == Chance(said)
<1>0. IsFiniteSet(U) /\ Cardinality(U) \in Nat /\ MinUnits \in Nat \ {0} /\ Cardinality(Scale) \in Nat /\ Cardinality(Scale) >= 2
    <2>1. IsFiniteSet(U) /\ Cardinality(U) \in Nat
        BY UnitsAre
    <2>2. Cardinality(Scale) \in Nat /\ Cardinality(Scale) >= 2
        BY RatersAndScale
    <2> QED
        BY <2>1, <2>2, ScaleIsRanked
<1>1. AgreementStats(said).units = Cardinality(U) /\ AgreementStats(said).observed = pa
    BY DEF AgreementStats
<1>2. AgreementByVerdict(said) = pa
    <2>1. \A c \in U : AlikeByVerdict(said, c) = Cardinality(Alike(said[c]))
        BY AlikeInUnit
    <2>2. [c \in U |-> OfPairs(said[c], AlikeByVerdict(said, c))] = [c \in U |-> OfPairs(said[c], Cardinality(Alike(said[c])))]
        BY <2>1
    <2> QED
        BY <2>2 DEF AgreementByVerdict, ObservedAgreement
<1>3. ~few => U # {}
    <2>1. Cardinality({}) = 0
        BY FS_EmptySet
    <2> QED
        BY <1>0, <2>1
<1>4. U # {} => pe.num \in Int /\ pe.den \in Nat \ {0} /\ pe.num < pe.den
    BY ChanceIs
<1>5. Explained(said, AC1Withheld(said)) = IF few THEN "too few" ELSE "shown"
    <2>1. AC1Withheld(said) <=> few \/ Cardinality(Scale) < 2 \/ pe.num >= pe.den
        BY DEF AC1Withheld
    <2>2. ~few => ~AC1Withheld(said)
        <3> HIDE DEF pe
        <3> QED
            BY <1>0, <1>3, <1>4, <2>1
    <2> QED
        BY <2>2 DEF Explained
<1>6. ASSUME ~few PROVE AC1(said).num = AC1(said).den <=> Observed(Coincidence(said), "nominal") = 0
    <2>1. AC1(said).num = pa.num * pe.den - pe.num * pa.den /\ AC1(said).den = pa.den * (pe.den - pe.num)
        <3> HIDE DEF pa, pe
        <3> QED
            BY <1>2 DEF AC1, pe
    <2>2. pa.num \in Int /\ pa.den \in Int
        <3>1. pa.num \in Nat /\ pa.den = PairCommon * Cardinality(U)
            BY AgreementAtMostOne
        <3>2. PairCommon \in Nat
            BY PairShares
        <3> HIDE DEF pa, U
        <3> QED
            BY <1>0, <3>1, <3>2
    <2>3. pe.num \in Int /\ pe.den \in Nat \ {0}
        BY <1>3, <1>4, <1>6
    <2>4. pa.num = pa.den <=> Observed(Coincidence(said), "nominal") = 0
        BY AgreementAtMostOne, NothingObserved
    <2> HIDE DEF pa, pe
    <2>5. pa.num * pe.den - pe.num * pa.den = pa.den * (pe.den - pe.num) <=> pa.num = pa.den
        <3> DEFINE p == pa.num
                   q == pa.den
                   e == pe.num
                   d == pe.den
        <3>1. p \in Int /\ q \in Int /\ e \in Int /\ d \in Nat \ {0}
            BY <2>2, <2>3
        <3> HIDE DEF p, q, e, d
        <3>2. p * d - e * q = q * (d - e) <=> p = q
            BY <3>1, CoefficientIsOne
        <3> QED
            BY <3>2 DEF p, q, e, d
    <2> QED
        BY <2>1, <2>4, <2>5
<1> QED
    BY <1>1, <1>2, <1>5, <1>6 DEF AC1IsTheTextbook

-----------------------------------------------------------------------------
(* What the linearization is made of.                                      *)
LEMMA LinearizationIs ==
    ASSUME NEW said, Table(said)
    PROVE  LET U == UnitsFrom(said)
               n == Cardinality(U)
               mean == MeanShare(said)
               B == n * ShareCommon
               x == Linearization(said)
           IN  /\ x.a = [c \in U |-> OfPairs(said[c], Cardinality(Alike(said[c])))]
               /\ x.all = Sum(x.a, U) /\ x.aUnit = PairCommon
               /\ x.b = [c \in U |-> Sum([k \in Scale |-> (n * ShareWithin(said, c, k)) * (B - mean[k])], Scale)]
               /\ x.chance = Sum([k \in Scale |-> mean[k] * (B - mean[k])], Scale)
               /\ x.bUnit = ((B * n) * ShareCommon) * (Cardinality(Scale) - 1)
<1> DEFINE U == UnitsFrom(said)
           n == Cardinality(U)
           mean == MeanShare(said)
           B == n * ShareCommon
           x == Linearization(said)
           rest == [k \in Scale |-> B - mean[k]]
           a == [c \in U |-> OfPairs(said[c], AlikeByVerdict(said, c))]
           b == [c \in U |-> SumFunction([k \in Scale |-> (n * ShareWithin(said, c, k)) * rest[k]])]
<1>1. /\ x.a = a /\ x.all = SumFunction(a) /\ x.aUnit = PairCommon
      /\ x.b = b
      /\ x.chance = SumFunction([k \in Scale |-> mean[k] * rest[k]])
      /\ x.bUnit = ((B * n) * ShareCommon) * (Cardinality(Scale) - 1)
    BY DEF Linearization
<1>2. a = [c \in U |-> OfPairs(said[c], Cardinality(Alike(said[c])))]
    <2>1. \A c \in U : AlikeByVerdict(said, c) = Cardinality(Alike(said[c]))
        BY AlikeInUnit
    <2> QED
        BY <2>1
<1>3. SumFunction(a) = Sum(a, U)
    BY SumFunctionIs
<1>4. b = [c \in U |-> Sum([k \in Scale |-> (n * ShareWithin(said, c, k)) * (B - mean[k])], Scale)]
    <2>1. ASSUME NEW c \in U
          PROVE  SumFunction([k \in Scale |-> (n * ShareWithin(said, c, k)) * rest[k]])
                   = Sum([k \in Scale |-> (n * ShareWithin(said, c, k)) * (B - mean[k])], Scale)
        <3>1. [k \in Scale |-> (n * ShareWithin(said, c, k)) * rest[k]]
                = [k \in Scale |-> (n * ShareWithin(said, c, k)) * (B - mean[k])]
            OBVIOUS
        <3>2. SumFunction([k \in Scale |-> (n * ShareWithin(said, c, k)) * (B - mean[k])])
                = Sum([k \in Scale |-> (n * ShareWithin(said, c, k)) * (B - mean[k])], Scale)
            BY SumFunctionIs
        <3> QED
            BY <3>1, <3>2
    <2> QED
        BY <2>1
<1>5. SumFunction([k \in Scale |-> mean[k] * rest[k]]) = Sum([k \in Scale |-> mean[k] * (B - mean[k])], Scale)
    <2>1. [k \in Scale |-> mean[k] * rest[k]] = [k \in Scale |-> mean[k] * (B - mean[k])]
        OBVIOUS
    <2>2. SumFunction([k \in Scale |-> mean[k] * (B - mean[k])]) = Sum([k \in Scale |-> mean[k] * (B - mean[k])], Scale)
        BY SumFunctionIs
    <2> QED
        BY <2>1, <2>2
<1> HIDE DEF x, a, b
<1> QED
    BY <1>1, <1>2, <1>3, <1>4, <1>5 DEF x

(* shared/metrics.ts:334: the shares of a unit make a whole.               *)
LEMMA SharesOfUnit ==
    ASSUME NEW said, Table(said), NEW c \in UnitsFrom(said)
    PROVE  /\ \A k \in Scale : ShareWithin(said, c, k) \in Nat
           /\ Sum([k \in Scale |-> ShareWithin(said, c, k)], Scale) = ShareCommon
<1> DEFINE n == Cardinality(Counting(said[c]))
           q == ShareCommon \div n
           shares == [k \in Scale |-> ShareWithin(said, c, k)]
           saying == [k \in Scale |-> Cardinality(Saying(said[c], k))]
<1>1. said[c] \in Says /\ n \in 2..Cardinality(Raters) /\ Cardinality(Raters) \in Nat
    BY UnitsAre, RatersAndScale
<1>2. ShareCommon = n * q /\ q \in Nat \ {0} /\ n \in Nat
    <2>1. n \in 1..Cardinality(Raters) /\ n \in Nat
        BY <1>1
    <2> QED
        BY <2>1, CommonShareOfAll
<1>3. n = Sum(saying, Scale)
    BY <1>1, CountingByVerdict
<1>4. \A k \in Scale : Tally(said, c, k) = Cardinality(Saying(said[c], k)) /\ Tally(said, c, k) \in Nat
    BY TallyIs
<1>5. \A k \in Scale : shares[k] = Tally(said, c, k) * q
    BY DEF ShareWithin
<1>6. \A k \in Scale : shares[k] = q * saying[k] /\ saying[k] \in Nat /\ shares[k] \in Nat
    <2>1. \A k \in Scale : saying[k] = Tally(said, c, k)
        BY <1>4
    <2> HIDE DEF shares, saying, q
    <2> QED
        BY <1>2, <1>4, <1>5, <2>1
<1>7. IsFiniteSet(Scale)
    BY RatersAndScale
<1>8. Sum(shares, Scale) = q * Sum(saying, Scale)
    <2>1. q \in Int /\ \A k \in Scale : shares[k] = q * saying[k] /\ saying[k] \in Int
        BY <1>2, <1>6
    <2> HIDE DEF shares, saying, q
    <2> QED
        BY <1>7, <2>1, SumScale
<1>9. Sum(shares, Scale) = ShareCommon
    <2> HIDE DEF shares, saying, q, n
    <2> QED
        BY <1>2, <1>3, <1>8
<1>10. \A k \in Scale : ShareWithin(said, c, k) \in Nat
    BY <1>6
<1> QED
    BY <1>9, <1>10

(* shared/metrics.ts:343: and so do their means, in units of n times that. *)
LEMMA MeanShares ==
    ASSUME NEW said, Table(said)
    PROVE  /\ \A k \in Scale : /\ MeanShare(said)[k] \in Nat
                               /\ MeanShare(said)[k] = Sum([c \in UnitsFrom(said) |-> ShareWithin(said, c, k)], UnitsFrom(said))
           /\ Sum(MeanShare(said), Scale) = Cardinality(UnitsFrom(said)) * ShareCommon
<1> DEFINE U == UnitsFrom(said)
           mean == MeanShare(said)
           M == [k \in Scale |-> [c \in U |-> ShareWithin(said, c, k)]]
           row == [k \in Scale |-> Sum(M[k], U)]
           col == [c \in U |-> Sum(Turned(M, Scale, U)[c], Scale)]
<1>0. IsFiniteSet(U) /\ IsFiniteSet(Scale) /\ Cardinality(U) \in Nat /\ ShareCommon \in Nat
    BY UnitsAre, RatersAndScale, CommonShareOfAll
<1>1. \A k \in Scale : mean[k] = Sum([c \in U |-> ShareWithin(said, c, k)], U)
    <2>1. ASSUME NEW k \in Scale PROVE mean[k] = Sum([c \in U |-> ShareWithin(said, c, k)], U)
        <3>1. mean[k] = SumFunction([c \in U |-> ShareWithin(said, c, k)])
            BY DEF MeanShare
        <3> QED
            BY <3>1, SumFunctionIs
    <2> QED
        BY <2>1
<1>2. \A k \in Scale, c \in U : M[k][c] \in Nat
    BY SharesOfUnit
<1>3. ASSUME NEW k \in Scale PROVE row[k] \in Nat /\ mean[k] = row[k]
    <2> DEFINE line == M[k]
    <2>1. \A c \in U : line[c] \in Nat
        BY <1>2
    <2>2. row[k] = Sum(line, U) /\ mean[k] = Sum(line, U)
        BY <1>1
    <2> HIDE DEF line, row, mean, U
    <2> QED
        BY <1>0, <2>1, <2>2, SumIsNat
<1>4. ASSUME NEW c \in U PROVE col[c] = ShareCommon
    <2>1. Turned(M, Scale, U)[c] = [k \in Scale |-> ShareWithin(said, c, k)]
        BY DEF Turned
    <2> QED
        BY <2>1, SharesOfUnit
<1>5. Sum(row, Scale) = Sum(col, U)
    <2>1. \A k \in Scale, c \in U : M[k][c] \in Int
        BY <1>2
    <2> HIDE DEF M, U
    <2>2. Twice(M, Scale, U) = Twice(Turned(M, Scale, U), U, Scale)
        BY <1>0, <2>1, Interchange
    <2> QED
        BY <2>2 DEF Twice
<1> HIDE DEF mean, row, col, U
<1>6. Sum(mean, Scale) = Sum(row, Scale)
    BY <1>0, <1>3, SumSame
<1>7. Sum(col, U) = ShareCommon * Cardinality(U)
    BY <1>0, <1>4, SumOfOne
<1>8. ShareCommon * Cardinality(U) = Cardinality(U) * ShareCommon
    BY <1>0
<1> QED
    BY <1>1, <1>3, <1>5, <1>6, <1>7, <1>8 DEF mean, U

(* (two ways to write a square)                                            *)
LEMMA SquareOfUnits ==
    ASSUME NEW n \in Int, NEW s \in Int, NEW k \in Int
    PROVE  (((n * s) * n) * s) * k = ((n * s) * (n * s)) * k
    OBVIOUS

(* shared/metrics.ts:350: chance agreement is below one here too.          *)
LEMMA LinearChance ==
    ASSUME NEW said, Table(said)
    PROVE  LET B == Cardinality(UnitsFrom(said)) * ShareCommon
               x == Linearization(said)
           IN  /\ B \in Nat /\ x.bUnit = (B * B) * (Cardinality(Scale) - 1)
               /\ x.chance \in Int /\ x.bUnit \in Int
               /\ UnitsFrom(said) # {} => x.chance < x.bUnit
<1> DEFINE U == UnitsFrom(said)
           n == Cardinality(U)
           B == n * ShareCommon
           K == Cardinality(Scale)
           mean == MeanShare(said)
           chance == Linearization(said).chance
           bUnit == Linearization(said).bUnit
<1>0. n \in Nat /\ ShareCommon \in Nat \ {0} /\ K \in Nat /\ K >= 2 /\ IsFiniteSet(Scale) /\ IsFiniteSet(U)
    BY UnitsAre, RatersAndScale, CommonShareOfAll
<1>1. B \in Nat /\ (n # 0 => B # 0)
    <2> HIDE DEF n
    <2> QED
        BY <1>0
<1>2. bUnit = (B * B) * (K - 1)
    <2>1. bUnit = ((B * n) * ShareCommon) * (K - 1)
        BY LinearizationIs
    <2>2. ShareCommon \in Int /\ n \in Int /\ K - 1 \in Int
        BY <1>0
    <2> HIDE DEF n, K, bUnit
    <2> QED
        BY <2>1, <2>2, SquareOfUnits
<1>3. (\A k \in Scale : mean[k] \in Nat) /\ Sum(mean, Scale) = B
    BY MeanShares
<1>4. chance = Sum([k \in Scale |-> mean[k] * (B - mean[k])], Scale)
    BY LinearizationIs
<1>5. U # {} => n # 0
    BY <1>0, FS_EmptySet
<1> HIDE DEF B, mean, n
<1>6. chance \in Int
    <2> DEFINE cells == [k \in Scale |-> mean[k] * (B - mean[k])]
    <2>1. ASSUME NEW k \in Scale PROVE mean[k] * (B - mean[k]) \in Int
        <3> DEFINE m == mean[k]
        <3>1. m \in Nat /\ B \in Nat
            BY <1>1, <1>3
        <3> HIDE DEF m
        <3>2. m * (B - m) \in Int
            BY <3>1
        <3> QED
            BY <3>2 DEF m
    <2>2. \A k \in Scale : cells[k] \in Int
        BY <2>1
    <2>3. chance = Sum(cells, Scale)
        BY <1>4
    <2> HIDE DEF cells, chance
    <2> QED
        BY <1>0, <2>2, <2>3, SumIsInt
<1>7. ASSUME U # {} PROVE chance < bUnit
    <2>1. B # 0
        BY <1>1, <1>5, <1>7
    <2> HIDE DEF chance, bUnit
    <2> QED
        BY <1>2, <1>3, <1>4, <2>1, ChanceBelowOne
<1>8. bUnit \in Int
    <2> HIDE DEF bUnit, K
    <2> QED
        BY <1>0, <1>1, <1>2
<1> QED
    BY <1>1, <1>2, <1>6, <1>7, <1>8 DEF B, n

(* shared/metrics.ts:369: what the cases agree by chance is in the mean    *)
(* the agreement by chance.                                                *)
LEMMA ChanceOfCases ==
    ASSUME NEW said, Table(said)
    PROVE  LET x == Linearization(said)
           IN  /\ \A c \in UnitsFrom(said) : x.b[c] \in Int
               /\ Sum(x.b, UnitsFrom(said)) = Cardinality(UnitsFrom(said)) * x.chance
<1> DEFINE U == UnitsFrom(said)
           n == Cardinality(U)
           B == n * ShareCommon
           mean == MeanShare(said)
           b == Linearization(said).b
           chance == Linearization(said).chance
           W(c, k) == ShareWithin(said, c, k)
           M == [c \in U |-> [k \in Scale |-> (n * W(c, k)) * (B - mean[k])]]
           row == [c \in U |-> Sum(M[c], Scale)]
           col == [k \in Scale |-> Sum(Turned(M, U, Scale)[k], U)]
           cells == [k \in Scale |-> mean[k] * (B - mean[k])]
<1>0. IsFiniteSet(U) /\ IsFiniteSet(Scale) /\ n \in Nat /\ B \in Nat
    BY UnitsAre, RatersAndScale, LinearChance
<1>1. b = [c \in U |-> Sum([k \in Scale |-> (n * W(c, k)) * (B - mean[k])], Scale)]
    BY LinearizationIs
<1>2. chance = Sum(cells, Scale)
    BY LinearizationIs
<1>3. /\ \A k \in Scale : mean[k] \in Nat /\ mean[k] = Sum([c \in U |-> W(c, k)], U)
      /\ \A c \in U, k \in Scale : W(c, k) \in Nat
    BY MeanShares, SharesOfUnit
<1> HIDE DEF U, n, B, mean, b, chance, W
<1>4. \A c \in U, k \in Scale : M[c][k] = (n * W(c, k)) * (B - mean[k]) /\ M[c][k] \in Int
    <2>1. ASSUME NEW c \in U, NEW k \in Scale PROVE (n * W(c, k)) * (B - mean[k]) \in Int
        <3> DEFINE w == W(c, k)
                   m == mean[k]
        <3>1. w \in Nat /\ m \in Nat /\ n \in Nat /\ B \in Nat
            BY <1>0, <1>3
        <3> HIDE DEF w, m
        <3>2. (n * w) * (B - m) \in Int
            BY <3>1
        <3> QED
            BY <3>2 DEF w, m
    <2> QED
        BY <2>1
<1>5. \A c \in U : b[c] = row[c] /\ row[c] \in Int
    <2>1. ASSUME NEW c \in U PROVE b[c] = row[c] /\ row[c] \in Int
        <3> DEFINE line == M[c]
        <3>1. line = [k \in Scale |-> (n * W(c, k)) * (B - mean[k])] /\ row[c] = Sum(line, Scale)
            OBVIOUS
        <3>2. \A k \in Scale : line[k] \in Int
            BY <1>4
        <3>3. b[c] = Sum(line, Scale)
            BY <1>1, <3>1
        <3> HIDE DEF line, row
        <3> QED
            BY <1>0, <3>1, <3>2, <3>3, SumIsInt
    <2> QED
        BY <2>1
<1>6. Sum(b, U) = Sum(row, U)
    <2> HIDE DEF row
    <2> QED
        BY <1>0, <1>5, SumSame
<1>7. Sum(row, U) = Sum(col, Scale)
    <2>1. \A c \in U, k \in Scale : M[c][k] \in Int
        BY <1>4
    <2> HIDE DEF M
    <2>2. Twice(M, U, Scale) = Twice(Turned(M, U, Scale), Scale, U)
        BY <1>0, <2>1, Interchange
    <2> QED
        BY <2>2 DEF Twice
<1>8. ASSUME NEW k \in Scale PROVE col[k] = n * cells[k] /\ cells[k] \in Int
    <2> DEFINE line == Turned(M, U, Scale)[k]
               shares == [c \in U |-> W(c, k)]
               r == B - mean[k]
               f == n * r
    <2>1. r \in Int /\ mean[k] \in Int /\ mean[k] = Sum(shares, U) /\ cells[k] = mean[k] * r
        BY <1>0, <1>3
    <2>2. \A c \in U : line[c] = (n * W(c, k)) * r /\ shares[c] = W(c, k) /\ shares[c] \in Int
        BY <1>3 DEF Turned
    <2>3. col[k] = Sum(line, U)
        OBVIOUS
    <2> HIDE DEF line, shares, r, col, cells
    <2>4. f \in Int /\ \A c \in U : line[c] = f * shares[c]
        BY <1>0, <2>1, <2>2
    <2>5. f * mean[k] = n * (mean[k] * r) /\ mean[k] * r \in Int
        BY <1>0, <2>1
    <2> HIDE DEF f
    <2>6. Sum(line, U) = f * Sum(shares, U)
        BY <1>0, <2>2, <2>4, SumScale
    <2> QED
        BY <2>1, <2>3, <2>5, <2>6
<1> HIDE DEF col, cells, row
<1>9. Sum(col, Scale) = n * Sum(cells, Scale)
    <2>1. n \in Int /\ IsFiniteSet(Scale)
        BY <1>0
    <2>2. \A k \in Scale : col[k] = n * cells[k] /\ cells[k] \in Int
        BY <1>8
    <2> QED
        BY <2>1, <2>2, SumScale
<1>10. Sum(b, U) = n * chance
    BY <1>2, <1>6, <1>7, <1>9
<1> QED
    BY <1>5, <1>10 DEF b, U, n, chance

(* (the value of a case, in two parts)                                     *)
LEMMA StarInParts ==
    ASSUME NEW n \in Int, NEW g \in Int, NEW d \in Int, NEW e \in Int, NEW f \in Int, NEW u \in Int
    PROVE  n * g * d - 2 * e * f * u = (n * d) * g + (0 - (2 * (e * u))) * f
<1>1. n * g * d = (n * d) * g
    OBVIOUS
<1>2. 2 * e * f * u = (2 * (e * u)) * f
    OBVIOUS
<1> DEFINE p == 2 * (e * u)
<1>3. p \in Int
    OBVIOUS
<1>4. (0 - p) * f = 0 - p * f
    <2> HIDE DEF p
    <2> QED
        BY <1>3
<1> DEFINE x == (n * d) * g
           y == p * f
<1>5. x \in Int /\ y \in Int
    <2> HIDE DEF p
    <2> QED
        BY <1>3
<1>6. n * g * d = x /\ 2 * e * f * u = y /\ (0 - (2 * (e * u))) * f = 0 - y
    BY <1>1, <1>2, <1>4
<1>7. x - y = x + (0 - y)
    <2> HIDE DEF x, y, p
    <2> QED
        BY <1>5
<1> HIDE DEF p
<1> QED
    BY <1>6, <1>7

(* The value of a case (shared/metrics.ts:368).                            *)
OneStar(n, a, b, all, ch, aU, bU) ==
    n * (a * bU - ch * aU) * (bU - ch) - 2 * (n * aU - all) * (b - ch) * bU
Stars(U, n, a, b, all, ch, aU, bU) == [c \in U |-> OneStar(n, a[c], b[c], all, ch, aU, bU)]

(* shared/metrics.ts:365: the linear part of the value of a case adds up   *)
(* to nothing, and the rest to n times the coefficient.                    *)
LEMMA StarsAddUp ==
    ASSUME NEW U, IsFiniteSet(U), NEW n \in Int, n = Cardinality(U),
           NEW a, NEW b, NEW aU \in Int, NEW bU \in Int, NEW ch \in Int, NEW all \in Int,
           \A c \in U : a[c] \in Int, \A c \in U : b[c] \in Int
    PROVE  Sum(a, U) = all /\ Sum(b, U) = n * ch
             => Sum(Stars(U, n, a, b, all, ch, aU, bU), U) = n * (all * bU - n * ch * aU) * (bU - ch)
<1> DEFINE star == Stars(U, n, a, b, all, ch, aU, bU)
           d == bU - ch
           e == n * aU - all
           k == ch * aU
           h == 0 - (2 * (e * bU))
           f == n * d
           G == Less(a, U, bU, k)
           F == Less(b, U, 1, ch)
<1>1. d \in Int /\ e \in Int /\ k \in Int /\ f \in Int /\ h \in Int
    <2>1. d \in Int /\ e \in Int /\ k \in Int
        OBVIOUS
    <2> HIDE DEF d, e, k
    <2> QED
        BY <2>1
<1>2. ASSUME NEW c \in U
      PROVE  /\ G[c] = a[c] * bU - k /\ G[c] \in Int /\ F[c] = b[c] * 1 - ch /\ F[c] \in Int
             /\ star[c] = f * G[c] + h * F[c]
    <2> DEFINE x == a[c]
               y == b[c]
               g == x * bU - k
               r == y * 1 - ch
    <2>1. x \in Int /\ y \in Int
        OBVIOUS
    <2>2. G[c] = g /\ F[c] = r
        BY DEF Less
    <2>3. star[c] = n * (x * bU - k) * d - 2 * e * (y - ch) * bU
        BY DEF OneStar, Stars
    <2>4. y - ch = r /\ g \in Int /\ r \in Int
        <3> HIDE DEF x, y, k
        <3> QED
            BY <1>1, <2>1
    <2>5. star[c] = n * g * d - 2 * e * r * bU
        <3> HIDE DEF x, y, k, d, e
        <3> QED
            BY <2>3, <2>4
    <2> HIDE DEF g, r, d, e
    <2>6. n * g * d - 2 * e * r * bU = (n * d) * g + (0 - (2 * (e * bU))) * r
        BY <1>1, <2>4, StarInParts
    <2>7. star[c] = f * g + h * r
        BY <2>5, <2>6
    <2> HIDE DEF G, F, f, h
    <2> QED
        BY <2>2, <2>4, <2>7 DEF g, r
<1> HIDE DEF d, e, k, h, f, G, F
<1>3. Sum(star, U) = f * Sum(G, U) + h * Sum(F, U)
    <2>1. star = Mix(U, f, G, h, F)
        <3>1. \A c \in U : star[c] = f * G[c] + h * F[c]
            BY <1>2
        <3>2. star = [c \in U |-> star[c]]
            BY DEF Stars
        <3> HIDE DEF star
        <3> QED
            BY <3>1, <3>2 DEF Mix
    <2>2. (\A c \in U : G[c] \in Int) /\ (\A c \in U : F[c] \in Int)
        BY <1>2
    <2>3. Sum(Mix(U, f, G, h, F), U) = f * Sum(G, U) + h * Sum(F, U)
        BY <1>1, <2>2, SumOfMultiples
    <2> HIDE DEF star
    <2> QED
        BY <2>1, <2>3
<1>4. Sum(G, U) = Sum(a, U) * bU - n * k /\ Sum(G, U) \in Int
    <2>1. Sum(G, U) = Sum(a, U) * bU - Cardinality(U) * k
        BY <1>1, SumLess DEF G
    <2>2. Sum(G, U) \in Int
        BY <1>2, SumIsInt
    <2> QED
        BY <2>1, <2>2
<1>5. Sum(F, U) = Sum(b, U) * 1 - n * ch
    <2>1. Sum(F, U) = Sum(b, U) * 1 - Cardinality(U) * ch
        BY SumLess DEF F
    <2> QED
        BY <2>1
<1>6. SUFFICES ASSUME Sum(a, U) = all, Sum(b, U) = n * ch
               PROVE  Sum(star, U) = n * (all * bU - n * ch * aU) * (bU - ch)
    OBVIOUS
<1>7. Sum(G, U) = all * bU - n * k /\ Sum(G, U) \in Int
    BY <1>4, <1>6
<1>8. Sum(F, U) = 0
    <2>1. Sum(F, U) = (n * ch) * 1 - n * ch
        BY <1>5, <1>6
    <2> DEFINE m == n * ch
    <2>2. m \in Int
        OBVIOUS
    <2> HIDE DEF m
    <2>3. m * 1 - m = 0
        BY <2>2
    <2> QED
        BY <2>1, <2>3 DEF m
<1>9. Sum(star, U) = f * Sum(G, U)
    BY <1>1, <1>3, <1>7, <1>8
<1> DEFINE z == all * bU - n * k
<1>10. z \in Int /\ Sum(star, U) = (n * d) * z
    BY <1>1, <1>7, <1>9 DEF f
<1>11. (n * d) * z = n * z * d
    <2> HIDE DEF z
    <2> QED
        BY <1>1, <1>10
<1>12. n * k = n * ch * aU
    BY DEF k
<1> QED
    BY <1>10, <1>11, <1>12 DEF d

(* shared/metrics.ts:339: where every unit has as many verdicts, the mean  *)
(* of the shares is the share in all that was said.                        *)
LEMMA SharesOfSameSize ==
    ASSUME NEW said, Table(said), UnitsFrom(said) # {},
           \A c, d \in UnitsFrom(said) : Cardinality(Counting(said[c])) = Cardinality(Counting(said[d]))
    PROVE  \E m \in Nat : \A k \in Scale : MeanShare(said)[k] = m * Prevalence(said)[k]
<1> DEFINE U == UnitsFrom(said)
<1>1. PICK d \in U : TRUE
    OBVIOUS
<1> DEFINE s == Cardinality(Counting(said[d]))
           m == ShareCommon \div s
<1>2. m \in Nat
    <2>1. s \in 2..Cardinality(Raters) /\ Cardinality(Raters) \in Nat
        BY UnitsAre, RatersAndScale
    <2>2. s \in 1..Cardinality(Raters)
        BY <2>1
    <2> QED
        BY <2>2, CommonShareOfAll
<1>3. ASSUME NEW k \in Scale PROVE MeanShare(said)[k] = m * Prevalence(said)[k]
    <2> DEFINE shares == [c \in U |-> ShareWithin(said, c, k)]
               tallies == [c \in U |-> Tally(said, c, k)]
    <2>1. MeanShare(said)[k] = Sum(shares, U)
        BY MeanShares
    <2>2. Prevalence(said)[k] = Sum(tallies, U)
        <3>1. Prevalence(said)[k] = SumFunction(tallies)
            BY DEF Prevalence
        <3> QED
            BY <3>1, SumFunctionIs
    <2>3. ASSUME NEW c \in U PROVE shares[c] = m * tallies[c] /\ tallies[c] \in Int
        <3>1. Tally(said, c, k) \in Nat
            BY TallyIs
        <3>2. Cardinality(Counting(said[c])) = s
            BY <1>1
        <3>3. shares[c] = tallies[c] * m /\ tallies[c] \in Nat
            BY <3>1, <3>2 DEF ShareWithin
        <3> HIDE DEF shares, tallies, m
        <3> QED
            BY <1>2, <3>3
    <2>4. IsFiniteSet(U) /\ m \in Int
        BY <1>2, UnitsAre
    <2> HIDE DEF shares, tallies, m, U
    <2>5. Sum(shares, U) = m * Sum(tallies, U)
        BY <2>3, <2>4, SumScale
    <2> QED
        BY <2>1, <2>2, <2>5
<1> QED
    BY <1>2, <1>3

(* (m of each of p and B is m m of the product)                            *)
LEMMA SquareComesOut ==
    ASSUME NEW m \in Int, NEW t \in Int, NEW all \in Int
    PROVE  (m * t) * (m * all - m * t) = (m * m) * (t * (all - t))
<1> DEFINE r == all - t
<1>1. r \in Int /\ m * all - m * t = m * r
    OBVIOUS
<1> HIDE DEF r
<1>2. (m * t) * (m * r) = (m * m) * (t * r)
    BY <1>1
<1> QED
    BY <1>1, <1>2 DEF r

(* So chance agreement is that of AC1.                                     *)
LEMMA ChanceOfSameSize ==
    ASSUME NEW said, Table(said), UnitsFrom(said) # {},
           \A c, d \in UnitsFrom(said) : Cardinality(Counting(said[c])) = Cardinality(Counting(said[d]))
    PROVE  Linearization(said).chance * Chance(said).den = Chance(said).num * Linearization(said).bUnit
<1> DEFINE U == UnitsFrom(said)
           B == Cardinality(U) * ShareCommon
           mean == MeanShare(said)
           times == Prevalence(said)
           all == Sum(times, Scale)
           K == Cardinality(Scale)
           num == Chance(said).num
           den == Chance(said).den
           chance == Linearization(said).chance
           bUnit == Linearization(said).bUnit
           cells == [k \in Scale |-> mean[k] * (B - mean[k])]
           parts == [k \in Scale |-> times[k] * (all - times[k])]
<1>1. PICK m \in Nat : \A k \in Scale : mean[k] = m * times[k]
    BY SharesOfSameSize
<1>2. IsFiniteSet(Scale) /\ K \in Nat
    BY RatersAndScale
<1>3. \A k \in Scale : times[k] \in Nat
    BY AllThatWasSaid
<1>4. Sum(mean, Scale) = B
    BY MeanShares
<1>5. chance = Sum(cells, Scale) /\ bUnit = (B * B) * (K - 1)
    BY LinearizationIs, LinearChance
<1>6. num = Sum(parts, Scale) /\ den = (all * all) * (K - 1)
    BY ChanceIs
<1> HIDE DEF U, B, mean, times, K, num, den, chance, bUnit
<1>7. all \in Int
    BY <1>2, <1>3, SumIsInt
<1>8. B = m * all
    <2>1. m \in Int /\ \A k \in Scale : mean[k] = m * times[k] /\ times[k] \in Int
        BY <1>1, <1>3
    <2> QED
        BY <1>2, <1>4, <2>1, SumScale
<1> HIDE DEF all
<1>9. ASSUME NEW k \in Scale PROVE cells[k] = (m * m) * parts[k] /\ parts[k] \in Int
    <2> DEFINE t == times[k]
    <2>1. t \in Int /\ mean[k] = m * t
        BY <1>1, <1>3
    <2>2. cells[k] = mean[k] * (B - mean[k]) /\ parts[k] = t * (all - t)
        OBVIOUS
    <2> HIDE DEF t, cells, parts
    <2>3. (m * t) * (m * all - m * t) = (m * m) * (t * (all - t)) /\ t * (all - t) \in Int
        BY <1>7, <2>1, SquareComesOut
    <2> QED
        BY <1>8, <2>1, <2>2, <2>3
<1> HIDE DEF cells, parts
<1> DEFINE mm == m * m
<1>10. mm \in Int
    OBVIOUS
<1>11. chance = mm * num /\ num \in Int
    <2>1. \A k \in Scale : cells[k] = mm * parts[k] /\ parts[k] \in Int
        BY <1>9
    <2> HIDE DEF mm
    <2>2. \A k \in Scale : parts[k] \in Int
        BY <1>9
    <2>3. IsFiniteSet(Scale)
        BY <1>2
    <2>4. Sum(parts, Scale) \in Int
        BY <2>2, <2>3, SumIsInt
    <2>5. Sum(cells, Scale) = mm * Sum(parts, Scale)
        BY <1>10, <2>1, <2>3, SumScale
    <2> QED
        BY <1>5, <1>6, <2>4, <2>5
<1>12. bUnit = mm * den /\ den \in Int
    <2>1. K - 1 \in Int
        BY <1>2
    <2> DEFINE K1 == K - 1
    <2> HIDE DEF K1
    <2>2. ((m * all) * (m * all)) * K1 = (m * m) * ((all * all) * K1) /\ (all * all) * K1 \in Int
        BY <1>7, <2>1 DEF K1
    <2> QED
        BY <1>5, <1>6, <1>8, <2>2 DEF K1
<1> HIDE DEF mm
<1>13. (mm * num) * den = num * (mm * den)
    BY <1>10, <1>11, <1>12
<1> QED
    BY <1>11, <1>12, <1>13 DEF num, den, chance, bUnit

(* shared/metrics.ts:328: the variance is that of the coefficient.         *)
LEMMA VarianceTextbook == ASSUME NEW said, Table(said) PROVE VarianceIsTheTextbook(said)
<1> DEFINE U == UnitsFrom(said)
           n == Cardinality(U)
           few == n < MinUnits
           x == Linearization(said)
<1>0. IsFiniteSet(U) /\ n \in Nat /\ MinUnits \in Nat \ {0} /\ Cardinality(Scale) \in Nat /\ Cardinality(Scale) >= 2
    <2>1. IsFiniteSet(U) /\ n \in Nat
        BY UnitsAre
    <2>2. Cardinality(Scale) \in Nat /\ Cardinality(Scale) >= 2
        BY RatersAndScale
    <2> QED
        BY <2>1, <2>2, ScaleIsRanked
<1>1. AgreementStats(said).units = n
    BY DEF AgreementStats
<1>2. ~few => U # {}
    <2>1. Cardinality({}) = 0
        BY FS_EmptySet
    <2> QED
        BY <1>0, <2>1
<1>3. x.chance \in Int /\ x.bUnit \in Int /\ (U # {} => x.chance < x.bUnit)
    BY LinearChance
<1>4. VarianceWithheld(said) <=> few
    <2>1. VarianceWithheld(said) <=> few \/ Cardinality(Scale) < 2 \/ x.chance >= x.bUnit
        BY DEF VarianceWithheld
    <2> HIDE DEF x
    <2> QED
        BY <1>0, <1>2, <1>3, <2>1
<1>5. SumFunction(Starred(said)) = n * (x.all * x.bUnit - n * x.chance * x.aUnit) * (x.bUnit - x.chance)
    <2> DEFINE a == x.a
               b == x.b
               all == x.all
               ch == x.chance
               aU == x.aUnit
               bU == x.bUnit
               star == Starred(said)
    <2>1. star = [c \in U |-> n * (a[c] * bU - ch * aU) * (bU - ch) - 2 * (n * aU - all) * (b[c] - ch) * bU]
        BY DEF Starred
    <2>2. a = [c \in U |-> OfPairs(said[c], Cardinality(Alike(said[c])))] /\ all = Sum(a, U) /\ aU = PairCommon
        BY LinearizationIs
    <2>3. \A c \in U : a[c] \in Int
        <3>1. \A c \in U : OfPairs(said[c], Cardinality(Alike(said[c]))) \in Nat
            BY AgreementInUnit
        <3> HIDE DEF a, U
        <3> QED
            BY <2>2, <3>1
    <2>4. (\A c \in U : b[c] \in Int) /\ Sum(b, U) = n * ch
        BY ChanceOfCases
    <2>5. aU \in Int
        BY <2>2, PairShares
    <2>6. SumFunction(star) = Sum(star, U)
        <3>1. DOMAIN star = U
            BY <2>1
        <3> HIDE DEF star, U
        <3> QED
            BY <3>1, SumFunctionIs
    <2>7. star = Stars(U, n, a, b, all, ch, aU, bU)
        BY <2>1 DEF OneStar, Stars
    <2>8. ch \in Int /\ bU \in Int
        BY <1>3
    <2> HIDE DEF a, b, all, ch, aU, bU, star, U
    <2>9. all \in Int
        BY <1>0, <2>2, <2>3, SumIsInt
    <2>10. Sum(star, U) = n * (all * bU - n * ch * aU) * (bU - ch)
        <3>1. n \in Int /\ Sum(a, U) = all
            BY <1>0, <2>2
        <3>2. (\A c \in U : a[c] \in Int) /\ (\A c \in U : b[c] \in Int)
            BY <2>3, <2>4
        <3>3. IsFiniteSet(U) /\ Sum(b, U) = n * ch /\ n = Cardinality(U)
            BY <1>0, <2>4
        <3> HIDE DEF n
        <3>4. Sum(Stars(U, n, a, b, all, ch, aU, bU), U) = n * (all * bU - n * ch * aU) * (bU - ch)
            BY <2>5, <2>8, <2>9, <3>1, <3>2, <3>3, StarsAddUp
        <3> QED
            BY <2>7, <3>4
    <2> QED
        BY <2>6, <2>10 DEF all, bU, ch, aU, star
<1>6. ASSUME ~few, SameSize(said) PROVE x.chance * Chance(said).den = Chance(said).num * x.bUnit
    BY <1>2, <1>6, ChanceOfSameSize DEF SameSize
<1> QED
    BY <1>1, <1>4, <1>5, <1>6 DEF VarianceIsTheTextbook

-----------------------------------------------------------------------------
(* A couple is two raters.                                                 *)
LEMMA CouplesAre ==
    /\ Couples = {ab \in SUBSET Raters : \E x, y \in Raters : x # y /\ ab = {x, y}}
    /\ IsFiniteSet(Couples) /\ Cardinality(Couples) \in Nat
<1>0. IsFiniteSet(Raters)
    BY RatersAndScale
<1>1. ASSUME NEW ab \in SUBSET Raters, Cardinality(ab) = 2
      PROVE  \E x, y \in Raters : x # y /\ ab = {x, y}
    <2>1. IsFiniteSet(ab)
        BY <1>0, FS_Subset
    <2>2. PICK x : x \in ab
        BY <1>1, FS_EmptySet
    <2>3. IsFiniteSet(ab \ {x}) /\ Cardinality(ab \ {x}) = 1
        BY <1>1, <2>1, <2>2, FS_RemoveElement
    <2>4. PICK y : ab \ {x} = {y}
        BY <2>3, FS_Singleton
    <2>5. x \in Raters /\ y \in Raters /\ x # y /\ ab = {x, y}
        BY <2>2, <2>4
    <2> QED
        BY <2>5
<1>2. ASSUME NEW x \in Raters, NEW y \in Raters, x # y PROVE Cardinality({x, y}) = 2
    <2>1. IsFiniteSet({x}) /\ Cardinality({x}) = 1
        BY FS_Singleton
    <2>2. Cardinality({x} \cup {y}) = 1 + 1
        BY <1>2, <2>1, FS_AddElement
    <2>3. {x} \cup {y} = {x, y}
        OBVIOUS
    <2> QED
        BY <2>2, <2>3
<1>3. IsFiniteSet(SUBSET Raters) /\ Couples \in SUBSET (SUBSET Raters)
    BY <1>0, FS_SUBSET DEF Couples
<1>4. IsFiniteSet(Couples)
    BY <1>3, FS_Subset
<1> QED
    BY <1>1, <1>2, <1>4, FS_CardinalityType DEF Couples

(* Whether the two of a couple said the same.                              *)
AgreeOn(by, ab) == \E v \in Scale : \A g \in ab : by[g] = v

(* shared/metrics.ts:38: a pair that agrees is there twice, once in each   *)
(* order.                                                                  *)
LEMMA AlikeIsTwice ==
    ASSUME NEW by \in Says
    PROVE  LET alike == {ab \in Couples : AgreeOn(by, ab)}
           IN  Cardinality(Alike(by)) = 2 * Cardinality(alike) /\ Cardinality(alike) \in Nat
<1> DEFINE A == Alike(by)
           alike == {ab \in Couples : AgreeOn(by, ab)}
<1>0. IsFiniteSet(Raters) /\ IsFiniteSet(Couples)
    BY RatersAndScale, CouplesAre
<1>1. A \in SUBSET (Raters \X Raters)
    BY DEF Alike, Counting
<1>2. \A p \in A : p[1] # p[2] /\ <<p[2], p[1]>> \in A
    BY DEF Alike
<1>3. Unordered(A) = alike
    <2>1. ASSUME NEW p \in A PROVE {p[1], p[2]} \in alike
        <3>1. p[1] \in Raters /\ p[2] \in Raters /\ p[1] # p[2] /\ by[p[1]] \in Scale /\ by[p[1]] = by[p[2]]
            BY DEF Alike, Counting
        <3>2. {p[1], p[2]} \in Couples
            BY <3>1, CouplesAre
        <3>3. AgreeOn(by, {p[1], p[2]})
            BY <3>1 DEF AgreeOn
        <3> QED
            BY <3>2, <3>3
    <2>2. ASSUME NEW ab \in alike PROVE \E p \in A : ab = {p[1], p[2]}
        <3>1. PICK x \in Raters, y \in Raters : x # y /\ ab = {x, y}
            BY CouplesAre
        <3>2. PICK v \in Scale : by[x] = v /\ by[y] = v
            BY <3>1 DEF AgreeOn
        <3>3. <<x, y>> \in A /\ <<x, y>>[1] = x /\ <<x, y>>[2] = y
            BY <3>1, <3>2 DEF Alike, Counting
        <3> QED
            BY <3>1, <3>3
    <2> HIDE DEF A, alike
    <2> QED
        BY <2>1, <2>2 DEF Unordered
<1> HIDE DEF A
<1>4. Cardinality(A) = 2 * Cardinality(Unordered(A))
    BY <1>0, <1>1, <1>2, TwoPairsEach
<1>5. Cardinality(alike) \in Nat
    <2>1. alike \in SUBSET Couples
        OBVIOUS
    <2> HIDE DEF alike
    <2> QED
        BY <1>0, <2>1, FS_Subset, FS_CardinalityType
<1> QED
    BY <1>3, <1>4, <1>5 DEF A

(* shared/metrics.ts:134: the raters who count in a case make half as many *)
(* couples as pairs.                                                       *)
LEMMA CouplesAreHalf ==
    ASSUME NEW by \in Says
    PROVE  LET within == {ab \in Couples : ab \subseteq Counting(by)}
           IN  Cardinality(Counting(by)) * (Cardinality(Counting(by)) - 1) = 2 * Cardinality(within)
<1> DEFINE K == Counting(by)
           E == {p \in K \X K : p[1] # p[2]}
           within == {ab \in Couples : ab \subseteq K}
<1>0. IsFiniteSet(K) /\ K \in SUBSET Raters
    BY CountingByVerdict DEF Counting
<1> HIDE DEF K
<1>1. E \in SUBSET (K \X K) /\ \A p \in E : p[1] # p[2] /\ <<p[2], p[1]>> \in E
    OBVIOUS
<1>2. Unordered(E) = within
    <2>1. ASSUME NEW p \in E PROVE {p[1], p[2]} \in within
        <3>1. p[1] \in K /\ p[2] \in K /\ p[1] # p[2]
            OBVIOUS
        <3>2. {p[1], p[2]} \in Couples
            BY <1>0, <3>1, CouplesAre
        <3> QED
            BY <3>1, <3>2
    <2>2. ASSUME NEW ab \in within PROVE \E p \in E : ab = {p[1], p[2]}
        <3>1. PICK x \in Raters, y \in Raters : x # y /\ ab = {x, y}
            BY CouplesAre
        <3>2. x \in K /\ y \in K
            BY <3>1
        <3>3. <<x, y>> \in E /\ <<x, y>>[1] = x /\ <<x, y>>[2] = y
            BY <3>1, <3>2
        <3> QED
            BY <3>1, <3>3
    <2> HIDE DEF E, within
    <2> QED
        BY <2>1, <2>2 DEF Unordered
<1>3. Cardinality(E) = Cardinality(K) * (Cardinality(K) - 1)
    BY <1>0, PairsOfDistinct
<1> HIDE DEF E, within
<1>4. Cardinality(E) = 2 * Cardinality(Unordered(E))
    BY <1>0, <1>1, TwoPairsEach
<1> QED
    BY <1>2, <1>3, <1>4 DEF K, within

(* shared/metrics.ts:140: what the couples compare and agree on, counted   *)
(* by case.                                                                *)
LEMMA RatesOfCouples ==
    ASSUME NEW said, Table(said)
    PROVE  LET U == UnitsFrom(said)
               pairwise == AgreementStats(said).pairwise
               within == [c \in U |-> Cardinality({ab \in Couples : ab \subseteq Counting(said[c])})]
               alike == [c \in U |-> Cardinality({ab \in Couples : AgreeOn(said[c], ab)})]
           IN  /\ SumFunction([ab \in Couples |-> pairwise[ab].compared]) = Sum(within, U)
               /\ SumFunction([ab \in Couples |-> pairwise[ab].agreed]) = Sum(alike, U)
               /\ \A c \in U : within[c] \in Nat /\ alike[c] \in Nat
<1> DEFINE U == UnitsFrom(said)
           pairwise == AgreementStats(said).pairwise
           within == [c \in U |-> Cardinality({ab \in Couples : ab \subseteq Counting(said[c])})]
           alike == [c \in U |-> Cardinality({ab \in Couples : AgreeOn(said[c], ab)})]
           compared == [ab \in Couples |-> pairwise[ab].compared]
           agreed == [ab \in Couples |-> pairwise[ab].agreed]
           Both == {p \in Couples \X U : p[1] \subseteq Counting(said[p[2]])}
           Same == {p \in Couples \X U : AgreeOn(said[p[2]], p[1])}
           InBoth(ab) == {c \in U : <<ab, c>> \in Both}
           InSame(ab) == {c \in U : <<ab, c>> \in Same}
           OfBoth(c) == {ab \in Couples : <<ab, c>> \in Both}
           OfSame(c) == {ab \in Couples : <<ab, c>> \in Same}
<1>0. IsFiniteSet(U) /\ IsFiniteSet(Couples)
    BY UnitsAre, CouplesAre
<1>1. ASSUME NEW ab \in Couples
      PROVE  {c \in DOMAIN said : \A g \in ab : said[c][g] \in Scale} = InBoth(ab)
    <2>1. ab \in SUBSET Raters /\ Cardinality(ab) = 2
        BY DEF Couples
    <2>2. ASSUME NEW c \in InBoth(ab) PROVE c \in DOMAIN said /\ \A g \in ab : said[c][g] \in Scale
        <3>1. c \in U /\ ab \subseteq Counting(said[c])
            OBVIOUS
        <3>2. c \in DOMAIN said
            BY <3>1 DEF UnitsFrom
        <3> QED
            BY <3>1, <3>2 DEF Counting
    <2>3. ASSUME NEW c \in DOMAIN said, \A g \in ab : said[c][g] \in Scale PROVE c \in InBoth(ab)
        <3>1. ab \in SUBSET Counting(said[c])
            BY <2>1, <2>3 DEF Counting
        <3>2. said[c] \in Says
            BY UnitsAre
        <3>3. IsFiniteSet(Counting(said[c])) /\ Cardinality(Counting(said[c])) \in 0..Cardinality(Raters)
            BY <3>2, CountingByVerdict
        <3>4. Cardinality(ab) <= Cardinality(Counting(said[c]))
            BY <3>1, <3>3, FS_Subset
        <3>5. Cardinality(Counting(said[c])) >= 2
            BY <2>1, <3>3, <3>4
        <3>6. c \in U
            BY <3>5 DEF UnitsFrom
        <3> QED
            BY <3>1, <3>6
    <2> HIDE DEF InBoth
    <2> QED
        BY <2>2, <2>3
<1>2. ASSUME NEW ab \in Couples
      PROVE  {c \in InBoth(ab) : \E v \in Scale : \A g \in ab : said[c][g] = v} = InSame(ab)
    <2>1. ab \in SUBSET Raters
        BY DEF Couples
    <2>2. ASSUME NEW c \in U PROVE AgreeOn(said[c], ab) => ab \subseteq Counting(said[c])
        BY <2>1 DEF AgreeOn, Counting
    <2> HIDE DEF U
    <2> QED
        BY <2>2 DEF AgreeOn
<1>3. ASSUME NEW ab \in Couples
      PROVE  compared[ab] = Cardinality(InBoth(ab)) /\ agreed[ab] = Cardinality(InSame(ab))
    <2> DEFINE both == {c \in DOMAIN said : \A g \in ab : said[c][g] \in Scale}
    <2>1. /\ compared[ab] = Cardinality(both)
          /\ agreed[ab] = Cardinality({c \in both : \E v \in Scale : \A g \in ab : said[c][g] = v})
        BY DEF AgreementStats
    <2>2. both = InBoth(ab)
        BY <1>1
    <2>3. {c \in both : \E v \in Scale : \A g \in ab : said[c][g] = v} = InSame(ab)
        <3> HIDE DEF both, InBoth, InSame
        <3> QED
            BY <1>2, <2>2
    <2> HIDE DEF both, compared, agreed, InBoth, InSame
    <2> QED
        BY <2>1, <2>2, <2>3
<1>4. ASSUME NEW c \in U
      PROVE  OfBoth(c) = {ab \in Couples : ab \subseteq Counting(said[c])} /\ OfSame(c) = {ab \in Couples : AgreeOn(said[c], ab)}
    <2> HIDE DEF U
    <2> QED
        OBVIOUS
<1>5. /\ compared = [ab \in Couples |-> Cardinality(InBoth(ab))]
      /\ agreed = [ab \in Couples |-> Cardinality(InSame(ab))]
    <2> HIDE DEF InBoth, InSame, pairwise
    <2> QED
        BY <1>3
<1>6. /\ within = [c \in U |-> Cardinality(OfBoth(c))]
      /\ alike = [c \in U |-> Cardinality(OfSame(c))]
    <2> HIDE DEF OfBoth, OfSame, U
    <2> QED
        BY <1>4
<1>7. SumFunction(compared) = Sum(compared, Couples) /\ SumFunction(agreed) = Sum(agreed, Couples)
    <2>1. DOMAIN compared = Couples /\ DOMAIN agreed = Couples
        OBVIOUS
    <2> HIDE DEF compared, agreed
    <2> QED
        BY <2>1, SumFunctionIs
<1> HIDE DEF compared, agreed, within, alike, Both, Same, U
<1>8. Sum(compared, Couples) = Sum(within, U) /\ \A c \in U : within[c] \in Nat
    <2> DEFINE rows == [ab \in Couples |-> Cardinality({c \in U : <<ab, c>> \in Both})]
               cols == [c \in U |-> Cardinality({ab \in Couples : <<ab, c>> \in Both})]
    <2>1. compared = rows /\ within = cols
        BY <1>5, <1>6
    <2>2. Sum(rows, Couples) = Sum(cols, U) /\ \A c \in U : cols[c] \in Nat
        BY <1>0, CountedBothWays
    <2> HIDE DEF rows, cols
    <2> QED
        BY <2>1, <2>2
<1>9. Sum(agreed, Couples) = Sum(alike, U) /\ \A c \in U : alike[c] \in Nat
    <2> DEFINE rows == [ab \in Couples |-> Cardinality({c \in U : <<ab, c>> \in Same})]
               cols == [c \in U |-> Cardinality({ab \in Couples : <<ab, c>> \in Same})]
    <2>1. agreed = rows /\ alike = cols
        BY <1>5, <1>6
    <2>2. Sum(rows, Couples) = Sum(cols, U) /\ \A c \in U : cols[c] \in Nat
        BY <1>0, CountedBothWays
    <2> HIDE DEF rows, cols
    <2> QED
        BY <2>1, <2>2
<1> QED
    BY <1>7, <1>8, <1>9 DEF compared, agreed, within, alike, U

(* (the rates and their mean)                                              *)
LEMMA RateAlgebra ==
    ASSUME NEW s \in Int, NEW c \in Int, NEW q \in Int, NEW u \in Int
    PROVE  s * (((2 * c) * q) * u) = (c * u) * ((2 * q) * s)
    OBVIOUS

(* shared/metrics.ts:48, 140: where every case has as many verdicts, their *)
(* mean is the observed agreement.                                         *)
LEMMA RatesMean ==
    ASSUME NEW said, Table(said), SameSize(said)
    PROVE  LET stats == AgreementStats(said)
           IN  SumFunction([ab \in Couples |-> stats.pairwise[ab].agreed]) * stats.observed.den
                 = SumFunction([ab \in Couples |-> stats.pairwise[ab].compared]) * stats.observed.num
<1> DEFINE U == UnitsFrom(said)
           n == Cardinality(U)
           pairwise == AgreementStats(said).pairwise
           compared == SumFunction([ab \in Couples |-> pairwise[ab].compared])
           agreed == SumFunction([ab \in Couples |-> pairwise[ab].agreed])
           within == [c \in U |-> Cardinality({ab \in Couples : ab \subseteq Counting(said[c])})]
           alike == [c \in U |-> Cardinality({ab \in Couples : AgreeOn(said[c], ab)})]
           num == ObservedAgreement(said).num
           den == ObservedAgreement(said).den
           parts == [c \in U |-> OfPairs(said[c], Cardinality(Alike(said[c])))]
           Size(c) == Cardinality(Counting(said[c]))
           Unit(c) == PairCommon \div (Size(c) * (Size(c) - 1))
<1>0. IsFiniteSet(U) /\ n \in Nat
    BY UnitsAre
<1>1. compared = Sum(within, U) /\ agreed = Sum(alike, U) /\ \A c \in U : within[c] \in Nat /\ alike[c] \in Nat
    BY RatesOfCouples
<1>2. num = Sum(parts, U) /\ den = PairCommon * n /\ num \in Nat /\ PairCommon \in Nat
    <2>1. num = SumFunction(parts)
        BY DEF ObservedAgreement
    <2>2. SumFunction(parts) = Sum(parts, U)
        BY SumFunctionIs
    <2>3. den = PairCommon * n /\ num \in Nat
        BY AgreementAtMostOne
    <2>4. PairCommon \in Nat
        BY PairShares
    <2> HIDE DEF num, den, parts
    <2> QED
        BY <2>1, <2>2, <2>3, <2>4
<1>3. ASSUME NEW c \in U
      PROVE  /\ parts[c] = (2 * alike[c]) * Unit(c) /\ PairCommon = (2 * within[c]) * Unit(c) /\ Unit(c) \in Nat
             /\ Size(c) \in Nat /\ Size(c) * (Size(c) - 1) = 2 * within[c]
    <2> DEFINE a == Cardinality(Alike(said[c]))
               all == Size(c) * (Size(c) - 1)
    <2>1. said[c] \in Says /\ Size(c) \in Nat
        BY UnitsAre
    <2>2. /\ OfPairs(said[c], a) = a * (PairCommon \div all)
          /\ PairCommon = all * (PairCommon \div all) /\ PairCommon \div all \in Nat
        BY AgreementInUnit
    <2>3. a = 2 * alike[c]
        BY <2>1, AlikeIsTwice
    <2>4. all = 2 * within[c]
        BY <2>1, CouplesAreHalf
    <2>5. parts[c] = OfPairs(said[c], a) /\ Unit(c) = PairCommon \div all
        OBVIOUS
    <2> HIDE DEF parts, a, Unit, within, alike
    <2> QED
        BY <2>1, <2>2, <2>3, <2>4, <2>5
<1>4. \A c, d \in U : Size(c) = Size(d)
    BY DEF SameSize
<1>5. ASSUME NEW c \in U, NEW d \in U PROVE Unit(c) = Unit(d)
    BY <1>4
<1> HIDE DEF U, n, within, alike, parts, num, den, compared, agreed, pairwise, Unit, Size
<1>6. agreed \in Int
    BY <1>0, <1>1, SumIsNat
<1>7. agreed * den = compared * num
    <2>1. CASE U = {}
        <3>1. n = 0 /\ agreed = 0 /\ compared = 0
            BY <1>1, <2>1, FS_EmptySet, SumOfNone DEF n
        <3>2. den = 0
            BY <1>2, <3>1
        <3> QED
            BY <1>2, <3>1, <3>2
    <2>2. CASE U # {}
        <3>1. PICK d \in U : TRUE
            BY <2>2
        <3> DEFINE q == Unit(d)
                   C == within[d]
                   f == 2 * q
        <3>2. q \in Nat /\ C \in Nat /\ f \in Int /\ PairCommon = (2 * C) * q
            BY <1>1, <1>3
        <3>3. ASSUME NEW c \in U PROVE within[c] = C /\ parts[c] = f * alike[c] /\ alike[c] \in Int
            <4> DEFINE x == alike[c]
                       w == within[c]
            <4>1. parts[c] = (2 * x) * q /\ x \in Int
                BY <1>1, <1>3, <1>5
            <4>2. Size(c) * (Size(c) - 1) = 2 * w /\ Size(c) * (Size(c) - 1) = 2 * C /\ w \in Nat
                <5>1. Size(c) * (Size(c) - 1) = 2 * w /\ w \in Nat
                    BY <1>1, <1>3
                <5>2. Size(d) * (Size(d) - 1) = 2 * C
                    BY <1>3
                <5>3. Size(c) = Size(d)
                    BY <1>4
                <5> QED
                    BY <5>1, <5>2, <5>3
            <4> HIDE DEF x, w, q, C
            <4>3. (2 * x) * q = (2 * q) * x
                BY <3>2, <4>1
            <4>4. w = C
                <5>1. 2 * w = 2 * C
                    BY <4>2
                <5> QED
                    BY <3>2, <4>2, <5>1
            <4> QED
                BY <4>1, <4>3, <4>4 DEF x, w
        <3> HIDE DEF q, C
        <3>4. num = f * agreed
            <4>1. \A c \in U : parts[c] = f * alike[c] /\ alike[c] \in Int
                BY <3>3
            <4> HIDE DEF f
            <4>2. Sum(parts, U) = f * Sum(alike, U)
                BY <1>0, <3>2, <4>1, SumScale
            <4> QED
                BY <1>1, <1>2, <4>2
        <3>5. compared = C * n
            <4>1. C \in Int /\ \A c \in U : within[c] = C
                BY <3>2, <3>3
            <4>2. Sum(within, U) = C * Cardinality(U)
                BY <1>0, <4>1, SumOfOne
            <4> QED
                BY <1>1, <4>2 DEF n
        <3>6. den = ((2 * C) * q) * n
            BY <1>2, <3>2
        <3>7. agreed * (((2 * C) * q) * n) = (C * n) * ((2 * q) * agreed)
            BY <1>0, <1>6, <3>2, RateAlgebra
        <3> QED
            BY <3>4, <3>5, <3>6, <3>7
    <2> QED
        BY <2>1, <2>2
<1>8. AgreementStats(said).observed = ObservedAgreement(said)
    BY DEF AgreementStats
<1> QED
    BY <1>7, <1>8 DEF compared, agreed, num, den, pairwise

(* shared/metrics.ts:235: all is filled and nobody abstains just where     *)
(* everybody counts everywhere.                                            *)
LEMMA CoverageIsFull ==
    ASSUME NEW said, Table(said)
    PROVE  {c \in DOMAIN said : Counting(said[c]) = Raters} = DOMAIN said <=>
             /\ CoverageStats(said).filled = CoverageStats(said).items * Cardinality(Raters)
             /\ CoverageStats(said).abstentions = 0
<1> DEFINE D == DOMAIN said
           R == Cardinality(Raters)
           Filled(c) == {g \in Raters : said[c][g] # NoVote}
           Abstaining(c) == {g \in Raters : said[c][g] = ABSTAIN}
           fill == [c \in D |-> Cardinality(Filled(c))]
           abst == [c \in D |-> Cardinality(Abstaining(c))]
           whole == [c \in D |-> R]
           stats == CoverageStats(said)
<1>0. IsFiniteSet(D) /\ Cardinality(D) \in Nat /\ IsFiniteSet(Raters) /\ R \in Nat
    <2>1. IsFiniteSet(D)
        BY DEF Table
    <2>2. IsFiniteSet(Raters) /\ R \in Nat
        BY RatersAndScale
    <2> QED
        BY <2>1, <2>2, FS_CardinalityType
<1>1. stats.items = Cardinality(D) /\ stats.filled = SumFunction(fill) /\ stats.abstentions = SumFunction(abst)
    BY DEF CoverageStats
<1>2. SumFunction(fill) = Sum(fill, D) /\ SumFunction(abst) = Sum(abst, D)
    BY SumFunctionIs
<1>3. ASSUME NEW c \in D
      PROVE  /\ fill[c] \in Nat /\ fill[c] <= R /\ (fill[c] = R <=> Filled(c) = Raters)
             /\ abst[c] \in Nat /\ (abst[c] = 0 <=> Abstaining(c) = {})
             /\ Counting(said[c]) = Raters <=> Filled(c) = Raters /\ Abstaining(c) = {}
    <2> DEFINE F == Filled(c)
               A == Abstaining(c)
    <2>1. F \in SUBSET Raters /\ A \in SUBSET Raters /\ fill[c] = Cardinality(F) /\ abst[c] = Cardinality(A)
        OBVIOUS
    <2>2. Counting(said[c]) = Raters <=> F = Raters /\ A = {}
        <3>1. said[c] \in Says
            BY UnitsAre
        <3>2. \A g \in Raters : said[c][g] \in Scale \cup {ABSTAIN, NoVote}
            BY <3>1 DEF Says
        <3>3. \A g \in Raters : said[c][g] \in Scale <=> said[c][g] # NoVote /\ said[c][g] # ABSTAIN
            BY <3>2, ScaleIsRanked
        <3> QED
            BY <3>3 DEF Counting
    <2> HIDE DEF F, A, fill, abst
    <2>3. IsFiniteSet(F) /\ Cardinality(F) <= R /\ (R = Cardinality(F) => Raters = F)
        BY <1>0, <2>1, FS_Subset
    <2>4. IsFiniteSet(A)
        BY <1>0, <2>1, FS_Subset
    <2>5. Cardinality(F) \in Nat /\ Cardinality(A) \in Nat
        BY <2>3, <2>4, FS_CardinalityType
    <2>6. Cardinality(A) = 0 <=> A = {}
        BY <2>4, FS_EmptySet
    <2>7. fill[c] \in Nat /\ fill[c] <= R /\ (fill[c] = R <=> F = Raters)
        BY <2>1, <2>3, <2>5
    <2>8. abst[c] \in Nat /\ (abst[c] = 0 <=> A = {})
        BY <2>1, <2>5, <2>6
    <2> QED
        BY <2>2, <2>7, <2>8 DEF F, A
<1> HIDE DEF fill, abst, Filled, Abstaining, R, D, stats
<1>4. Sum(whole, D) = R * Cardinality(D)
    <2>1. R \in Int /\ \A c \in D : whole[c] = R
        BY <1>0
    <2> HIDE DEF whole
    <2> QED
        BY <1>0, <2>1, SumOfOne
<1>5. Sum(fill, D) = Sum(whole, D) <=> \A c \in D : fill[c] = R
    <2>1. \A c \in D : fill[c] \in Int /\ whole[c] \in Int /\ fill[c] <= whole[c]
        BY <1>0, <1>3
    <2>2. \A c \in D : whole[c] = R
        OBVIOUS
    <2> HIDE DEF whole
    <2>3. Sum(fill, D) = Sum(whole, D) <=> \A c \in D : fill[c] = whole[c]
        BY <1>0, <2>1, SumAtMost
    <2> QED
        BY <2>2, <2>3
<1>6. Sum(abst, D) = 0 <=> \A c \in D : abst[c] = 0
    <2>1. \A c \in D : abst[c] \in Nat
        BY <1>3
    <2> QED
        BY <1>0, <2>1, SumIsZero
<1>7. stats.filled = stats.items * R <=> \A c \in D : fill[c] = R
    <2>1. R * Cardinality(D) = Cardinality(D) * R
        BY <1>0
    <2> QED
        BY <1>1, <1>2, <1>4, <1>5, <2>1
<1>8. stats.abstentions = 0 <=> \A c \in D : abst[c] = 0
    BY <1>1, <1>2, <1>6
<1>9. (\A c \in D : Counting(said[c]) = Raters)
        <=> (\A c \in D : fill[c] = R) /\ (\A c \in D : abst[c] = 0)
    BY <1>3
<1>10. {c \in D : Counting(said[c]) = Raters} = D <=> \A c \in D : Counting(said[c]) = Raters
    OBVIOUS
<1> QED
    BY <1>7, <1>8, <1>9, <1>10 DEF D, R, stats

(* shared/metrics.ts:247: an undecidable case is no unit.                  *)
LEMMA UndecidableIsNoUnit ==
    ASSUME NEW said, Table(said)
    PROVE  CoverageStats(said).undecidable + Cardinality(UnitsFrom(said)) <= CoverageStats(said).items
<1> DEFINE D == DOMAIN said
           U == UnitsFrom(said)
           Filled(c) == {g \in Raters : said[c][g] # NoVote}
           Abstaining(c) == {g \in Raters : said[c][g] = ABSTAIN}
           E == {c \in D : Filled(c) # {} /\ Filled(c) = Abstaining(c)}
<1>0. IsFiniteSet(D) /\ IsFiniteSet(U) /\ U \in SUBSET D /\ E \in SUBSET D
    BY UnitsAre DEF Table
<1>1. CoverageStats(said).undecidable = Cardinality(E) /\ CoverageStats(said).items = Cardinality(D)
    BY DEF CoverageStats
<1>2. E \cap U = {}
    <2>1. SUFFICES ASSUME NEW c \in U, Filled(c) = Abstaining(c) PROVE FALSE
        OBVIOUS
    <2>2. said[c] \in Says /\ Cardinality(Counting(said[c])) \in 2..Cardinality(Raters)
        BY UnitsAre
    <2>3. Counting(said[c]) # {}
        <3>1. Cardinality(Counting(said[c])) # 0
            BY <2>2, RatersAndScale
        <3> QED
            BY <3>1, FS_EmptySet
    <2>4. PICK g \in Raters : said[c][g] \in Scale
        BY <2>3 DEF Counting
    <2>5. said[c][g] # NoVote /\ said[c][g] # ABSTAIN
        BY <2>4, ScaleIsRanked
    <2>6. g \in Filled(c) /\ g \notin Abstaining(c)
        BY <2>5
    <2> QED
        BY <2>1, <2>6
<1> HIDE DEF E, U, D
<1>3. IsFiniteSet(E)
    BY <1>0, FS_Subset
<1>4. Cardinality(E \cup U) = Cardinality(E) + Cardinality(U) - Cardinality(E \cap U)
    BY <1>0, <1>3, FS_Union
<1>5. Cardinality(E \cap U) = 0
    BY <1>2, FS_EmptySet
<1>6. Cardinality(E) \in Nat /\ Cardinality(U) \in Nat
    BY <1>0, <1>3, FS_CardinalityType
<1>7. Cardinality(E \cup U) <= Cardinality(D)
    <2>1. E \cup U \in SUBSET D
        BY <1>0
    <2> QED
        BY <1>0, <2>1, FS_Subset
<1>8. Cardinality(E) + Cardinality(U) <= Cardinality(D)
    BY <1>4, <1>5, <1>6, <1>7
<1> QED
    BY <1>1, <1>8 DEF U

(* shared/metrics.ts:182, 235: the numbers shown beside them agree.        *)
LEMMA NumbersTextbook == ASSUME NEW said, Table(said) PROVE NumbersAgree(said)
<1>1. AgreementStats(said).units = Cardinality(UnitsFrom(said))
    BY DEF AgreementStats
<1>2. CoverageStats(said).undecidable + AgreementStats(said).units <= CoverageStats(said).items
    BY <1>1, UndecidableIsNoUnit
<1> QED
    BY <1>2, RatesMean, CoverageIsFull DEF NumbersAgree

-----------------------------------------------------------------------------
(* What a run has saved of the cases still there, and what the people said *)
(* of them, is a table of what the raters said.                            *)
LEMMA UnitsAreTable == ASSUME JudgeInv, NEW q \in run PROVE Table(Units(q))
<1>1. /\ q \in Requests /\ cases \in SUBSET Cases
      /\ verdict \in [Requests -> [Cases -> Said]] /\ vote \in [Cases -> [People -> Said]]
    BY DEF JudgeInv, JudgeTypeOK, VotesOK
<1>2. Judged(q) \in SUBSET Cases /\ DOMAIN Units(q) = Judged(q)
    BY <1>1 DEF Judged, Units
<1>3. IsFiniteSet(Judged(q))
    BY <1>2, JudgeConstants, FS_Subset
<1>4. ASSUME NEW c \in Judged(q)
      PROVE  [g \in Raters |-> IF g = TheJudge THEN verdict[q][c] ELSE vote[c][g]] \in Says
    <2>1. verdict[q][c] \in Said /\ \A p \in People : vote[c][p] \in Said
        BY <1>1, <1>2
    <2>2. Said = Scale \cup {ABSTAIN, NoVote}
        BY DEF Said, Answers
    <2>3. \A g \in Raters : g = TheJudge \/ g \in People
        BY JudgeConstants
    <2> QED
        BY <2>1, <2>2, <2>3 DEF Says
<1>5. Units(q) \in [Judged(q) -> Says]
    BY <1>4 DEF Units
<1> QED
    BY <1>2, <1>3, <1>5 DEF Table

(* shared/metrics.ts:104, 274, 328, 182: alpha, AC1, its variance and the  *)
(* numbers beside them are those of the textbook, of whatever the judge    *)
(* and the people said of the cases of a run.                              *)
THEOREM TextbookStatistics == JudgeSpec => []StatisticsAreTheTextbook
<1>1. ASSUME JudgeInv PROVE StatisticsAreTheTextbook
    <2>1. ASSUME NEW q \in run
          PROVE  /\ AlphaIsTheTextbook(Units(q)) /\ AC1IsTheTextbook(Units(q))
                 /\ VarianceIsTheTextbook(Units(q)) /\ NumbersAgree(Units(q))
        <3>1. Table(Units(q))
            BY <1>1, UnitsAreTable
        <3>2. AlphaIsTheTextbook(Units(q))
            BY <3>1, AlphaTextbook
        <3>3. AC1IsTheTextbook(Units(q))
            BY <3>1, AC1Textbook
        <3>4. VarianceIsTheTextbook(Units(q))
            BY <3>1, VarianceTextbook
        <3>5. NumbersAgree(Units(q))
            BY <3>1, NumbersTextbook
        <3> QED
            BY <3>2, <3>3, <3>4, <3>5
    <2> QED
        BY <2>1 DEF StatisticsAreTheTextbook
<1> QED
    BY <1>1, JudgeInvariance, PTL

=============================================================================
