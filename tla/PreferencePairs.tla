--------------------------- MODULE PreferencePairs --------------------------
(***************************************************************************)
(* One preference pair: two answers to a prompt, compared by every seat in *)
(* both orders (server/app.ts, POST pairs/:pairId/grade), the outcome read *)
(* from the votes (shared/pairs.ts), and the row the training export makes *)
(* of it (server/training.ts).  A vote is replaced by a delete and an      *)
(* insert; seats are compared side by side, in requests that may overlap,  *)
(* fail for one seat, or be killed, while the pair itself may be deleted.  *)
(*                                                                         *)
(* A seat's call and the delete after it are one step: what was heard is   *)
(* the request's own.  The limit of 500 pairs is left out.                 *)
(***************************************************************************)
EXTENDS Naturals, FiniteSets, FiniteSetsExt

CONSTANTS
    Seats,          \* numbered in the order in which they are listed
    Weight,         \* Weight[s] > 0, in hundredths
    Gradings,       \* requests to grade the pair
    MIN_PANEL,      \* seats a comparison needs: 3 in the code
    WIDTH,          \* seats compared at a time: 3 in the code
    None,
    MaxVersion,     \* bound: versions of the standard
    MaxGradings,    \* bound: times the pair is graded
    MaxFaults       \* bound: calls that fail, processes killed, deletions

Orders == {"ab", "ba"}
Sides == {"a", "b"}
PairChoices == Sides \cup {"tie"}

ASSUME PairConstants ==
    /\ None \notin PairChoices /\ Seats \subseteq Nat /\ IsFiniteSet(Seats)
    /\ Weight \in [Seats -> Nat \ {0}]
    /\ MIN_PANEL \in Nat /\ WIDTH \in Nat \ {0}
    /\ MaxVersion \in Nat \ {0} /\ MaxGradings \in Nat /\ MaxFaults \in Nat

VARIABLES
    pair,       \* the pair's row
    seated,     \* the seats of the project
    standing,   \* the current version of the standard
    vote,       \* vote[s][o]: what seat s said in order o, as it saw it
    marked,     \* rubric_version_id of the pair, 0 before it is graded
    grading,    \* grading[g]: what request g has still to do
    heard,      \* history: the seats and orders with an answer on record
    whole,      \* history: the version of a grading nothing went wrong with
    gradings, faults

vars == <<pair, seated, standing, vote, marked, grading, heard, whole, gradings, faults>>

NoVote == [choice |-> None, version |-> 0]
Vote == [choice : PairChoices, version : 1..MaxVersion] \cup {NoVote}

(* at[s]: what g does next for seat s; said: the answer it is to insert.   *)
(* alone: no other grading was under way meanwhile, and no seat failed.    *)
Stages == {"none", "ask ab", "put ab", "ask ba", "put ba", "over"}
NoGrading == [on |-> FALSE, version |-> 1, alone |-> TRUE,
              at |-> [s \in Seats |-> "none"], said |-> [s \in Seats |-> None]]

UnderWay == {g \in Gradings : grading[g].on}
Working(g) == {s \in Seats : grading[g].at[s] \in Stages \ {"none", "ask ab", "over"}}

Init ==
    /\ pair = "unmade"
    /\ seated = Seats /\ standing = 1
    /\ vote = [s \in Seats |-> [o \in Orders |-> NoVote]]
    /\ marked = 0
    /\ grading = [g \in Gradings |-> NoGrading]
    /\ heard = {} /\ whole = 0
    /\ gradings = 0 /\ faults = 0

-----------------------------------------------------------------------------
(* The pair is made with two different answers, and may be deleted at any  *)
(* time, with its votes.                                                   *)
Create ==
    /\ pair = "unmade" /\ pair' = "there"
    /\ UNCHANGED <<seated, standing, vote, marked, grading, heard, whole, gradings, faults>>

Delete ==
    /\ pair = "there" /\ pair' = "gone"
    /\ faults < MaxFaults /\ faults' = faults + 1
    /\ vote' = [s \in Seats |-> [o \in Orders |-> NoVote]]
    /\ marked' = 0 /\ heard' = {} /\ whole' = 0
    /\ UNCHANGED <<seated, standing, grading, gradings>>

Begin(g) ==
    /\ pair = "there" /\ ~grading[g].on
    /\ Cardinality(seated) >= MIN_PANEL
    /\ gradings < MaxGradings /\ gradings' = gradings + 1
    /\ grading' = [h \in Gradings |->
         IF h = g THEN [on |-> TRUE, version |-> standing, alone |-> UnderWay = {},
                        at |-> [s \in Seats |-> IF s \in seated THEN "ask ab" ELSE "none"],
                        said |-> [s \in Seats |-> None]]
         ELSE [grading[h] EXCEPT !.alone = @ /\ ~grading[h].on]]
    /\ whole' = 0
    /\ UNCHANGED <<pair, seated, standing, vote, marked, heard, faults>>

(* Seats are taken up in order.                                            *)
AsksNow(g, s, o) ==
    \/ /\ o = "ab" /\ grading[g].at[s] = "ask ab"
       /\ Cardinality(Working(g)) < WIDTH
       /\ \A t \in Seats : grading[g].at[t] = "ask ab" => s <= t
    \/ o = "ba" /\ grading[g].at[s] = "ask ba"

Put == [ab |-> "put ab", ba |-> "put ba"]
After == [ab |-> "ask ba", ba |-> "over"]

(* The seat answers; what it said before in this order is deleted.         *)
Asks(g, s, o) ==
    /\ AsksNow(g, s, o)
    /\ \E c \in PairChoices : grading' = [grading EXCEPT ![g].at[s] = Put[o], ![g].said[s] = c]
    /\ vote' = [vote EXCEPT ![s][o] = NoVote]
    /\ UNCHANGED <<pair, seated, standing, marked, heard, whole, gradings, faults>>

GivesUp(g, s) ==
    grading' = [grading EXCEPT ![g].at[s] = "over", ![g].said[s] = None, ![g].alone = FALSE]

(* The call fails: the seat is given up, and what it said before stays.    *)
(* Fault: what it said before was deleted first.                           *)
AskFailsBare(g, s, o) ==
    /\ AsksNow(g, s, o)
    /\ faults < MaxFaults /\ faults' = faults + 1
    /\ GivesUp(g, s)
    /\ vote' = [vote EXCEPT ![s][o] = NoVote]
    /\ UNCHANGED <<pair, seated, standing, marked, heard, whole, gradings>>

AskFails(g, s, o) ==
    /\ AsksNow(g, s, o)
    /\ faults < MaxFaults /\ faults' = faults + 1
    /\ GivesUp(g, s)
    /\ UNCHANGED <<pair, seated, standing, vote, marked, heard, whole, gradings>>

(* The answer is inserted; if the seat or the pair has been deleted, or    *)
(* another request has inserted one, the seat is given up.                 *)
Inserts(g, s, o) ==
    /\ grading[g].at[s] = Put[o]
    /\ IF pair = "there" /\ s \in seated /\ vote[s][o] = NoVote
       THEN /\ vote' = [vote EXCEPT ![s][o] = [choice |-> grading[g].said[s],
                                               version |-> grading[g].version]]
            /\ heard' = heard \cup {<<s, o>>}
            /\ grading' = [grading EXCEPT ![g].at[s] = After[o], ![g].said[s] = None]
       ELSE GivesUp(g, s) /\ UNCHANGED <<vote, heard>>
    /\ UNCHANGED <<pair, seated, standing, marked, whole, gradings, faults>>

(* Every seat is over: the pair is marked with the version it was graded   *)
(* against, if it is still there.                                          *)
(* Fault: with the one that stands by now.                                 *)
FinishLate(g) ==
    /\ grading[g].on /\ \A s \in Seats : grading[g].at[s] \in {"none", "over"}
    /\ marked' = IF pair = "there" THEN standing ELSE marked
    /\ whole' = IF pair = "there" /\ grading[g].alone THEN standing ELSE 0
    /\ grading' = [grading EXCEPT ![g] = NoGrading]
    /\ UNCHANGED <<pair, seated, standing, vote, heard, gradings, faults>>

Finish(g) ==
    /\ grading[g].on /\ \A s \in Seats : grading[g].at[s] \in {"none", "over"}
    /\ marked' = IF pair = "there" THEN grading[g].version ELSE marked
    /\ whole' = IF pair = "there" /\ grading[g].alone THEN grading[g].version ELSE 0
    /\ grading' = [grading EXCEPT ![g] = NoGrading]
    /\ UNCHANGED <<pair, seated, standing, vote, heard, gradings, faults>>

OnRecord == {so \in Seats \X Orders : vote[so[1]][so[2]] # NoVote}

(* The process is killed, with every grading in it.                        *)
Crash ==
    /\ UnderWay # {}
    /\ faults < MaxFaults /\ faults' = faults + 1
    /\ grading' = [g \in Gradings |-> NoGrading]
    /\ heard' = heard \cap OnRecord
    /\ UNCHANGED <<pair, seated, standing, vote, marked, whole, gradings>>

(* Elsewhere the standard moves on, and seats are deleted with their votes.*)
NewStandard ==
    /\ standing < MaxVersion /\ standing' = standing + 1
    /\ UNCHANGED <<pair, seated, vote, marked, grading, heard, whole, gradings, faults>>

DeleteSeat(s) ==
    /\ s \in seated /\ seated' = seated \ {s}
    /\ faults < MaxFaults /\ faults' = faults + 1
    /\ vote' = [vote EXCEPT ![s] = [o \in Orders |-> NoVote]]
    /\ heard' = {so \in heard : so[1] # s}
    /\ UNCHANGED <<pair, standing, marked, grading, whole, gradings>>

Next ==
    \/ \E g \in Gradings : Begin(g) \/ Finish(g)
    \/ \E g \in Gradings, s \in Seats, o \in Orders : Asks(g, s, o) \/ AskFails(g, s, o) \/ Inserts(g, s, o)
    \/ Create \/ Delete \/ Crash \/ NewStandard
    \/ \E s \in Seats : DeleteSeat(s)

Spec == Init /\ [][Next]_vars

-----------------------------------------------------------------------------
(* Reading the pair.  A seat has a vote if it has one in the first order;  *)
(* the vote holds unless there is one in the other order that, with the    *)
(* letters swapped, is not the same.                                       *)
Swap(c) == CASE c = "a" -> "b" [] c = "b" -> "a" [] OTHER -> c
Voters == {s \in seated : <<s, "ab">> \in OnRecord}
Choice(s) == vote[s]["ab"].choice
Flips(s) == <<s, "ba">> \in OnRecord /\ Swap(vote[s]["ba"].choice) # Choice(s)

(* Fault: a vote that flips counts.                                        *)
CountedAll == {s \in Voters : Choice(s) # "tie"}

Counted == {s \in Voters : Choice(s) # "tie" /\ ~Flips(s)}
Behind(side) == MapThenSumSet(LAMBDA s : Weight[s], {s \in Counted : Choice(s) = side})

Winner ==
    IF Cardinality(Counted) < 2 \/ Behind("a") = Behind("b") THEN None
    ELSE IF Behind("a") > Behind("b") THEN "a" ELSE "b"

(* The owner's choice is a column that no other operation reads or writes: *)
(* here it is an argument, anything the owner may have set or withdrawn.   *)
Rulings == PairChoices \cup {None}

(* The pair as the page shows it.                                          *)
PairView(owner) ==
    [votes |-> Voters, counted |-> Counted,
     preferred |-> IF owner \in Sides THEN owner ELSE IF owner = "tie" THEN None ELSE Winner]

(* The rows the training export makes of the pairs there are: of this one  *)
(* at most one, with the seats whose reasons may be its rationale.         *)
Listed == pair = "there"
PairRows == [chosen : Sides, basis : {"owner", "panel"}, majority : SUBSET Seats]

Exported(owner) ==
    LET side == IF owner \in Sides THEN owner ELSE Winner
    IN  {[chosen |-> x, basis |-> IF owner = None THEN "panel" ELSE "owner",
          majority |-> {s \in Voters : Choice(s) = x /\ ~Flips(s)}] :
         x \in {y \in Sides : Listed /\ owner # "tie" /\ y = side}}

-----------------------------------------------------------------------------
PairsTypeOK ==
    /\ pair \in {"unmade", "there", "gone"}
    /\ seated \subseteq Seats /\ standing \in 1..MaxVersion
    /\ vote \in [Seats -> [Orders -> Vote]]
    /\ marked \in 0..MaxVersion /\ whole \in 0..MaxVersion
    /\ grading \in [Gradings -> [on : BOOLEAN, version : 1..MaxVersion, alone : BOOLEAN,
                                 at : [Seats -> Stages], said : [Seats -> PairChoices \cup {None}]]]
    /\ \A g \in Gradings, s \in Seats :
         grading[g].said[s] # None <=> grading[g].at[s] \in {"put ab", "put ba"}
    /\ heard \subseteq Seats \X Orders
    /\ gradings \in 0..MaxGradings /\ faults \in 0..MaxFaults

(* server/store.ts:1117: grading again replaces an answer.  Whichever      *)
(* requests grade the pair at a time, and whichever calls fail, an answer  *)
(* on record is on record until its seat is deleted, except while it is    *)
(* being replaced; only a killed process takes one away.                   *)
AnswersAreKept ==
    \A so \in heard :
        \/ vote[so[1]][so[2]] # NoVote
        \/ \E g \in Gradings : grading[g].at[so[1]] = Put[so[2]]

(* server/app.ts:1443: the pair is marked with a version once every seat   *)
(* is through.  After a grading that was alone and lost no seat, all that  *)
(* is on record of the seats left was said in both orders and under the    *)
(* version marked, until the pair is graded again, whatever the standard   *)
(* has become meanwhile and whatever earlier gradings left behind.         *)
WholeGradingIsOneVersion ==
    whole # 0 =>
        /\ marked = whole
        /\ \A s \in seated, o \in Orders : vote[s][o] # NoVote /\ vote[s][o].version = whole

(* server/training.ts:336: the page and the export work out separately     *)
(* what a pair prefers.  They agree at any moment, also in the middle of a *)
(* grading, and what the export calls the panel's has a seat behind it     *)
(* that did not flip.                                                      *)
ExportSaysWhatThePageSays ==
    Listed => \A owner \in Rulings :
        LET page == PairView(owner)
            rows == Exported(owner)
        IN  /\ rows \subseteq PairRows
            /\ {row.chosen : row \in rows} = {page.preferred} \ {None}
            /\ \A row \in rows :
                 /\ row.majority \subseteq page.votes
                 /\ row.basis = "panel" => row.majority # {} /\ row.majority \subseteq page.counted

=============================================================================
