------------------------------ MODULE PanelRun ------------------------------
(***************************************************************************)
(* A panel poll running: POST /rounds/:roundId/panel-run of server/app.ts, *)
(* called once per seat, each call grading every case, measuring itself on *)
(* a repeat sample, and closing the poll if it finds that everybody is     *)
(* done.  Nobody supervises the calls: they run side by side, in several   *)
(* processes, may be made twice for one seat, and may die at any step,     *)
(* while people edit the panel, delete cases and close the poll by hand.   *)
(*                                                                         *)
(* The state begins when the poll has been opened over Founders and Cases. *)
(* Which verdict a seat gives matters to nothing here, so a grade says     *)
(* only whether the seat graded the case or abstained.  The log of panel   *)
(* edits and the telemetry of calls are read by nothing here and left out. *)
(*                                                                         *)
(* A definition whose comment starts with "Fault" is a wrong variant of    *)
(* the one after it: it is in no specification, and shows what a property  *)
(* would catch.                                                            *)
(***************************************************************************)
EXTENDS Naturals, FiniteSets, FiniteSetsExt

CONSTANTS
    Seats,      \* every seat that ever sits on the panel
    Founders,   \* the seats it has when the poll opens
    Cases,      \* the cases the poll opens with
    MaxRuns,    \* bound: calls of panel-run
    MaxEdits    \* bound: seats added or deleted, cases deleted, calls that die

ASSUME PanelConstants ==
    /\ Founders \subseteq Seats /\ IsFiniteSet(Seats) /\ Founders # {}
    /\ IsFiniteSet(Cases) /\ Cases # {}
    /\ MaxRuns \in Nat /\ MaxEdits \in Nat

VARIABLES
    seat,           \* seat[s]: absent, seated or gone
    cases,          \* round_items: the cases not deleted
    status,         \* rounds.status
    grade,          \* grade[s][c]: none, graded or abstained
    consistency,    \* self_consistency: one row per seat, none before its first
    weight,         \* graders.weight: full (1) or half (0.5)
    runs,           \* the calls being served
    \* What no table records and the properties are about:
    calls,          \* how many calls there were
    closedBy,       \* who closed the poll: nobody, people, or a call
    counted,        \* the seats listed by the call that closed it
    edits,          \* how many edits and deaths there were
    fresh           \* seats called since the last of them

panelVars == <<seat, cases, status, grade, consistency, weight, runs, calls,
               closedBy, counted, edits, fresh>>

(* A call holds the cases it read, those it has yet to grade, the weight   *)
(* its seat had when it began, what it got out of its seat, whether it     *)
(* flagged the seat, and the seats it listed at the end.  A dead call was  *)
(* answered with an error; workers it had started go on.                   *)
Runs == [nr: 1..MaxRuns, seat: Seats, items: SUBSET Cases, todo: SUBSET Cases,
         weight: {"full", "half"}, got: SUBSET {"graded", "abstained"},
         flagged: BOOLEAN, listed: SUBSET Seats,
         stage: {"grading", "dead", "measured", "weighed", "listed", "complete"}]

NoRow == [size |-> 0, agreements |-> 0, flagged |-> FALSE]
Counts == 0..Cardinality(Cases)
ConsistencyRows == [size: Counts, agreements: Counts, flagged: BOOLEAN]

Seated == {s \in Seats : seat[s] = "seated"}
Done(s) == Cardinality({c \in cases : grade[s][c] # "none"})

(* A fifth of the cases, rounded up.                                       *)
SampleSize(n) == (n + 4) \div 5

(* Under seven in ten; a seat asked nothing agrees with itself.            *)
UnderThreshold(agreements, size) == size > 0 /\ 10 * agreements < 7 * size

Disturbs == edits < MaxEdits /\ edits' = edits + 1 /\ fresh' = {}
Becomes(r, next) == runs' = (runs \ {r}) \cup {next}

Init ==
    /\ seat = [s \in Seats |-> IF s \in Founders THEN "seated" ELSE "absent"]
    /\ cases = Cases
    /\ status = "open"
    /\ grade = [s \in Seats |-> [c \in Cases |-> "none"]]
    /\ consistency = [s \in Seats |-> NoRow]
    /\ weight = [s \in Seats |-> "full"]
    /\ runs = {}
    /\ calls = 0
    /\ closedBy = "nobody"
    /\ counted = {}
    /\ edits = 0
    /\ fresh = {}

-----------------------------------------------------------------------------
(* One call of panel-run.                                                  *)

RunBegin(s) ==
    /\ calls < MaxRuns
    /\ status = "open"
    /\ seat[s] = "seated"
    /\ calls' = calls + 1
    /\ runs' = runs \cup
         {[nr |-> calls + 1, seat |-> s, items |-> cases, todo |-> cases, weight |-> weight[s],
           got |-> {}, flagged |-> FALSE, listed |-> {}, stage |-> "grading"]}
    /\ fresh' = fresh \cup {s}
    /\ UNCHANGED <<seat, cases, status, grade, consistency, weight, closedBy, counted, edits>>

(* Fault: a case the model could not grade is left without a row.          *)
GradeDropsFailures(r, c) ==
    /\ r \in runs /\ r.stage \in {"grading", "dead"}
    /\ c \in r.todo \cap cases /\ seat[r.seat] = "seated"
    /\ \E g \in {"graded", "abstained"} :
         /\ grade' = IF g = "graded" THEN [grade EXCEPT ![r.seat][c] = g] ELSE grade
         /\ Becomes(r, [r EXCEPT !.todo = @ \ {c}, !.got = @ \cup {g}])
    /\ UNCHANGED <<seat, cases, status, consistency, weight, calls, closedBy, counted, edits, fresh>>

(* A worker grades a case: it stores the verdict, or an abstention where   *)
(* the model gave none.                                                    *)
Grade(r, c) ==
    /\ r \in runs /\ r.stage \in {"grading", "dead"}
    /\ c \in r.todo \cap cases /\ seat[r.seat] = "seated"
    /\ \E g \in {"graded", "abstained"} :
         /\ grade' = [grade EXCEPT ![r.seat][c] = g]
         /\ Becomes(r, [r EXCEPT !.todo = @ \ {c}, !.got = @ \cup {g}])
    /\ UNCHANGED <<seat, cases, status, consistency, weight, calls, closedBy, counted, edits, fresh>>

(* A case already deleted when its worker looks for it is passed over.     *)
Skip(r, c) ==
    /\ r \in runs /\ r.stage \in {"grading", "dead"}
    /\ c \in r.todo \ cases
    /\ Becomes(r, [r EXCEPT !.todo = @ \ {c}])
    /\ UNCHANGED <<seat, cases, status, grade, consistency, weight, calls, closedBy, counted, edits, fresh>>

(* One deleted while the model was being asked, or a seat that has left,   *)
(* fails the foreign key of the grade, and the call with it.               *)
GradeFails(r, c) ==
    /\ r \in runs /\ r.stage = "grading"
    /\ c \in r.todo
    /\ c \notin cases \/ seat[r.seat] = "gone"
    /\ Becomes(r, [r EXCEPT !.todo = @ \ {c}, !.stage = "dead"])
    /\ UNCHANGED <<seat, cases, status, grade, consistency, weight, calls, closedBy, counted, edits, fresh>>

(* The repeat sample.  Cases deleted or abstained on are passed over; a    *)
(* repeat agrees or does not, because it differs or because it could not   *)
(* be asked, and the rate divides the agreements by the whole sample.      *)
Measure(r) ==
    /\ r \in runs /\ r.stage = "grading" /\ r.todo = {}
    /\ \E sample \in kSubset(SampleSize(Cardinality(r.items)), r.items) :
         LET asked == {c \in sample \cap cases : grade[r.seat][c] # "abstained"}
         IN  \E agreed \in SUBSET {c \in asked : grade[r.seat][c] = "graded"} :
               LET size == Cardinality(sample)
                   flagged == UnderThreshold(Cardinality(agreed), size)
               IN  /\ consistency' = [consistency EXCEPT ![r.seat] =
                        [size |-> size, agreements |-> Cardinality(agreed), flagged |-> flagged]]
                   /\ Becomes(r, [r EXCEPT !.stage = "measured", !.flagged = flagged])
    /\ UNCHANGED <<seat, cases, status, grade, weight, calls, closedBy, counted, edits, fresh>>

(* Fault: the weight is halved whatever it was.                            *)
WeighAgain(r) ==
    /\ r \in runs /\ r.stage = "measured"
    /\ weight' = IF r.flagged THEN [weight EXCEPT ![r.seat] = IF @ = "full" THEN "half" ELSE "quarter"] ELSE weight
    /\ Becomes(r, [r EXCEPT !.stage = "weighed"])
    /\ UNCHANGED <<seat, cases, status, grade, consistency, calls, closedBy, counted, edits, fresh>>

(* The weight tested is the one the call began with.                       *)
Weigh(r) ==
    /\ r \in runs /\ r.stage = "measured"
    /\ weight' = IF r.flagged /\ r.weight = "full" THEN [weight EXCEPT ![r.seat] = "half"] ELSE weight
    /\ Becomes(r, [r EXCEPT !.stage = "weighed"])
    /\ UNCHANGED <<seat, cases, status, grade, consistency, calls, closedBy, counted, edits, fresh>>

(* Fault: only the seats that have graded something are listed.            *)
ListParticipants(r) ==
    /\ r \in runs /\ r.stage = "weighed"
    /\ Becomes(r, [r EXCEPT !.stage = "listed", !.listed = {s \in Seated : Done(s) > 0}])
    /\ UNCHANGED <<seat, cases, status, grade, consistency, weight, calls, closedBy, counted, edits, fresh>>

ListPanel(r) ==
    /\ r \in runs /\ r.stage = "weighed"
    /\ Becomes(r, [r EXCEPT !.stage = "listed", !.listed = Seated])
    /\ UNCHANGED <<seat, cases, status, grade, consistency, weight, calls, closedBy, counted, edits, fresh>>

(* Fault: the call looks at its own seat only.                             *)
CheckOwnProgress(r) ==
    /\ r \in runs /\ r.stage = "listed"
    /\ IF Done(r.seat) >= Cardinality(r.items)
       THEN Becomes(r, [r EXCEPT !.stage = "complete"])
       ELSE runs' = runs \ {r}
    /\ UNCHANGED <<seat, cases, status, grade, consistency, weight, calls, closedBy, counted, edits, fresh>>

(* Every seat listed has as many grades as the call had cases to begin     *)
(* with; otherwise the call is over and somebody else's will close.        *)
CheckProgress(r) ==
    /\ r \in runs /\ r.stage = "listed"
    /\ IF \A s \in r.listed : Done(s) >= Cardinality(r.items)
       THEN Becomes(r, [r EXCEPT !.stage = "complete"])
       ELSE runs' = runs \ {r}
    /\ UNCHANGED <<seat, cases, status, grade, consistency, weight, calls, closedBy, counted, edits, fresh>>

CloseItself(r) ==
    /\ r \in runs /\ r.stage = "complete"
    /\ runs' = runs \ {r}
    /\ IF status = "open"
       THEN status' = "closed" /\ closedBy' = "call" /\ counted' = r.listed
       ELSE UNCHANGED <<status, closedBy, counted>>
    /\ UNCHANGED <<seat, cases, grade, consistency, weight, calls, edits, fresh>>

(* The function is killed, or times out.                                   *)
Crash(r) ==
    /\ r \in runs
    /\ runs' = runs \ {r}
    /\ Disturbs
    /\ UNCHANGED <<seat, cases, status, grade, consistency, weight, calls, closedBy, counted>>

-----------------------------------------------------------------------------
(* What people do meanwhile.                                               *)

(* POST /rounds/:roundId/close takes a panel poll too: a seat with a grade *)
(* is a participant.                                                       *)
CloseByHand ==
    /\ status = "open"
    /\ Cardinality({s \in Seated : Done(s) > 0}) >= 2
    /\ status' = "closed" /\ closedBy' = "people"
    /\ UNCHANGED <<seat, cases, grade, consistency, weight, runs, calls, counted, edits, fresh>>

AddSeat(s) ==
    /\ seat[s] = "absent"
    /\ seat' = [seat EXCEPT ![s] = "seated"]
    /\ Disturbs
    /\ UNCHANGED <<cases, status, grade, consistency, weight, runs, calls, closedBy, counted>>

(* A seat's grades go with it, in polls of any status.                     *)
DeleteSeat(s) ==
    /\ seat[s] = "seated"
    /\ seat' = [seat EXCEPT ![s] = "gone"]
    /\ grade' = [grade EXCEPT ![s] = [c \in Cases |-> "none"]]
    /\ Disturbs
    /\ UNCHANGED <<cases, status, consistency, weight, runs, calls, closedBy, counted>>

DeleteCase(c) ==
    /\ c \in cases
    /\ cases' = cases \ {c}
    /\ grade' = [s \in Seats |-> [grade[s] EXCEPT ![c] = "none"]]
    /\ Disturbs
    /\ UNCHANGED <<seat, status, consistency, weight, runs, calls, closedBy, counted>>

-----------------------------------------------------------------------------
RunStep(r) ==
    \/ \E c \in Cases : Grade(r, c) \/ Skip(r, c) \/ GradeFails(r, c)
    \/ Measure(r)
    \/ Weigh(r)
    \/ ListPanel(r)
    \/ CheckProgress(r)
    \/ CloseItself(r)

People ==
    \/ CloseByHand
    \/ \E s \in Seats : AddSeat(s) \/ DeleteSeat(s)
    \/ \E c \in Cases : DeleteCase(c)

Next ==
    \/ \E s \in Seats : RunBegin(s)
    \/ \E r \in runs : RunStep(r) \/ Crash(r)
    \/ People

(* The server goes on with every call it took, up to its answer.           *)
CallProgress(n) == \E r \in runs : r.nr = n /\ r.stage # "dead" /\ RunStep(r)

Spec == Init /\ [][Next]_panelVars
FairSpec == Spec /\ \A n \in 1..MaxRuns : WF_panelVars(CallProgress(n))

-----------------------------------------------------------------------------
TypeOK ==
    /\ seat \in [Seats -> {"absent", "seated", "gone"}]
    /\ cases \subseteq Cases
    /\ status \in {"open", "closed"}
    /\ grade \in [Seats -> [Cases -> {"none", "graded", "abstained"}]]
    /\ consistency \in [Seats -> ConsistencyRows]
    /\ weight \in [Seats -> {"full", "half"}]
    /\ runs \subseteq Runs
    /\ calls \in 0..MaxRuns
    /\ closedBy \in {"nobody", "people", "call"}
    /\ counted \subseteq Seats
    /\ edits \in 0..MaxEdits
    /\ fresh \subseteq Seats

(* server/app.ts:1678: a call closes the poll once every seat has graded   *)
(* every case.  The seats are listed in one statement, their grades        *)
(* counted in the next and the close written in a third; cases and seats   *)
(* may go in between, and the count is compared with what the call had     *)
(* when it began.  No seat that was listed and still sits, and no case     *)
(* that is still there, is left without an answer.                         *)
SelfCloseIsComplete ==
    closedBy = "call" => \A s \in counted \cap Seated, c \in cases : grade[s][c] # "none"

(* When the last seat finishes, the round closes itself: whichever calls   *)
(* overlap, in whichever order they check, and whatever the models failed  *)
(* to answer, a panel all of whose seats have been called closes.  Should  *)
(* it be edited or a call die, calling every seat again is enough.         *)
AllCalled == Seated # {} /\ Seated \subseteq fresh
PanelClosesItself == AllCalled ~> (status = "closed" \/ ~AllCalled)

=============================================================================
