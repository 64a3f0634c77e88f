-------------------------- MODULE RunClientProofs --------------------------
(***************************************************************************)
(* What a panel poll and its client promise for every panel, every set of  *)
(* cases, any number of calls and any number of edits and deaths.          *)
(***************************************************************************)
EXTENDS RunClient, FiniteSetTheorems, TLAPS

Whole(s) == \A c \in cases : grade[s][c] # "none"

(* What is true of a call being served: it was begun, for a seat that sat  *)
(* then, with all the cases of that moment; a seat that still sits has     *)
(* answered every case the call no longer has to do.  Once the call has    *)
(* measured, nothing is left to do; once it found the panel complete,      *)
(* every seat it listed that still sits is whole, and stays so.            *)
CallOK(r) ==
    /\ r.nr <= calls
    /\ seat[r.seat] # "absent"
    /\ cases \subseteq r.items
    /\ r.seat \in Seated => \A c \in cases \ r.todo : grade[r.seat][c] # "none"
    /\ r.stage \notin {"grading", "dead"} => r.todo = {}
    /\ \A s \in r.listed : seat[s] # "absent"
    /\ r.stage = "complete" => \A s \in r.listed \cap Seated : Whole(s)

CallsApart == \A r, q \in runs : r.nr = q.nr => r = q

CloseOK ==
    /\ \A s \in counted : seat[s] # "absent"
    /\ closedBy = "call" => \A s \in counted \cap Seated : Whole(s)
    /\ closedBy # "nobody" <=> status = "closed"

PanelInv == TypeOK /\ (\A r \in runs : CallOK(r)) /\ CallsApart /\ CloseOK

(* The client: while it waits its call is being served, and every other    *)
(* seat it has called is whole, if it still sits.                          *)
Called == client.listed \ client.left
Listening == client.stage \in {"asking", "waiting", "passing", "reading", "verdict"}
Serving == client.stage = "waiting" => \E r \in runs : Its(r) /\ r.stage # "dead"
CalledAreWhole ==
    Listening => \A s \in Called \cap Seated :
                    Whole(s) \/ \E r \in runs : Its(r) /\ r.seat = s
StageOK ==
    /\ client.left \subseteq client.listed
    /\ \A s \in client.listed : seat[s] # "absent"
    /\ client.stage \in {"arriving", "listing"} => client.listed = {}
    /\ client.stage \in {"passing", "reading", "verdict"} => client.left = {}
    /\ client.stage \in {"reading", "verdict"} => status = "closed"
    /\ client.error \in {"none", "refused", "failed", "open"}

GateInv == PanelInv /\ ClientTypeOK /\ Serving /\ CalledAreWhole /\ StageOK

(* Undisturbed: the panel is the founders, no case is gone, the only call  *)
(* there can be is the client's, and only seats it called have answered.   *)
Alone == edits = 0 /\ closedBy # "people" /\ ~OthersCalled
AloneRun(r) ==
    /\ Its(r) /\ r.stage # "dead" /\ r.seat \in Called
    /\ r.stage \in {"listed", "complete"} => r.listed = Founders
    /\ r.stage = "complete" => client.left = {}
AloneOK ==
    /\ client.error \notin {"refused", "open"}
    /\ client.stage # "error" =>
         /\ cases = Cases /\ Seated = Founders
         /\ client.listed = IF client.stage \in {"arriving", "listing"} THEN {} ELSE Founders
         /\ \A s \in Seats \ Called, c \in Cases : grade[s][c] = "none"
         /\ \A r \in runs : AloneRun(r)
         /\ status = "closed" => client.left = {} /\ client.stage \notin {"arriving", "listing"}
         /\ client.stage = "passing" => status = "closed"
AloneInv ==
    /\ Cardinality(Called) <= calls
    /\ Alone => AloneOK

ClientInv == GateInv /\ AloneInv

-----------------------------------------------------------------------------
(* Type correctness.                                                       *)

(* A repeat sample is a part of the cases the call read, so its size and   *)
(* its agreements are counts of cases.                                     *)
LEMMA SampleCounts ==
    ASSUME NEW items \in SUBSET Cases, NEW n, NEW sample \in kSubset(n, items), NEW agreed \in SUBSET sample
    PROVE  Cardinality(sample) \in Counts /\ Cardinality(agreed) \in Counts
<1>1. sample \subseteq Cases /\ agreed \subseteq Cases
    BY DEF kSubset
<1>2. ASSUME NEW S \in SUBSET Cases PROVE Cardinality(S) \in Counts
    BY PanelConstants, FS_Subset, FS_CardinalityType DEF Counts
<1> QED
    BY <1>1, <1>2

(* Replacing a call by another that is a call keeps a set of calls.        *)
LEMMA BecomesType ==
    ASSUME runs \subseteq Runs, NEW r \in runs, NEW next \in Runs, Becomes(r, next)
    PROVE  runs' \subseteq Runs
BY DEF Becomes

(* A poll just opened has the types.                                       *)
LEMMA InitType == Init => TypeOK
<1>1. 0 \in Counts
    BY PanelConstants, FS_CardinalityType DEF Counts
<1>2. [s \in Seats |-> NoRow] \in [Seats -> ConsistencyRows]
    BY <1>1 DEF ConsistencyRows, NoRow
<1> QED
    BY <1>2, PanelConstants DEF Init, TypeOK

(* Every step of a call keeps the types.                                   *)
LEMMA RunStepType ==
    ASSUME TypeOK, NEW r \in runs, RunStep(r) \/ Crash(r)
    PROVE  TypeOK'
<1> USE DEF TypeOK
<1>0. r \in Runs
    OBVIOUS
<1>1. ASSUME NEW c \in Cases, Grade(r, c) PROVE TypeOK'
    <2>1. PICK g \in {"graded", "abstained"} :
            /\ grade' = [grade EXCEPT ![r.seat][c] = g]
            /\ Becomes(r, [r EXCEPT !.todo = @ \ {c}, !.got = @ \cup {g}])
        BY <1>1 DEF Grade
    <2>2. [r EXCEPT !.todo = @ \ {c}, !.got = @ \cup {g}] \in Runs
        BY <1>0 DEF Runs
    <2>3. runs' \subseteq Runs
        BY <2>1, <2>2, BecomesType
    <2>4. grade' \in [Seats -> [Cases -> {"none", "graded", "abstained"}]]
        BY <2>1
    <2> QED
        BY <1>1, <2>3, <2>4 DEF Grade
<1>2. ASSUME NEW c \in Cases, Skip(r, c) PROVE TypeOK'
    <2>1. [r EXCEPT !.todo = @ \ {c}] \in Runs
        BY <1>0 DEF Runs
    <2> QED
        BY <1>2, <2>1, BecomesType DEF Skip
<1>3. ASSUME NEW c \in Cases, GradeFails(r, c) PROVE TypeOK'
    <2>1. [r EXCEPT !.todo = @ \ {c}, !.stage = "dead"] \in Runs
        BY <1>0 DEF Runs
    <2> QED
        BY <1>3, <2>1, BecomesType DEF GradeFails
<1>4. ASSUME Measure(r) PROVE TypeOK'
    <2>1. PICK sample \in kSubset(SampleSize(Cardinality(r.items)), r.items) :
            \E agreed \in SUBSET {c \in {d \in sample \cap cases : grade[r.seat][d] # "abstained"} :
                                    grade[r.seat][c] = "graded"} :
              /\ consistency' = [consistency EXCEPT ![r.seat] =
                   [size |-> Cardinality(sample), agreements |-> Cardinality(agreed),
                    flagged |-> UnderThreshold(Cardinality(agreed), Cardinality(sample))]]
              /\ Becomes(r, [r EXCEPT !.stage = "measured",
                              !.flagged = UnderThreshold(Cardinality(agreed), Cardinality(sample))])
        BY <1>4 DEF Measure
    <2>a. PICK agreed \in SUBSET sample :
              /\ consistency' = [consistency EXCEPT ![r.seat] =
                   [size |-> Cardinality(sample), agreements |-> Cardinality(agreed),
                    flagged |-> UnderThreshold(Cardinality(agreed), Cardinality(sample))]]
              /\ Becomes(r, [r EXCEPT !.stage = "measured",
                              !.flagged = UnderThreshold(Cardinality(agreed), Cardinality(sample))])
        BY <2>1
    <2>b. UnderThreshold(Cardinality(agreed), Cardinality(sample)) \in BOOLEAN
        BY DEF UnderThreshold
    <2>2. r.items \in SUBSET Cases /\ r.seat \in Seats
        BY <1>0 DEF Runs
    <2>3. Cardinality(sample) \in Counts /\ Cardinality(agreed) \in Counts
        BY <2>2, SampleCounts
    <2>4. consistency' \in [Seats -> ConsistencyRows]
        BY <2>a, <2>b, <2>3 DEF ConsistencyRows
    <2>5. [r EXCEPT !.stage = "measured",
             !.flagged = UnderThreshold(Cardinality(agreed), Cardinality(sample))] \in Runs
        BY <1>0, <2>b DEF Runs
    <2>6. runs' \subseteq Runs
        BY <2>a, <2>5, BecomesType
    <2> QED
        BY <1>4, <2>4, <2>6 DEF Measure
<1>5. ASSUME Weigh(r) PROVE TypeOK'
    <2>1. [r EXCEPT !.stage = "weighed"] \in Runs
        BY <1>0 DEF Runs
    <2> QED
        BY <1>5, <2>1, BecomesType DEF Weigh
<1>6. ASSUME ListPanel(r) PROVE TypeOK'
    <2>1. [r EXCEPT !.stage = "listed", !.listed = Seated] \in Runs
        BY <1>0 DEF Runs, Seated
    <2> QED
        BY <1>6, <2>1, BecomesType DEF ListPanel
<1>7. ASSUME CheckProgress(r) PROVE TypeOK'
    <2>1. [r EXCEPT !.stage = "complete"] \in Runs
        BY <1>0 DEF Runs
    <2> QED
        BY <1>7, <2>1, BecomesType DEF CheckProgress
<1>8. ASSUME CloseItself(r) PROVE TypeOK'
    BY <1>8, <1>0 DEF CloseItself, Runs
<1>9. ASSUME Crash(r) PROVE TypeOK'
    BY <1>9, PanelConstants DEF Crash, Disturbs
<1> QED
    BY <1>1, <1>2, <1>3, <1>4, <1>5, <1>6, <1>7, <1>8, <1>9 DEF RunStep

(* So does every step of the poll.                                         *)
LEMMA NextType == TypeOK /\ [Next]_panelVars => TypeOK'
<1> SUFFICES ASSUME TypeOK, [Next]_panelVars PROVE TypeOK'
    OBVIOUS
<1>1. ASSUME NEW s \in Seats, RunBegin(s) PROVE TypeOK'
    <2>1. calls + 1 \in 1..MaxRuns /\ weight[s] \in {"full", "half"}
        BY <1>1, PanelConstants DEF RunBegin, TypeOK
    <2>2. [nr |-> calls + 1, seat |-> s, items |-> cases, todo |-> cases, weight |-> weight[s],
           got |-> {}, flagged |-> FALSE, listed |-> {}, stage |-> "grading"] \in Runs
        BY <2>1 DEF Runs, TypeOK
    <2>3. runs' \subseteq Runs
        BY <1>1, <2>2 DEF RunBegin, TypeOK
    <2>4. calls' \in 0..MaxRuns
        BY <1>1, PanelConstants DEF RunBegin, TypeOK
    <2> QED
        BY <1>1, <2>3, <2>4 DEF RunBegin, TypeOK
<1>2. ASSUME NEW r \in runs, RunStep(r) \/ Crash(r) PROVE TypeOK'
    BY <1>2, RunStepType
<1>3. CASE People
    <2> USE PanelConstants DEF TypeOK, Disturbs
    <2>1. CASE CloseByHand
        BY <2>1 DEF CloseByHand
    <2>2. ASSUME NEW s \in Seats, AddSeat(s) PROVE TypeOK'
        BY <2>2 DEF AddSeat
    <2>3. ASSUME NEW s \in Seats, DeleteSeat(s) PROVE TypeOK'
        <3>1. grade' \in [Seats -> [Cases -> {"none", "graded", "abstained"}]]
            BY <2>3 DEF DeleteSeat
        <3> QED
            BY <2>3, <3>1 DEF DeleteSeat
    <2>4. ASSUME NEW c \in Cases, DeleteCase(c) PROVE TypeOK'
        <3>1. grade' \in [Seats -> [Cases -> {"none", "graded", "abstained"}]]
            BY <2>4 DEF DeleteCase
        <3> QED
            BY <2>4, <3>1 DEF DeleteCase
    <2> QED
        BY <1>3, <2>1, <2>2, <2>3, <2>4 DEF People
<1>4. CASE UNCHANGED panelVars
    BY <1>4 DEF TypeOK, panelVars
<1> QED
    BY <1>1, <1>2, <1>3, <1>4 DEF Next

-----------------------------------------------------------------------------
(* A call that closes the poll closes a whole panel.                       *)

LEMMA InitPanel == Init => PanelInv
<1>1. Init => TypeOK
    BY InitType
<1> QED
    BY <1>1 DEF Init, PanelInv, CallsApart, CloseOK

(* Becoming another call with the same number keeps the numbers apart.     *)
LEMMA BecomesApart ==
    ASSUME CallsApart, NEW r \in runs, NEW next, next.nr = r.nr, Becomes(r, next)
    PROVE  CallsApart'
BY DEF CallsApart, Becomes

(* So does ending.                                                         *)
LEMMA EndsApart ==
    ASSUME CallsApart, runs' \subseteq runs
    PROVE  CallsApart'
BY DEF CallsApart

(* A seat with as many answers as the call had cases to begin with has     *)
(* answered every case there is: none was added since.                     *)
LEMMA DoneIsWholeSeat ==
    ASSUME TypeOK, NEW r \in runs, CallOK(r), NEW s \in Seats, Done(s) >= Cardinality(r.items)
    PROVE  Whole(s)
<1> DEFINE answered == {c \in cases : grade[s][c] # "none"}
<1>1. r.items \subseteq Cases /\ cases \subseteq r.items
    BY DEF TypeOK, Runs, CallOK
<1>2. IsFiniteSet(r.items)
    BY <1>1, PanelConstants, FS_Subset
<1>3. answered \subseteq r.items /\ Cardinality(answered) >= Cardinality(r.items)
    BY <1>1 DEF Done
<1>4. IsFiniteSet(answered) /\ Cardinality(answered) <= Cardinality(r.items)
      /\ (Cardinality(answered) = Cardinality(r.items) => answered = r.items)
    BY <1>2, <1>3, FS_Subset
<1>5. Cardinality(answered) = Cardinality(r.items)
    BY <1>2, <1>3, <1>4, FS_CardinalityType
<1>6. answered = r.items
    BY <1>4, <1>5
<1> QED
    BY <1>1, <1>6 DEF Whole

(* The steps of a call keep what is true of the calls and of the close.    *)
LEMMA RunStepPanel ==
    ASSUME PanelInv, NEW r \in runs, RunStep(r) \/ Crash(r)
    PROVE  PanelInv'
<1> USE DEF PanelInv
<1>t. TypeOK /\ TypeOK'
    BY RunStepType
<1>0. r \in Runs /\ r.seat \in Seats /\ CallOK(r) /\ CallsApart /\ CloseOK
    BY <1>t DEF TypeOK, Runs
<1>1. ASSUME NEW c \in Cases, Grade(r, c) PROVE PanelInv'
    <2>1. PICK g \in {"graded", "abstained"} :
            /\ grade' = [grade EXCEPT ![r.seat][c] = g]
            /\ Becomes(r, [r EXCEPT !.todo = @ \ {c}, !.got = @ \cup {g}])
        BY <1>1 DEF Grade
    <2> DEFINE next == [r EXCEPT !.todo = @ \ {c}, !.got = @ \cup {g}]
    <2>2. /\ next.nr = r.nr /\ next.seat = r.seat /\ next.items = r.items /\ next.listed = r.listed
          /\ next.todo = r.todo \ {c} /\ next.stage = r.stage
        BY <1>0 DEF Runs
    <2>3. \A s \in Seats, d \in Cases : grade[s][d] # "none" => grade'[s][d] # "none"
        BY <2>1 DEF TypeOK
    <2>4. grade'[r.seat][c] # "none"
        BY <2>1, <1>0 DEF TypeOK
    <2>5. UNCHANGED <<seat, cases, status, calls, closedBy, counted>>
        BY <1>1 DEF Grade
    <2>6. Seated' = Seated /\ \A s \in Seats : Whole(s) => Whole(s)'
        BY <2>3, <2>5 DEF Seated, Whole, TypeOK
    <2>7. ASSUME NEW q \in runs PROVE CallOK(q)'
        <3>1. CallOK(q) /\ q.seat \in Seats
            BY DEF TypeOK, Runs
        <3> QED
            BY <3>1, <2>3, <2>5, <2>6 DEF CallOK, Seated, TypeOK
    <2>8. CallOK(next)'
        <3>1. \A d \in cases \ (r.todo \ {c}) : r.seat \in Seated => grade'[r.seat][d] # "none"
            BY <1>0, <2>3, <2>4 DEF CallOK, TypeOK
        <3> HIDE DEF next
        <3> QED
            BY <3>1, <1>0, <1>1, <2>2, <2>5, <2>6 DEF CallOK, Seated, Grade
    <2>9. \A q \in runs' : CallOK(q)'
        BY <2>1, <2>7, <2>8 DEF Becomes
    <2>10. CallsApart'
        BY <1>0, <2>1, <2>2, BecomesApart
    <2>11. CloseOK'
        BY <2>5, <2>6 DEF CloseOK, Seated
    <2> QED
        BY <1>t, <2>9, <2>10, <2>11
<1> DEFINE Still == UNCHANGED <<seat, cases, grade, calls>>
<1>2. ASSUME Still, NEW q, CallOK(q) PROVE CallOK(q)'
    BY <1>2 DEF CallOK, Seated, Whole
<1>3. ASSUME Still, UNCHANGED <<status, closedBy, counted>>, NEW next, next.nr = r.nr, CallOK(next), Becomes(r, next)
      PROVE  PanelInv'
    <2>1. \A q \in runs' : CallOK(q)'
        BY <1>2, <1>3 DEF Becomes
    <2>2. CallsApart'
        BY <1>0, <1>3, BecomesApart
    <2>3. CloseOK'
        BY <1>0, <1>3 DEF CloseOK, Seated, Whole
    <2> QED
        BY <1>t, <2>1, <2>2, <2>3
<1>4. ASSUME Still, UNCHANGED <<status, closedBy, counted>>, runs' = runs \ {r}
      PROVE  PanelInv'
    <2>1. \A q \in runs' : CallOK(q)'
        BY <1>2, <1>4
    <2>2. CallsApart'
        BY <1>0, <1>4, EndsApart
    <2>3. CloseOK'
        BY <1>0, <1>4 DEF CloseOK, Seated, Whole
    <2> QED
        BY <1>t, <2>1, <2>2, <2>3
<1>5. ASSUME NEW c \in Cases, Skip(r, c) PROVE PanelInv'
    <2> DEFINE next == [r EXCEPT !.todo = @ \ {c}]
    <2>1. next.nr = r.nr /\ CallOK(next)
        BY <1>0, <1>5 DEF Runs, CallOK, Skip
    <2> QED
        BY <1>3, <1>5, <2>1 DEF Skip
<1>6. ASSUME NEW c \in Cases, GradeFails(r, c) PROVE PanelInv'
    <2> DEFINE next == [r EXCEPT !.todo = @ \ {c}, !.stage = "dead"]
    <2>1. next.nr = r.nr /\ CallOK(next)
        BY <1>0, <1>6 DEF Runs, CallOK, GradeFails, Seated
    <2> QED
        BY <1>3, <1>6, <2>1 DEF GradeFails
<1>7. ASSUME Measure(r) PROVE PanelInv'
    <2>1. PICK flagged : Becomes(r, [r EXCEPT !.stage = "measured", !.flagged = flagged])
        BY <1>7 DEF Measure
    <2> DEFINE next == [r EXCEPT !.stage = "measured", !.flagged = flagged]
    <2>2. next.nr = r.nr /\ CallOK(next)
        BY <1>0, <1>7 DEF Runs, CallOK, Measure
    <2> QED
        BY <1>3, <1>7, <2>1, <2>2 DEF Measure
<1>8. ASSUME Weigh(r) PROVE PanelInv'
    <2> DEFINE next == [r EXCEPT !.stage = "weighed"]
    <2>1. next.nr = r.nr /\ CallOK(next)
        BY <1>0, <1>8 DEF Runs, CallOK, Weigh
    <2> QED
        BY <1>3, <1>8, <2>1 DEF Weigh
<1>9. ASSUME ListPanel(r) PROVE PanelInv'
    <2> DEFINE next == [r EXCEPT !.stage = "listed", !.listed = Seated]
    <2>1. next.nr = r.nr /\ CallOK(next)
        BY <1>0, <1>9 DEF Runs, CallOK, ListPanel, Seated
    <2> QED
        BY <1>3, <1>9, <2>1 DEF ListPanel
<1>10. ASSUME CheckProgress(r) PROVE PanelInv'
    <2>1. CASE runs' = runs \ {r}
        BY <1>4, <1>10, <2>1 DEF CheckProgress
    <2>2. CASE /\ \A s \in r.listed : Done(s) >= Cardinality(r.items)
               /\ Becomes(r, [r EXCEPT !.stage = "complete"])
        <3> DEFINE next == [r EXCEPT !.stage = "complete"]
        <3>1. \A s \in r.listed \cap Seated : Whole(s)
            BY <1>0, <2>2, DoneIsWholeSeat DEF Seated
        <3>2. next.nr = r.nr /\ CallOK(next)
            BY <1>0, <1>10, <3>1 DEF Runs, CallOK, CheckProgress
        <3> QED
            BY <1>3, <1>10, <2>2, <3>2 DEF CheckProgress
    <2> QED
        BY <1>10, <2>1, <2>2 DEF CheckProgress
<1>11. ASSUME CloseItself(r) PROVE PanelInv'
    <2>1. \A q \in runs' : CallOK(q)'
        BY <1>2, <1>11 DEF CloseItself
    <2>2. CallsApart'
        BY <1>0, <1>11, EndsApart DEF CloseItself
    <2>3. CloseOK'
        BY <1>0, <1>11 DEF CloseItself, CloseOK, CallOK, Seated, Whole, TypeOK
    <2> QED
        BY <1>t, <2>1, <2>2, <2>3
<1>12. ASSUME Crash(r) PROVE PanelInv'
    BY <1>4, <1>12 DEF Crash
<1> QED
    BY <1>1, <1>5, <1>6, <1>7, <1>8, <1>9, <1>10, <1>11, <1>12 DEF RunStep

(* What people do keeps it too: a seat never comes back, a case never      *)
(* comes back, and grades go only with their seat or their case.           *)
LEMMA PeoplePanel ==
    ASSUME PanelInv, People
    PROVE  PanelInv'
<1> USE DEF PanelInv
<1>t. TypeOK /\ TypeOK'
    BY NextType DEF Next
<1>0. CallsApart /\ CloseOK /\ \A q \in runs : CallOK(q) /\ q.seat \in Seats /\ q.listed \subseteq Seats
    BY DEF TypeOK, Runs
<1>1. CASE CloseByHand
    <2>1. \A q \in runs' : CallOK(q)'
        BY <1>0, <1>1 DEF CloseByHand, CallOK, Seated, Whole
    <2>2. CloseOK'
        BY <1>0, <1>1 DEF CloseByHand, CloseOK
    <2> QED
        BY <1>t, <1>0, <1>1, <2>1, <2>2 DEF CloseByHand, CallsApart
<1> DEFINE Keeps ==
      /\ cases' \subseteq cases
      /\ \A s \in Seats : seat[s] # "absent" => seat'[s] # "absent" /\ (seat'[s] = "seated" => seat[s] = "seated")
      /\ \A s \in Seats, c \in cases' : seat'[s] = "seated" => grade'[s][c] = grade[s][c]
      /\ UNCHANGED <<status, runs, calls, closedBy, counted>>
<1>2. ASSUME Keeps PROVE PanelInv'
    <2>1. ASSUME NEW s \in Seats, seat[s] # "absent", s \in Seated' PROVE s \in Seated /\ (Whole(s) => Whole(s)')
        BY <1>2, <2>1 DEF Seated, Whole
    <2>2. ASSUME NEW q \in runs PROVE CallOK(q)'
        BY <1>0, <1>2, <2>1 DEF CallOK, Seated
    <2>3. CloseOK'
        BY <1>0, <1>2, <2>1 DEF CloseOK, TypeOK
    <2> QED
        BY <1>t, <1>0, <1>2, <2>2, <2>3 DEF CallsApart
<1>3. ASSUME NEW s \in Seats, AddSeat(s) PROVE PanelInv'
    BY <1>2, <1>3 DEF AddSeat, TypeOK
<1>4. ASSUME NEW s \in Seats, DeleteSeat(s) PROVE PanelInv'
    BY <1>2, <1>4 DEF DeleteSeat, TypeOK
<1>5. ASSUME NEW c \in Cases, DeleteCase(c) PROVE PanelInv'
    BY <1>2, <1>5 DEF DeleteCase, TypeOK
<1> QED
    BY <1>1, <1>3, <1>4, <1>5 DEF People

(* And so does taking a call.                                              *)
LEMMA RunBeginPanel ==
    ASSUME PanelInv, NEW s \in Seats, RunBegin(s)
    PROVE  PanelInv'
<1> USE DEF PanelInv
<1>t. TypeOK /\ TypeOK'
    BY NextType DEF Next
<1>n. PICK new : new = [nr |-> calls + 1, seat |-> s, items |-> cases, todo |-> cases, weight |-> weight[s],
                        got |-> {}, flagged |-> FALSE, listed |-> {}, stage |-> "grading"]
    OBVIOUS
<1>1. runs' = runs \cup {new} /\ calls' = calls + 1 /\ calls \in Nat /\ seat[s] = "seated"
      /\ UNCHANGED <<seat, cases, status, grade, closedBy, counted>>
    BY <1>t, <1>n DEF RunBegin, TypeOK
<1>2. ASSUME NEW q \in runs PROVE CallOK(q)' /\ q.nr < calls'
    BY <1>t, <1>1 DEF CallOK, Seated, Whole, TypeOK, Runs
<1>f. /\ new.nr = calls + 1 /\ new.seat = s /\ new.items = cases /\ new.todo = cases
      /\ new.listed = {} /\ new.stage = "grading"
    BY <1>n
<1>3. CallOK(new)'
    BY <1>1, <1>f DEF CallOK
<1>4. CallsApart'
    <2>1. \A q \in runs : q.nr # new.nr
        BY <1>1, <1>2, <1>f, <1>t DEF TypeOK, Runs
    <2> QED
        BY <1>1, <2>1 DEF CallsApart
<1>5. CloseOK'
    BY <1>1 DEF CloseOK, Seated, Whole
<1>6. \A q \in runs' : CallOK(q)'
    BY <1>1, <1>2, <1>3
<1> QED
    BY <1>t, <1>4, <1>5, <1>6

(* Every step of panel-run, and of people beside it, keeps the invariant.  *)
LEMMA StepPanel == PanelInv /\ [Next]_panelVars => PanelInv'
<1> SUFFICES ASSUME PanelInv, [Next]_panelVars PROVE PanelInv'
    OBVIOUS
<1>1. CASE UNCHANGED panelVars
    BY <1>1 DEF panelVars, PanelInv, TypeOK, CallOK, CallsApart, CloseOK, Seated, Whole
<1> QED
    BY <1>1, RunBeginPanel, RunStepPanel, PeoplePanel DEF Next

-----------------------------------------------------------------------------
(* The client.                                                             *)

(* Whatever the client does, the poll takes a step of PanelRun or none.    *)
LEMMA ClientStepsThePanel == ClientNext => [Next]_panelVars
BY DEF ClientNext, PageArrives, PageLists, ClientCalls, ClientIsRefused, ClientAsksForPass,
       ClientReads, ServerGoesOn, ServerDies, Turns, Next

(* No step of the poll brings a seat or a case back, opens it again, or    *)
(* takes an answer from a seat that stays.                                 *)
LEMMA NothingComesBack ==
    ASSUME PanelInv, [Next]_panelVars
    PROVE  /\ cases' \subseteq cases
           /\ status = "closed" => status' = "closed" /\ closedBy' = closedBy
           /\ calls' >= calls /\ edits' >= edits
           /\ \A s \in Seats : seat[s] # "absent" =>
                /\ seat'[s] # "absent"
                /\ s \in Seated' => s \in Seated /\ (Whole(s) => Whole(s)')
<1> USE DEF PanelInv
<1> DEFINE Onward ==
      /\ cases' \subseteq cases
      /\ status = "closed" => status' = "closed" /\ closedBy' = closedBy
      /\ calls' >= calls /\ edits' >= edits
<1>1. Onward
    <2>1. calls \in Nat /\ edits \in Nat
        BY PanelConstants DEF TypeOK
    <2>2. ASSUME NEW s \in Seats, RunBegin(s) PROVE Onward
        BY <2>1, <2>2 DEF RunBegin
    <2>3. ASSUME NEW r \in runs, RunStep(r) \/ Crash(r) PROVE Onward
        <3>1. CASE RunStep(r)
            <4>1. UNCHANGED <<cases, calls, edits>>
                BY <3>1 DEF RunStep, Grade, Skip, GradeFails, Measure, Weigh, ListPanel, CheckProgress, CloseItself
            <4>2. status = "closed" => status' = "closed" /\ closedBy' = closedBy
                BY <3>1 DEF RunStep, Grade, Skip, GradeFails, Measure, Weigh, ListPanel, CheckProgress, CloseItself
            <4> QED
                BY <2>1, <4>1, <4>2
        <3>2. CASE Crash(r)
            BY <2>1, <3>2 DEF Crash, Disturbs
        <3> QED
            BY <2>3, <3>1, <3>2
    <2>4. ASSUME People PROVE Onward
        BY <2>1, <2>4 DEF People, CloseByHand, AddSeat, DeleteSeat, DeleteCase, Disturbs
    <2> QED
        BY <2>1, <2>2, <2>3, <2>4 DEF Next, panelVars
<1>2. ASSUME NEW s \in Seats, seat[s] # "absent"
      PROVE  seat'[s] # "absent" /\ (seat'[s] = "seated" => seat[s] = "seated")
    BY <1>2 DEF TypeOK, Next, panelVars, RunBegin, RunStep, Crash, Grade, Skip, GradeFails, Measure, Weigh,
           ListPanel, CheckProgress, CloseItself, People, CloseByHand, AddSeat, DeleteSeat, DeleteCase
<1>3. ASSUME NEW s \in Seats, seat[s] # "absent", seat'[s] = "seated", NEW c \in cases', grade[s][c] # "none"
      PROVE  grade'[s][c] # "none"
    <2>1. c \in Cases /\ c \in cases
        BY <1>1, <1>3 DEF TypeOK
    <2>2. ASSUME NEW r \in runs, NEW d \in Cases, Grade(r, d) PROVE grade'[s][c] # "none"
        BY <1>3, <2>1, <2>2 DEF Grade, TypeOK, Runs
    <2>3. ASSUME NEW t \in Seats, DeleteSeat(t) PROVE grade'[s][c] # "none"
        BY <1>3, <2>1, <2>3 DEF DeleteSeat, TypeOK
    <2>4. ASSUME NEW d \in Cases, DeleteCase(d) PROVE grade'[s][c] # "none"
        BY <1>3, <2>1, <2>4 DEF DeleteCase, TypeOK
    <2>5. CASE UNCHANGED grade
        BY <1>3, <2>5
    <2> QED
        BY <2>2, <2>3, <2>4, <2>5 DEF Next, panelVars, RunBegin, RunStep, Crash, Skip, GradeFails, Measure,
           Weigh, ListPanel, CheckProgress, CloseItself, People, CloseByHand, AddSeat
<1> QED
    BY <1>1, <1>2, <1>3 DEF Seated, Whole

(* A call that goes on keeps its number and its seat, or is over.          *)
LEMMA RunGoesOnOrEnds ==
    ASSUME TypeOK, NEW r \in runs, RunStep(r)
    PROVE  \/ runs' = runs \ {r} /\ r.stage \notin {"grading", "dead"}
           \/ \E next \in Runs : next.nr = r.nr /\ next.seat = r.seat /\ Becomes(r, next)
<1>0. r \in Runs
    BY DEF TypeOK
<1>1. ASSUME NEW c \in Cases, Grade(r, c)
      PROVE  \E next \in Runs : next.nr = r.nr /\ next.seat = r.seat /\ Becomes(r, next)
    <2>1. PICK g \in {"graded", "abstained"} : Becomes(r, [r EXCEPT !.todo = @ \ {c}, !.got = @ \cup {g}])
        BY <1>1 DEF Grade
    <2>2. [r EXCEPT !.todo = @ \ {c}, !.got = @ \cup {g}] \in Runs
        BY <1>0 DEF Runs
    <2> QED
        BY <1>0, <2>1, <2>2 DEF Runs
<1>2. ASSUME NEW c \in Cases, Skip(r, c)
      PROVE  \E next \in Runs : next.nr = r.nr /\ next.seat = r.seat /\ Becomes(r, next)
    <2>1. [r EXCEPT !.todo = @ \ {c}] \in Runs
        BY <1>0 DEF Runs
    <2> QED
        BY <1>0, <1>2, <2>1 DEF Runs, Skip
<1>3. ASSUME NEW c \in Cases, GradeFails(r, c)
      PROVE  \E next \in Runs : next.nr = r.nr /\ next.seat = r.seat /\ Becomes(r, next)
    <2>1. [r EXCEPT !.todo = @ \ {c}, !.stage = "dead"] \in Runs
        BY <1>0 DEF Runs
    <2> QED
        BY <1>0, <1>3, <2>1 DEF Runs, GradeFails
<1>4. ASSUME Measure(r)
      PROVE  \E next \in Runs : next.nr = r.nr /\ next.seat = r.seat /\ Becomes(r, next)
    <2>1. PICK flagged \in BOOLEAN : Becomes(r, [r EXCEPT !.stage = "measured", !.flagged = flagged])
        BY <1>4 DEF Measure, UnderThreshold
    <2>2. [r EXCEPT !.stage = "measured", !.flagged = flagged] \in Runs
        BY <1>0 DEF Runs
    <2> QED
        BY <1>0, <2>1, <2>2 DEF Runs
<1>5. ASSUME Weigh(r)
      PROVE  \E next \in Runs : next.nr = r.nr /\ next.seat = r.seat /\ Becomes(r, next)
    <2>1. [r EXCEPT !.stage = "weighed"] \in Runs
        BY <1>0 DEF Runs
    <2> QED
        BY <1>0, <1>5, <2>1 DEF Runs, Weigh
<1>6. ASSUME ListPanel(r)
      PROVE  \E next \in Runs : next.nr = r.nr /\ next.seat = r.seat /\ Becomes(r, next)
    <2>1. [r EXCEPT !.stage = "listed", !.listed = Seated] \in Runs
        BY <1>0 DEF Runs, Seated
    <2> QED
        BY <1>0, <1>6, <2>1 DEF Runs, ListPanel
<1>7. ASSUME CheckProgress(r)
      PROVE  \/ runs' = runs \ {r} /\ r.stage \notin {"grading", "dead"}
             \/ \E next \in Runs : next.nr = r.nr /\ next.seat = r.seat /\ Becomes(r, next)
    <2>1. [r EXCEPT !.stage = "complete"] \in Runs
        BY <1>0 DEF Runs
    <2> QED
        BY <1>0, <1>7, <2>1 DEF Runs, CheckProgress
<1>8. ASSUME CloseItself(r)
      PROVE  runs' = runs \ {r} /\ r.stage \notin {"grading", "dead"}
    BY <1>8 DEF CloseItself
<1> QED
    BY <1>1, <1>2, <1>3, <1>4, <1>5, <1>6, <1>7, <1>8 DEF RunStep

(* A client that has just arrived has called nobody.                       *)
LEMMA ClientInitGate == ClientInit => GateInv
<1> SUFFICES ASSUME ClientInit PROVE GateInv
    OBVIOUS
<1>1. PanelInv
    BY InitPanel DEF ClientInit
<1>2. \A s \in Founders : s \in Seats /\ seat[s] # "absent"
    BY PanelConstants DEF ClientInit, Init
<1>3. 0 \in 0..MaxRuns
    BY PanelConstants
<1>4. client \in Clients
    BY <1>3, PanelConstants DEF ClientInit, Client, Clients
<1> QED
    BY <1>1, <1>2, <1>4 DEF ClientInit, Client, GateInv, ClientTypeOK, PanelInv, Serving, CalledAreWhole,
       StageOK, Listening, Called

(* What the client holds keeps its type.                                   *)
LEMMA ClientType ==
    ASSUME GateInv, ClientNext
    PROVE  client' \in Clients
<1> USE DEF GateInv, ClientTypeOK
<1>1. TypeOK /\ TypeOK' /\ client \in Clients
    BY ClientStepsThePanel, NextType
<1>2. CASE PageArrives \/ ClientAsksForPass \/ ClientReads \/ \E s \in Seats : ClientIsRefused(s)
    BY <1>1, <1>2 DEF PageArrives, ClientIsRefused, ClientAsksForPass, ClientReads, Turns, Fails, Clients
<1>3. CASE PageLists
    <2>1. 0 \in 0..MaxRuns /\ Seated \subseteq Seats
        BY PanelConstants DEF Seated
    <2> QED
        BY <1>3, <2>1 DEF PageLists, Turns, Client, Clients
<1>4. ASSUME NEW s \in Seats, ClientCalls(s) PROVE client' \in Clients
    <2>1. calls + 1 \in 0..MaxRuns
        BY <1>1, <1>4, PanelConstants DEF ClientCalls, RunBegin, TypeOK
    <2> QED
        BY <1>1, <1>4, <2>1 DEF ClientCalls, Clients
<1>5. ASSUME NEW r \in runs, ServerGoesOn(r) \/ ServerDies(r) PROVE client' \in Clients
    BY <1>1, <1>5 DEF ServerGoesOn, ServerDies, Heard, Fails, Clients
<1> QED
    BY <1>1, <1>2, <1>3, <1>4, <1>5 DEF ClientNext

(* The gate: every step of the client, and of the poll behind its back,    *)
(* leaves the seats it has called whole.                                   *)
LEMMA ClientStepGate ==
    ASSUME GateInv, [ClientNext]_clientVars
    PROVE  GateInv'
<1> USE DEF GateInv
<1>1. [Next]_panelVars
    BY ClientStepsThePanel DEF clientVars
<1>2. PanelInv /\ PanelInv' /\ TypeOK /\ TypeOK' /\ client \in Clients
    BY <1>1, StepPanel DEF PanelInv, ClientTypeOK
<1>3. ClientTypeOK'
    BY <1>2, ClientType DEF ClientTypeOK, clientVars
<1>4. /\ status = "closed" => status' = "closed"
      /\ \A s \in Seats : seat[s] # "absent" =>
           /\ seat'[s] # "absent"
           /\ s \in Seated' => s \in Seated /\ (Whole(s) => Whole(s)')
    BY <1>1, <1>2, NothingComesBack
<1>5. client.listed \subseteq Seats /\ client.left \subseteq client.listed
      /\ \A s \in client.listed : s \in Seats /\ seat[s] # "absent"
    BY <1>2 DEF Clients, StageOK
(* A step that leaves the client alone and its call being served.          *)
<1>6. ASSUME UNCHANGED client,
             \A r \in runs : Its(r) => \E q \in runs' : q.nr = r.nr /\ q.seat = r.seat,
             \A r \in runs : Its(r) /\ r.stage # "dead" => \E q \in runs' : q.nr = r.nr /\ q.stage # "dead"
      PROVE  GateInv'
    <2>1. Serving'
        BY <1>6 DEF Serving, Its
    <2>2. CalledAreWhole'
        BY <1>4, <1>5, <1>6 DEF CalledAreWhole, Listening, Called, Its
    <2>3. StageOK'
        BY <1>4, <1>5, <1>6 DEF StageOK
    <2> QED
        BY <1>2, <1>3, <2>1, <2>2, <2>3
(* A step of the client alone, that is not waiting before or after.        *)
<1>7. ASSUME UNCHANGED panelVars, client.stage # "waiting", client'.stage # "waiting",
             client'.listed = client.listed, client'.left = client.left,
             Listening' => Listening, StageOK'
      PROVE  GateInv'
    <2>1. Serving'
        BY <1>7 DEF Serving
    <2>2. CalledAreWhole'
        <3>1. Seated' = Seated /\ \A s : Whole(s) => Whole(s)'
            BY <1>7 DEF panelVars, Seated, Whole
        <3> QED
            BY <3>1, <1>7 DEF CalledAreWhole, Called, Its
    <2> QED
        BY <1>2, <1>3, <1>7, <2>1, <2>2
<1>8. CASE UNCHANGED clientVars
    BY <1>6, <1>8 DEF clientVars, panelVars
<1>9. CASE PageArrives
    <2>1. client' = [client EXCEPT !.stage = IF status = "closed" THEN "reading" ELSE "listing"]
          /\ client.stage = "arriving" /\ UNCHANGED panelVars
        BY <1>9 DEF PageArrives, Turns
    <2>2. /\ client'.stage = IF status = "closed" THEN "reading" ELSE "listing"
          /\ client'.listed = {} /\ client'.left = {} /\ client'.error = client.error
        BY <1>2, <1>5, <2>1 DEF Clients, StageOK
    <2>3. StageOK'
        BY <1>4, <2>1, <2>2 DEF StageOK
    <2>4. CalledAreWhole' /\ Serving'
        BY <2>2 DEF CalledAreWhole, Called, Serving
    <2> QED
        BY <1>2, <1>3, <2>3, <2>4
<1>10. CASE PageLists
    <2>1. /\ client'.stage = IF Seated = {} THEN "passing" ELSE "asking"
          /\ client'.listed = Seated /\ client'.left = Seated /\ client'.error = "none"
          /\ UNCHANGED panelVars
        BY <1>10 DEF PageLists, Turns, Client
    <2>2. StageOK'
        BY <2>1 DEF StageOK, Seated, panelVars
    <2>3. CalledAreWhole' /\ Serving'
        BY <2>1 DEF CalledAreWhole, Called, Serving
    <2> QED
        BY <1>2, <1>3, <2>2, <2>3
<1>11. ASSUME NEW s \in Seats, ClientCalls(s) PROVE GateInv'
    <2>1. /\ client.stage = "asking" /\ s \in client.left
          /\ client'.stage = "waiting" /\ client'.listed = client.listed /\ client'.left = client.left \ {s}
          /\ client'.nr = calls + 1 /\ client'.error = client.error
        BY <1>2, <1>11 DEF ClientCalls, Clients
    <2>2. PICK new \in runs' : new.nr = calls + 1 /\ new.seat = s /\ new.stage = "grading"
        <3>1. [nr |-> calls + 1, seat |-> s, items |-> cases, todo |-> cases, weight |-> weight[s],
               got |-> {}, flagged |-> FALSE, listed |-> {}, stage |-> "grading"] \in runs'
            BY <1>11 DEF ClientCalls, RunBegin
        <3> QED
            BY <3>1
    <2>3. Serving'
        BY <2>1, <2>2 DEF Serving, Its
    <2>4. CalledAreWhole'
        <3>1. ASSUME NEW t \in Called', t \in Seated' PROVE Whole(t)' \/ \E r \in runs' : Its(r)' /\ r.seat = t
            <4>1. CASE t = s
                BY <2>1, <2>2, <4>1 DEF Its
            <4>2. CASE t # s
                <5>1. t \in Called
                    BY <2>1, <3>1, <4>2 DEF Called
                <5>2. Whole(t)
                    BY <1>4, <1>5, <2>1, <3>1, <5>1 DEF CalledAreWhole, Listening, Called, Its
                <5> QED
                    BY <1>4, <1>5, <3>1, <5>1, <5>2 DEF Called
            <4> QED
                BY <4>1, <4>2
        <3> QED
            BY <3>1 DEF CalledAreWhole
    <2>5. StageOK'
        BY <1>4, <1>5, <2>1 DEF StageOK
    <2> QED
        BY <1>2, <1>3, <2>3, <2>4, <2>5
<1>12. ASSUME NEW s \in Seats, ClientIsRefused(s) PROVE GateInv'
    <2>1. /\ client'.stage = "error" /\ client'.listed = client.listed /\ client'.left = client.left
          /\ client'.error = "refused" /\ client.stage = "asking" /\ UNCHANGED panelVars
        BY <1>2, <1>12 DEF ClientIsRefused, Turns, Fails, Clients
    <2>2. StageOK' /\ ~Listening'
        BY <1>4, <1>5, <2>1 DEF StageOK, Listening
    <2> QED
        BY <1>7, <2>1, <2>2
<1>13. CASE ClientAsksForPass
    <2>1. /\ client.stage = "passing" /\ client'.listed = client.listed /\ client'.left = client.left
          /\ \/ client'.stage = "error" /\ client'.error \in {"open", "failed"}
             \/ client'.stage = "reading" /\ client'.error = client.error /\ status = "closed"
          /\ UNCHANGED panelVars
        BY <1>2, <1>13 DEF ClientAsksForPass, Turns, Fails, Clients
    <2>2. StageOK' /\ Listening
        BY <1>4, <1>5, <2>1 DEF StageOK, Listening
    <2> QED
        BY <1>7, <2>1, <2>2
<1>14. CASE ClientReads
    <2>1. /\ client.stage = "reading" /\ client'.listed = client.listed /\ client'.left = client.left
          /\ \/ client'.stage = "error" /\ client'.error = "open"
             \/ client'.stage = "verdict" /\ client'.error = client.error /\ status = "closed"
          /\ UNCHANGED panelVars
        BY <1>2, <1>14 DEF ClientReads, Turns, Fails, Clients
    <2>2. StageOK' /\ Listening
        BY <1>4, <1>5, <2>1 DEF StageOK, Listening
    <2> QED
        BY <1>7, <2>1, <2>2
(* The end of the client's own call.                                       *)
<1>15. ASSUME NEW r \in runs, Its(r), NEW answered \in BOOLEAN, client' = Heard(answered, r),
              answered => r.stage \notin {"grading", "dead"}
       PROVE  GateInv'
    <2>1. CASE client' = Fails("failed")
        <3>1. /\ client'.stage = "error" /\ client'.listed = client.listed /\ client'.left = client.left
              /\ client'.error = "failed"
            BY <1>2, <2>1 DEF Fails, Clients
        <3>2. StageOK'
            BY <1>4, <1>5, <3>1 DEF StageOK
        <3>3. CalledAreWhole' /\ Serving'
            BY <3>1 DEF CalledAreWhole, Listening, Serving
        <3> QED
            BY <1>2, <1>3, <3>2, <3>3
    <2>2. CASE answered /\ client' = [client EXCEPT !.stage = IF client.left = {} THEN "passing" ELSE "asking"]
        <3>1. /\ client.stage = "waiting" /\ client'.listed = client.listed /\ client'.left = client.left
              /\ client'.stage = IF client.left = {} THEN "passing" ELSE "asking"
              /\ client'.error = client.error
            BY <1>2, <1>15, <2>2 DEF Its, Clients
        <3>2. r.seat \in Seated => Whole(r.seat)
            BY <1>2, <1>15, <2>2 DEF PanelInv, CallOK, Whole
        <3>3. ASSUME NEW s \in Called, s \in Seated PROVE Whole(s)
            <4>1. Whole(s) \/ \E q \in runs : Its(q) /\ q.seat = s
                BY <3>1, <3>3 DEF CalledAreWhole, Listening
            <4>2. \A q \in runs : Its(q) => q = r
                BY <1>2, <1>15 DEF PanelInv, CallsApart, Its
            <4> QED
                BY <3>2, <3>3, <4>1, <4>2
        <3>4. CalledAreWhole'
            BY <1>4, <1>5, <3>1, <3>3 DEF CalledAreWhole, Called
        <3>5. StageOK' /\ Serving'
            BY <1>4, <1>5, <3>1 DEF StageOK, Serving
        <3> QED
            BY <1>2, <1>3, <3>4, <3>5
    <2> QED
        BY <1>15, <2>1, <2>2 DEF Heard
<1>16. ASSUME NEW r \in runs, ServerGoesOn(r) PROVE GateInv'
    <2>1. RunStep(r)
        BY <1>16 DEF ServerGoesOn
    <2>2. \/ runs' = runs \ {r} /\ r.stage \notin {"grading", "dead"}
          \/ \E next \in Runs : next.nr = r.nr /\ next.seat = r.seat /\ Becomes(r, next)
        BY <1>2, <2>1, RunGoesOnOrEnds
    <2>3. CASE ~Its(r)
        <3>1. \A q \in runs : Its(q) => q \in runs'
            BY <2>2, <2>3 DEF Becomes
        <3> QED
            BY <1>6, <1>16, <2>3, <3>1 DEF ServerGoesOn
    <2>4. CASE Its(r) /\ Goes(r)
        <3>1. \A q \in runs : Its(q) => q = r
            BY <1>2, <2>4 DEF PanelInv, CallsApart, Its
        <3>2. PICK q \in runs' : q.nr = r.nr /\ q.stage # "dead"
            BY <2>4 DEF Goes
        <3>3. q.seat = r.seat
            BY <1>2, <2>2, <3>2 DEF PanelInv, CallsApart, Becomes
        <3> QED
            BY <1>6, <1>16, <2>4, <3>1, <3>2, <3>3 DEF ServerGoesOn
    <2>5. CASE Its(r) /\ ~Goes(r)
        <3>1. r.stage # "dead"
            BY <1>2, <2>5 DEF PanelInv, CallsApart, Its, Serving
        <3> QED
            BY <1>15, <1>16, <2>5, <3>1 DEF ServerGoesOn
    <2> QED
        BY <2>3, <2>4, <2>5
<1>17. ASSUME NEW r \in runs, ServerDies(r) PROVE GateInv'
    <2>1. runs' = runs \ {r}
        BY <1>17 DEF ServerDies, Crash
    <2>2. CASE ~Its(r)
        BY <1>6, <1>17, <2>1, <2>2 DEF ServerDies
    <2>3. CASE Its(r)
        BY <1>15, <1>17, <2>3 DEF ServerDies
    <2> QED
        BY <2>2, <2>3
<1>18. ASSUME NEW s \in Seats, RunBegin(s), UNCHANGED client PROVE GateInv'
    <2>1. runs \subseteq runs'
        BY <1>18 DEF RunBegin
    <2> QED
        BY <1>6, <1>18, <2>1
<1>19. ASSUME People, UNCHANGED client PROVE GateInv'
    <2>1. UNCHANGED runs
        BY <1>19 DEF People, CloseByHand, AddSeat, DeleteSeat, DeleteCase
    <2> QED
        BY <1>6, <1>19, <2>1
<1> QED
    BY <1>8, <1>9, <1>10, <1>11, <1>12, <1>13, <1>14, <1>16, <1>17, <1>18, <1>19 DEF ClientNext

-----------------------------------------------------------------------------
(* Alone.                                                                  *)

LEMMA ClientInitAlone == ClientInit => AloneInv
<1> SUFFICES ASSUME ClientInit PROVE AloneInv
    OBVIOUS
<1>1. Called = {} /\ calls = 0 /\ Cardinality({}) = 0
    BY FS_EmptySet DEF ClientInit, Init, Client, Called
<1>2. Seated = Founders
    BY PanelConstants DEF ClientInit, Init, Seated
<1>3. AloneOK
    BY <1>1, <1>2 DEF ClientInit, Init, Client, AloneOK
<1> QED
    BY <1>1, <1>3 DEF AloneInv

(* Each call of the client's own is one more seat called, and every other  *)
(* call is one more than that: who was disturbed stays so.                 *)
LEMMA CallsAreCounted ==
    ASSUME GateInv, AloneInv, [ClientNext]_clientVars
    PROVE  /\ Cardinality(Called') <= calls'
           /\ Alone' => Alone /\ (calls' = calls \/ \E s \in Seats : ClientCalls(s))
<1> USE DEF GateInv
<1>1. [Next]_panelVars /\ PanelInv /\ TypeOK /\ client \in Clients
    BY ClientStepsThePanel DEF clientVars, PanelInv, ClientTypeOK
<1>2. calls \in Nat /\ edits \in Nat /\ calls' \in Nat /\ edits' \in Nat /\ IsFiniteSet(Called)
    <2>1. Called \subseteq Seats
        BY <1>1 DEF Called, Clients
    <2>2. TypeOK'
        BY <1>1, NextType
    <2> QED
        BY <1>1, <2>1, <2>2, PanelConstants, FS_Subset DEF TypeOK
<1>3. calls' >= calls /\ edits' >= edits /\ (closedBy = "people" => closedBy' = "people")
    BY <1>1, NothingComesBack DEF CloseOK, PanelInv
<1>4. Cardinality(Called) \in Nat /\ Cardinality(Called) <= calls
    BY <1>2, FS_CardinalityType DEF AloneInv
<1>5. (Alone <=> edits = 0 /\ closedBy # "people" /\ calls <= Cardinality(Called))
      /\ (Alone' <=> edits' = 0 /\ closedBy' # "people" /\ ~(calls' > Cardinality(Called')))
    BY <1>2, <1>4 DEF Alone, OthersCalled, Called
<1>6. CASE Called' = Called
    BY <1>2, <1>3, <1>4, <1>5, <1>6
<1>7. CASE Called' = {} /\ calls' = calls
    <2>1. Cardinality(Called') = 0
        BY <1>7, FS_EmptySet
    <2> QED
        BY <1>2, <1>3, <1>4, <1>5, <1>7, <2>1
<1>8. ASSUME NEW s \in Seats, ClientCalls(s)
      PROVE  Cardinality(Called') <= calls' /\ (Alone' => Alone)
    <2>1. Called' = Called \cup {s} /\ s \notin Called /\ calls' = calls + 1
        BY <1>1, <1>8 DEF ClientCalls, RunBegin, Called, Clients, StageOK
    <2>2. Cardinality(Called') = Cardinality(Called) + 1
        BY <1>2, <2>1, FS_AddElement
    <2> QED
        BY <1>2, <1>3, <1>4, <1>5, <2>1, <2>2
<1>9. CASE PageLists
    BY <1>7, <1>9 DEF PageLists, Turns, Client, Called, panelVars
<1>10. CASE \/ PageArrives \/ ClientAsksForPass \/ ClientReads \/ (\E s \in Seats : ClientIsRefused(s))
            \/ UNCHANGED client
            \/ \E r \in runs : ServerGoesOn(r) \/ ServerDies(r)
    <2>1. client'.listed = client.listed /\ client'.left = client.left
        BY <1>1, <1>10 DEF PageArrives, ClientIsRefused, ClientAsksForPass, ClientReads, Turns, Fails,
           ServerGoesOn, ServerDies, Heard, Clients
    <2> QED
        BY <1>6, <2>1 DEF Called
<1> QED
    BY <1>8, <1>9, <1>10 DEF ClientNext, clientVars

(* When the client's own call is over and its last seat was called, the    *)
(* call found the whole panel done and closed the poll.                    *)
LEMMA LastCallFindsAll ==
    ASSUME GateInv, AloneOK, client.stage # "error", NEW r \in runs, r.stage = "listed", client.left = {},
           CheckProgress(r)
    PROVE  Becomes(r, [r EXCEPT !.stage = "complete"])
<1> USE DEF GateInv, PanelInv
<1>1. TypeOK /\ r \in Runs /\ CallOK(r) /\ Its(r) /\ r.listed = Founders /\ r.todo = {}
      /\ cases = Cases /\ Seated = Founders /\ client.listed = Founders
    BY DEF TypeOK, AloneOK, AloneRun, CallOK, Its
<1>2. r.items = Cases
    BY <1>1 DEF Runs, CallOK
<1>3. ASSUME NEW s \in Founders PROVE Done(s) >= Cardinality(r.items)
    <2>1. Whole(s) \/ \E q \in runs : Its(q) /\ q.seat = s
        BY <1>1, <1>3 DEF CalledAreWhole, Listening, Called, Its
    <2>2. \A q \in runs : Its(q) => q = r
        BY <1>1 DEF CallsApart, Its
    <2>3. Whole(s)
        BY <1>1, <1>3, <2>1, <2>2 DEF CallOK, Whole
    <2>4. {c \in cases : grade[s][c] # "none"} = Cases
        BY <1>1, <2>3 DEF Whole
    <2>5. Cardinality(Cases) \in Nat
        BY PanelConstants, FS_CardinalityType
    <2> QED
        BY <1>2, <2>4, <2>5 DEF Done
<1> QED
    BY <1>1, <1>3 DEF CheckProgress

(* While nobody disturbs it, each step of the client's call, and what the  *)
(* client makes of it.                                                     *)
LEMMA OwnCallAlone ==
    ASSUME GateInv, AloneOK, client.stage # "error", edits' = 0, NEW r \in runs, ServerGoesOn(r)
    PROVE  AloneOK'
<1> USE DEF GateInv, PanelInv
<1>1. TypeOK /\ r \in Runs /\ client \in Clients /\ CallsApart /\ CallOK(r) /\ AloneRun(r) /\ Its(r) /\ RunStep(r)
    BY DEF TypeOK, ClientTypeOK, AloneOK, AloneRun, ServerGoesOn
<1>2. /\ cases = Cases /\ Seated = Founders /\ client.listed = Founders /\ client.stage = "waiting"
      /\ client.left \subseteq Founders /\ client.error \notin {"refused", "open"}
      /\ \A s \in Seats \ Called, c \in Cases : grade[s][c] = "none"
      /\ status = "closed" => client.left = {}
      /\ r.seat \in Called /\ r.seat \in Seats /\ runs = {r} /\ r.todo \subseteq Cases
    <2>1. runs = {r}
        BY <1>1 DEF AloneOK, AloneRun, CallsApart, Its
    <2> QED
        BY <1>1, <2>1 DEF AloneOK, AloneRun, Its, StageOK, Runs
(* The call goes on.                                                       *)
<1>3. ASSUME NEW next \in Runs, next.nr = r.nr, next.seat = r.seat, Becomes(r, next), next.stage # "dead",
             next.stage \in {"listed", "complete"} => next.listed = Founders,
             next.stage = "complete" => client.left = {},
             UNCHANGED <<seat, cases, status>>,
             \A s \in Seats \ {r.seat}, c \in Cases : grade'[s][c] = grade[s][c]
      PROVE  AloneOK'
    <2>1. runs' = {next}
        BY <1>2, <1>3 DEF Becomes
    <2>2. UNCHANGED client
        BY <1>3, <2>1 DEF ServerGoesOn, Goes
    <2>3. AloneRun(next)'
        BY <1>1, <1>2, <1>3, <2>2 DEF AloneRun, Its, Called
    <2>4. \A s \in Seats \ Called', c \in Cases : grade'[s][c] = "none"
        BY <1>2, <1>3, <2>2 DEF Called
    <2>5. cases' = Cases /\ Seated' = Founders
        BY <1>2, <1>3 DEF Seated
    <2> QED
        BY <1>2, <1>3, <2>1, <2>2, <2>3, <2>4, <2>5 DEF AloneOK
(* The call is over.                                                       *)
<1>4. ASSUME runs' = runs \ {r}, UNCHANGED <<seat, cases, grade>>, r.stage # "grading",
             client.left = {} => status' = "closed", status' = "closed" => client.left = {}
      PROVE  AloneOK'
    <2>1. runs' = {} /\ ~Goes(r)
        BY <1>2, <1>4 DEF Goes
    <2>2. client' = Heard(TRUE, r)
        BY <1>1, <1>4, <2>1 DEF ServerGoesOn
    <2>3. /\ client'.listed = Founders /\ client'.left = client.left
          /\ \/ client'.stage = "error" /\ client'.error = "failed"
             \/ /\ client'.stage = IF client.left = {} THEN "passing" ELSE "asking"
                /\ client'.error = client.error
        BY <1>1, <1>2, <2>2 DEF Heard, Fails, Clients
    <2>4. \A s \in Seats \ Called', c \in Cases : grade'[s][c] = "none"
        BY <1>2, <1>4, <2>3 DEF Called
    <2>5. cases' = Cases /\ Seated' = Founders
        BY <1>2, <1>4 DEF Seated
    <2> QED
        BY <1>2, <1>4, <2>1, <2>3, <2>4, <2>5 DEF AloneOK
<1>5. ASSUME NEW c \in Cases, Grade(r, c) PROVE AloneOK'
    <2>1. PICK g \in {"graded", "abstained"} :
            /\ grade' = [grade EXCEPT ![r.seat][c] = g]
            /\ Becomes(r, [r EXCEPT !.todo = @ \ {c}, !.got = @ \cup {g}])
        BY <1>5 DEF Grade
    <2>2. [r EXCEPT !.todo = @ \ {c}, !.got = @ \cup {g}] \in Runs
        BY <1>1 DEF Runs
    <2>3. \A s \in Seats \ {r.seat}, d \in Cases : grade'[s][d] = grade[s][d]
        BY <1>1, <2>1 DEF TypeOK
    <2> QED
        BY <1>1, <1>3, <1>5, <2>1, <2>2, <2>3 DEF Grade, Runs, AloneRun
<1>6. ASSUME NEW c \in Cases, Skip(r, c) PROVE AloneOK'
    BY <1>2, <1>6 DEF Skip
<1>7. ASSUME NEW c \in Cases, GradeFails(r, c) PROVE AloneOK'
    <2>1. seat[r.seat] = "gone"
        BY <1>2, <1>7 DEF GradeFails
    <2>2. r.seat \in Seated
        BY <1>2 DEF Called
    <2> QED
        BY <2>1, <2>2 DEF Seated
<1>8. ASSUME Measure(r) PROVE AloneOK'
    <2>1. PICK flagged \in BOOLEAN : Becomes(r, [r EXCEPT !.stage = "measured", !.flagged = flagged])
        BY <1>8 DEF Measure, UnderThreshold
    <2>2. [r EXCEPT !.stage = "measured", !.flagged = flagged] \in Runs
        BY <1>1 DEF Runs
    <2> QED
        BY <1>1, <1>3, <1>8, <2>1, <2>2 DEF Measure, Runs
<1>9. ASSUME Weigh(r) PROVE AloneOK'
    <2>1. [r EXCEPT !.stage = "weighed"] \in Runs
        BY <1>1 DEF Runs
    <2> QED
        BY <1>1, <1>3, <1>9, <2>1 DEF Weigh, Runs
<1>10. ASSUME ListPanel(r) PROVE AloneOK'
    <2>1. [r EXCEPT !.stage = "listed", !.listed = Seated] \in Runs
        BY <1>1 DEF Runs, Seated
    <2> QED
        BY <1>1, <1>2, <1>3, <1>10, <2>1 DEF ListPanel, Runs
<1>11. ASSUME CheckProgress(r) PROVE AloneOK'
    <2>1. r.listed = Founders
        BY <1>1, <1>11 DEF CheckProgress, AloneRun
    <2>2. CASE /\ \A s \in r.listed : Done(s) >= Cardinality(r.items)
               /\ Becomes(r, [r EXCEPT !.stage = "complete"])
        <3>1. \A s \in Founders : Whole(s)
            BY <1>1, <2>1, <2>2, PanelConstants, DoneIsWholeSeat
        <3>2. client.left = {}
            BY <1>2, <3>1, PanelConstants DEF Whole, Called
        <3>3. [r EXCEPT !.stage = "complete"] \in Runs
            BY <1>1 DEF Runs
        <3> QED
            BY <1>1, <1>3, <1>11, <2>1, <2>2, <3>2, <3>3 DEF CheckProgress, Runs
    <2>3. CASE runs' = runs \ {r}
        <3>1. client.left # {}
            <4>1. SUFFICES ASSUME client.left = {} PROVE FALSE
                OBVIOUS
            <4>2. Becomes(r, [r EXCEPT !.stage = "complete"])
                BY <1>11, <4>1, LastCallFindsAll DEF CheckProgress
            <4> QED
                BY <2>3, <1>2, <4>2 DEF Becomes
        <3> QED
            BY <1>2, <1>4, <1>11, <2>3, <3>1 DEF CheckProgress
    <2> QED
        BY <1>11, <2>2, <2>3 DEF CheckProgress
<1>12. ASSUME CloseItself(r) PROVE AloneOK'
    BY <1>1, <1>4, <1>12 DEF CloseItself, AloneRun, TypeOK
<1> QED
    BY <1>1, <1>5, <1>6, <1>7, <1>8, <1>9, <1>10, <1>11, <1>12 DEF RunStep

(* A client that a step leaves undisturbed was undisturbed before, and     *)
(* keeps what is true of it.                                               *)
LEMMA ClientStepAlone ==
    ASSUME GateInv, AloneInv, [ClientNext]_clientVars
    PROVE  AloneInv'
<1>1. Cardinality(Called') <= calls' /\ (Alone' => Alone /\ (calls' = calls \/ \E s \in Seats : ClientCalls(s)))
    BY CallsAreCounted
<1> SUFFICES ASSUME Alone' PROVE AloneOK'
    BY <1>1 DEF AloneInv, Called
<1>2. AloneOK /\ edits = 0 /\ edits' = 0 /\ closedBy' # "people"
    BY <1>1 DEF AloneInv, Alone
<1>3. TypeOK /\ client \in Clients /\ PanelInv /\ StageOK
    BY DEF GateInv, PanelInv, ClientTypeOK
<1>4. calls \in Nat
    BY <1>3, PanelConstants DEF TypeOK
<1>5. CASE client.stage = "error"
    <2>1. client'.stage = "error" /\ client'.error = client.error
        BY <1>3, <1>5 DEF ClientNext, clientVars, PageArrives, PageLists, ClientCalls, ClientIsRefused,
           ClientAsksForPass, ClientReads, ServerGoesOn, ServerDies, Its
    <2> QED
        BY <1>2, <1>5, <2>1 DEF AloneOK
<1>6. CASE client.stage # "error"
    <2>1. /\ cases = Cases /\ Seated = Founders
          /\ client.listed = IF client.stage \in {"arriving", "listing"} THEN {} ELSE Founders
          /\ \A s \in Seats \ Called, c \in Cases : grade[s][c] = "none"
          /\ \A r \in runs : AloneRun(r)
          /\ status = "closed" => client.left = {} /\ client.stage \notin {"arriving", "listing"}
          /\ client.stage = "passing" => status = "closed"
          /\ client.error \notin {"refused", "open"}
        BY <1>2, <1>6 DEF AloneOK
    <2>2. client.stage # "waiting" => runs = {}
        BY <2>1 DEF AloneRun, Its
    <2> DEFINE Holds == UNCHANGED panelVars /\ client'.listed = client.listed /\ client'.left = client.left
    <2>3. CASE UNCHANGED clientVars
        BY <1>2, <2>3 DEF AloneOK, AloneRun, Its, Called, Seated, clientVars, panelVars
    <2>4. CASE PageArrives
        <3>1. Holds /\ client'.stage = "listing" /\ client'.error = client.error /\ client.stage = "arriving"
            BY <1>3, <2>1, <2>4 DEF PageArrives, Turns, Clients, TypeOK
        <3> QED
            BY <2>1, <2>2, <3>1 DEF AloneOK, Called, Seated, panelVars
    <2>5. CASE PageLists
        <3>1. /\ client'.stage = "asking" /\ client'.listed = Founders /\ client'.left = Founders
              /\ client'.error = "none" /\ client.stage = "listing" /\ UNCHANGED panelVars
            BY <2>1, <2>5, PanelConstants DEF PageLists, Turns, Client
        <3>2. Called = {}
            BY <2>1, <3>1 DEF Called
        <3> QED
            BY <2>1, <2>2, <3>1, <3>2 DEF AloneOK, Called, Seated, panelVars
    <2>6. ASSUME NEW s \in Seats, ClientCalls(s) PROVE AloneOK'
        <3>1. /\ client.stage = "asking" /\ s \in client.left /\ status = "open"
              /\ client'.stage = "waiting" /\ client'.listed = client.listed /\ client'.left = client.left \ {s}
              /\ client'.nr = calls + 1 /\ client'.error = client.error
              /\ UNCHANGED <<seat, cases, status, grade>>
            BY <1>3, <2>6 DEF ClientCalls, Clients, RunBegin
        <3>n. PICK new : new = [nr |-> calls + 1, seat |-> s, items |-> cases, todo |-> cases,
                 weight |-> weight[s], got |-> {}, flagged |-> FALSE, listed |-> {}, stage |-> "grading"]
            OBVIOUS
        <3>2. runs' = runs \cup {new} /\ new.nr = calls + 1 /\ new.seat = s /\ new.stage = "grading"
            BY <2>6, <3>n DEF ClientCalls, RunBegin
        <3>3. s \in Called' /\ Called \subseteq Called'
            BY <1>3, <3>1 DEF Called, StageOK
        <3>4. AloneRun(new)'
            BY <3>1, <3>2, <3>3 DEF AloneRun, Its
        <3>5. runs' = {new}
            BY <2>2, <3>1, <3>2
        <3> QED
            BY <2>1, <3>1, <3>3, <3>4, <3>5 DEF AloneOK, Seated
    <2>7. ASSUME NEW s \in Seats, ClientIsRefused(s) PROVE AloneOK'
        <3>1. s \in client.left /\ client.stage = "asking" /\ (status = "closed" \/ seat[s] # "seated")
            BY <2>7 DEF ClientIsRefused
        <3>2. s \in Seated
            BY <1>3, <2>1, <3>1 DEF StageOK
        <3> QED
            BY <2>1, <3>1, <3>2 DEF Seated
    <2>8. CASE ClientAsksForPass
        <3>1. /\ Holds /\ client.stage = "passing"
              /\ \/ client'.stage = "error" /\ client'.error = "failed"
                 \/ client'.stage = "reading" /\ client'.error = client.error
            BY <1>3, <2>1, <2>8 DEF ClientAsksForPass, Turns, Fails, Clients
        <3> QED
            BY <2>1, <2>2, <3>1 DEF AloneOK, Called, Seated, panelVars
    <2>9. CASE ClientReads
        <3>1. /\ Holds /\ client.stage = "reading" /\ client'.stage = "verdict" /\ client'.error = client.error
            BY <1>3, <2>9 DEF ClientReads, Turns, Clients, StageOK
        <3> QED
            BY <2>1, <2>2, <3>1 DEF AloneOK, Called, Seated, panelVars
    <2>10. ASSUME NEW r \in runs, ServerGoesOn(r) PROVE AloneOK'
        BY <1>2, <1>6, <2>10, OwnCallAlone
    <2>11. ASSUME NEW r \in runs, ServerDies(r) PROVE AloneOK'
        BY <1>2, <2>11 DEF ServerDies, Crash, Disturbs
    <2>12. ASSUME NEW s \in Seats, RunBegin(s), UNCHANGED client PROVE AloneOK'
        <3>1. calls' = calls + 1 /\ client'.left = client.left
            BY <2>12 DEF RunBegin
        <3>2. PICK t \in Seats : ClientCalls(t)
            BY <1>1, <1>4, <3>1
        <3>3. client.stage # client'.stage
            BY <1>3, <3>2 DEF ClientCalls, Clients
        <3> QED
            BY <2>12, <3>3
    <2>13. ASSUME People, UNCHANGED client PROVE AloneOK'
        BY <1>2, <2>13 DEF People, CloseByHand, AddSeat, DeleteSeat, DeleteCase, Disturbs
    <2> QED
        BY <2>3, <2>4, <2>5, <2>6, <2>7, <2>8, <2>9, <2>10, <2>11, <2>12, <2>13 DEF ClientNext
<1> QED
    BY <1>5, <1>6

-----------------------------------------------------------------------------
(* The theorems.                                                           *)

(* The poll a client drives is the poll of PanelRun: the client adds       *)
(* nothing to what panel-run and people may do.                            *)
THEOREM DrivesThePoll == ClientSpec => Spec
<1>1. ClientInit => Init
    BY DEF ClientInit
<1>2. [ClientNext]_clientVars => [Next]_panelVars
    BY ClientStepsThePanel DEF clientVars
<1> QED
    BY <1>1, <1>2, PTL DEF ClientSpec, Spec

(* The invariant that the other theorems read off.                         *)
THEOREM Invariance == ClientSpec => [](GateInv /\ AloneInv)
<1>1. ClientInit => GateInv /\ AloneInv
    BY ClientInitGate, ClientInitAlone
<1>2. GateInv /\ AloneInv /\ [ClientNext]_clientVars => (GateInv /\ AloneInv)'
    BY ClientStepGate, ClientStepAlone
<1> QED
    BY <1>1, <1>2, PTL DEF ClientSpec

(* Every table row, every call and the client keep their types: a weight   *)
(* is never halved twice, a sample never exceeds the cases.                *)
THEOREM TypeCorrect == ClientSpec => []ClientTypeOK
<1>1. GateInv /\ AloneInv => ClientTypeOK
    BY DEF GateInv
<1> QED
    BY <1>1, Invariance, PTL

(* server/app.ts:1678: a call of panel-run closes the poll only when every *)
(* seat it listed that still sits has answered every case still there.     *)
THEOREM SelfClose == ClientSpec => []SelfCloseIsComplete
<1>1. GateInv /\ AloneInv => SelfCloseIsComplete
    BY DEF GateInv, PanelInv, CloseOK, Whole, SelfCloseIsComplete
<1> QED
    BY <1>1, Invariance, PTL

(* The same of panel-run alone, whoever calls it.                          *)
THEOREM SelfCloseForAnyCallers == Spec => []SelfCloseIsComplete
<1>1. PanelInv => SelfCloseIsComplete
    BY DEF PanelInv, CloseOK, Whole, SelfCloseIsComplete
<1> QED
    BY <1>1, InitPanel, StepPanel, PTL DEF Spec

(* scripts/evallab.ts:204: the verdict a build waits for rests on a closed *)
(* poll, and on every seat that was listed and still sits.                 *)
THEOREM Gate == ClientSpec => []GateReadsWholePanel
<1>1. GateInv /\ AloneInv => GateReadsWholePanel
    <2> SUFFICES ASSUME GateInv, client.stage = "verdict"
                 PROVE  status = "closed" /\ \A s \in client.listed \cap Seated : Whole(s)
        BY DEF GateReadsWholePanel, Whole
    <2>1. status = "closed" /\ client.left = {}
        BY DEF GateInv, StageOK
    <2> QED
        BY <2>1 DEF GateInv, CalledAreWhole, Listening, Called, Its
<1> QED
    BY <1>1, Invariance, PTL

(* server/app.ts:1527: a client that nobody disturbs is never refused a    *)
(* seat, and its last call closes the poll.                                *)
THEOREM Undisturbed == ClientSpec => []AloneItFinishes
<1>1. GateInv /\ AloneInv => AloneItFinishes
    <2> SUFFICES ASSUME GateInv, AloneInv, edits = 0, closedBy # "people", ~OthersCalled
                 PROVE  client.error \notin {"refused", "open"}
        BY PanelConstants DEF AloneItFinishes, GateInv, PanelInv, TypeOK
    <2> QED
        BY DEF AloneInv, Alone, AloneOK
<1> QED
    BY <1>1, Invariance, PTL
=============================================================================
