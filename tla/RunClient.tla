----------------------------- MODULE RunClient -----------------------------
(***************************************************************************)
(* Who calls panel-run: evallab run, the command line of scripts/evallab.ts*)
(* that a build waits for, and the page of web/src/pages/PanelRound.tsx,   *)
(* which do the same.  A client lists the seats, calls panel-run for one   *)
(* after another, asks for the stability pass, and reads the report: its   *)
(* gate, or the map.  Any answer but success ends it with an error.        *)
(*                                                                         *)
(* There is one client; the calls of others are those of PanelRun.  The    *)
(* command line takes the seats from the answer that opened the poll; the  *)
(* page reads the poll, then the project.  The order of the seats is left  *)
(* open, and the stability pass (ClosedRounds) is one step here.           *)
(***************************************************************************)
EXTENDS PanelRun

VARIABLES
    client      \* stage, the seats it listed and has yet to call, its latest call, its error

clientVars == <<panelVars, client>>

Clients == [stage: {"arriving", "listing", "asking", "waiting", "passing", "reading", "verdict", "error"},
            listed: SUBSET Seats, left: SUBSET Seats, nr: 0..MaxRuns,
            error: {"none", "refused", "failed", "open"}]

Client(stage, listed) ==
    [stage |-> stage, listed |-> listed, left |-> listed, nr |-> 0, error |-> "none"]

ClientInit ==
    /\ Init
    /\ client \in {Client("asking", Founders), Client("arriving", {})}

Turns(next) == client' = next /\ UNCHANGED panelVars
Fails(why) == [client EXCEPT !.stage = "error", !.error = why]

-----------------------------------------------------------------------------
PageArrives ==
    /\ client.stage = "arriving"
    /\ Turns([client EXCEPT !.stage = IF status = "closed" THEN "reading" ELSE "listing"])

PageLists ==
    /\ client.stage = "listing"
    /\ Turns(Client(IF Seated = {} THEN "passing" ELSE "asking", Seated))

ClientCalls(s) ==
    /\ client.stage = "asking" /\ s \in client.left
    /\ RunBegin(s)
    /\ client' = [client EXCEPT !.stage = "waiting", !.left = @ \ {s}, !.nr = calls + 1]

(* 409: the poll has closed; 404: the seat is gone.                        *)
ClientIsRefused(s) ==
    /\ client.stage = "asking" /\ s \in client.left
    /\ status = "closed" \/ seat[s] # "seated"
    /\ Turns(Fails("refused"))

(* Fault: the client goes on to the next seat whatever it hears.           *)
HeardAnything(answered, r) == [client EXCEPT !.stage = IF client.left = {} THEN "passing" ELSE "asking"]

(* What the client makes of the end of its call.  One in which the seat    *)
(* graded nothing and failed at something is an error to show (502).       *)
Heard(answered, r) ==
    IF answered /\ r.got # {"abstained"}
    THEN [client EXCEPT !.stage = IF client.left = {} THEN "passing" ELSE "asking"]
    ELSE Fails("failed")

Its(r) == client.stage = "waiting" /\ r.nr = client.nr
Goes(r) == \E q \in runs' : q.nr = r.nr /\ q.stage # "dead"

(* A call goes on; the client hears of its own when it ends.               *)
ServerGoesOn(r) ==
    /\ RunStep(r)
    /\ client' = IF Its(r) /\ ~Goes(r) THEN Heard(r.stage # "grading", r) ELSE client

ServerDies(r) ==
    /\ Crash(r)
    /\ client' = IF Its(r) THEN Heard(FALSE, r) ELSE client

(* The pass is refused while the poll is open, and fails with its models.  *)
ClientAsksForPass ==
    /\ client.stage = "passing"
    /\ \/ status = "open" /\ Turns(Fails("open"))
       \/ status = "closed" /\ Turns([client EXCEPT !.stage = "reading"])
       \/ status = "closed" /\ Turns(Fails("failed"))

(* GET /runs/:runId, GET /rounds/:roundId/map.                             *)
ClientReads ==
    /\ client.stage = "reading"
    /\ Turns(IF status = "closed" THEN [client EXCEPT !.stage = "verdict"] ELSE Fails("open"))

ClientNext ==
    \/ PageArrives \/ PageLists
    \/ \E s \in Seats : ClientCalls(s) \/ ClientIsRefused(s)
    \/ ClientAsksForPass \/ ClientReads
    \/ \E r \in runs : ServerGoesOn(r) \/ ServerDies(r)
    \/ \E s \in Seats : RunBegin(s) /\ UNCHANGED client
    \/ People /\ UNCHANGED client

(* The server goes on with every call it took, as in PanelRun.             *)
ServerProgress(n) == \E r \in runs : r.nr = n /\ r.stage # "dead" /\ ServerGoesOn(r)

ClientSpec ==
    /\ ClientInit /\ [][ClientNext]_clientVars
    /\ \A n \in 1..MaxRuns : WF_clientVars(ServerProgress(n))

-----------------------------------------------------------------------------
ClientTypeOK == TypeOK /\ client \in Clients

(* scripts/evallab.ts:204: the gate is read after every seat was called.   *)
(* What a build passes or fails on is a closed poll in which every seat    *)
(* that was listed and still sits has answered every case still there,     *)
(* though the poll may have been closed by others, by hand or by a call.   *)
GateReadsWholePanel ==
    client.stage = "verdict" =>
        /\ status = "closed"
        /\ \A s \in client.listed \cap Seated, c \in cases : grade[s][c] # "none"

(* server/app.ts:1527: when the last seat finishes, the poll closes itself.*)
(* A client that nobody disturbs is never refused a seat because the poll  *)
(* closed early, nor the pass because it has not closed, whatever its      *)
(* seats could not grade.  Another client of the same poll disturbs it:    *)
(* the poll closes under the one that comes second.                        *)
OthersCalled == calls > Cardinality(client.listed \ client.left)
AloneItFinishes ==
    client.error \in {"refused", "open"} => edits > 0 \/ closedBy = "people" \/ OthersCalled
=============================================================================
