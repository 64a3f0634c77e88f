----------------------------- MODULE ScenarioJob -----------------------------
(***************************************************************************)
(* The scenario write as a job: POST .../scenario-jobs/:jobId/run of       *)
(* server/app.ts over the scenario_jobs row of server/store.ts.  A run     *)
(* asks a model for every part that has not landed, all parts at once, and *)
(* saves each part as it lands.  The client may run the job again whenever *)
(* it likes (its connection dropped, some parts failed), so runs overlap,  *)
(* in one process or in several, and any of them may be cut off.           *)
(*                                                                         *)
(* The row holds all parts in one JSON column, so marking a part is a read *)
(* and a write; a chain of promises serialises them within one process.    *)
(* The state begins when the job has been created.                         *)
(*                                                                         *)
(* A definition whose comment starts with "Fault" is a wrong variant of    *)
(* the one after it: it is in no specification, and shows what a property  *)
(* would catch.                                                            *)
(***************************************************************************)
EXTENDS Naturals, FiniteSets, Sequences

CONSTANTS
    Parts,      \* the parts of the job
    Instances,  \* the processes serving it
    MaxRuns,    \* bound: requests to run it
    MaxAtOnce,  \* bound: those under way at one time
    Servings    \* bound: which processes serve them, one after the other

ASSUME JobConstants ==
    /\ IsFiniteSet(Parts) /\ Parts # {}
    /\ Instances # {}
    /\ MaxRuns \in Nat /\ MaxAtOnce \in Nat
    /\ Servings \subseteq Seq(Instances)

VARIABLES
    part,       \* parts[p].status of the row
    status,     \* the row's status
    run,        \* run[n]: the n-th request
    chain,      \* marks that have read the row and not yet written it
    \* What no table records and the properties are about:
    landed,     \* the parts some of whose scenarios were stored
    cutOff      \* since nobody last ran it, a request died or threw

jobVars == <<part, status, run, chain, landed, cutOff>>

Requests == 1..MaxRuns
Marks == {"pending", "running", "done", "failed"}

(* Where a request stands with a part: not its business, waiting to be     *)
(* marked running, being marked, being written by the model, stored and to *)
(* be marked done, to be marked failed, finished.                          *)
Steps == {"out", "todo", "marking", "writing", "stored", "failing", "over"}
RequestStages == {"unborn", "taken", "working", "ended"}
Out == [p \in Parts |-> "out"]
Idle == [stage |-> "unborn", at |-> CHOOSE i \in Instances : TRUE, step |-> Out]

(* A request that is over holds nothing.                                   *)
Over(n) == [run[n] EXCEPT !.stage = "ended", !.step = Out]

(* A mark writes back the row it read with its own part replaced.          *)
PartMarks == [at: Instances, by: Requests, of: Parts, mark: {"running", "done", "failed"}, read: [Parts -> Marks]]

Derived(parts) ==
    IF \A p \in Parts : parts[p] = "done" THEN "done"
    ELSE IF \E p \in Parts : parts[p] \in {"running", "pending"} THEN "running"
    ELSE "failed"

(* A status the reader of the row does not know reads as pending.          *)
ReadStatus == IF status \in Marks THEN status ELSE "pending"

(* Parts that failed, as the job is shown.                                 *)
FailedParts == {p \in Parts : part[p] = "failed"}

Active == {n \in Requests : run[n].stage \in {"taken", "working"}}
Ran == {n \in Requests : run[n].stage # "unborn"}

(* The bound on who serves what; once it is spent nobody can ask any more. *)
MayServe(n, i) ==
    \E s \in Servings : n \in DOMAIN s /\ s[n] = i /\ \A m \in Ran : m \in DOMAIN s /\ s[m] = run[m].at
Spent == \A n \in Requests \ Ran, i \in Instances : ~MayServe(n, i)

Created == [parts |-> [p \in Parts |-> "pending"], status |-> "pending"]

Init ==
    /\ part = Created.parts
    /\ status = Created.status
    /\ run = [n \in Requests |-> Idle]
    /\ chain = {}
    /\ landed = {}
    /\ cutOff = FALSE

-----------------------------------------------------------------------------
(* The row is read once: what has not landed by then is what this request  *)
(* will write.                                                             *)
Take(n, i) ==
    /\ run[n].stage = "unborn"
    /\ \A m \in Requests : m < n => run[m].stage # "unborn"
    /\ Cardinality(Active) < MaxAtOnce /\ MayServe(n, i)
    /\ ReadStatus # "done"
    /\ run' = [run EXCEPT ![n] =
         [stage |-> "taken", at |-> i, step |-> [p \in Parts |-> IF part[p] = "done" THEN "out" ELSE "todo"]]]
    /\ cutOff' = (cutOff /\ Active # {})
    /\ UNCHANGED <<part, status, chain, landed>>

(* The pins and the documents have been read; the status alone is set, out *)
(* of turn with the marks.                                                 *)
Start(n) ==
    /\ run[n].stage = "taken"
    /\ status' = "running"
    /\ run' = [run EXCEPT ![n].stage = IF run[n].step = Out THEN "ended" ELSE "working"]
    /\ UNCHANGED <<part, chain, landed, cutOff>>

(* Fault: the row gets a status its reader does not know.                  *)
ThrowMisnamed(n) ==
    /\ run[n].stage = "taken"
    /\ status' \in {"error", status}
    /\ run' = [run EXCEPT ![n] = Over(n)]
    /\ cutOff' = TRUE
    /\ UNCHANGED <<part, chain, landed>>

(* Reading them failed: a streaming request says so in the row.            *)
Throw(n) ==
    /\ run[n].stage = "taken"
    /\ status' \in {"failed", status}
    /\ run' = [run EXCEPT ![n] = Over(n)]
    /\ cutOff' = TRUE
    /\ UNCHANGED <<part, chain, landed>>

MarkFor(step) == CASE step = "todo" -> "running" [] step = "stored" -> "done" [] step = "failing" -> "failed"

(* setScenarioJobPart reads the row.                                       *)
ReadToMark(n, p) ==
    /\ run[n].stage = "working"
    /\ run[n].step[p] \in {"todo", "stored", "failing"}
    /\ chain' = chain \cup
         {[at |-> run[n].at, by |-> n, of |-> p, mark |-> MarkFor(run[n].step[p]), read |-> part]}
    /\ run' = [run EXCEPT ![n].step[p] = "marking"]
    /\ UNCHANGED <<part, status, landed, cutOff>>

(* Fault: a mark does not wait for the one before it.                      *)
MarkReadAtOnce(n, p) == ReadToMark(n, p)

(* In each process one mark at a time: the chain of promises.              *)
MarkRead(n, p) == (\A m \in chain : m.at # run[n].at) /\ ReadToMark(n, p)

(* The row is written; the request goes on with the part.                  *)
WriteMark(m) ==
    LET stepped == [run[m.by].step EXCEPT ![m.of] = IF m.mark = "running" THEN "writing" ELSE "over"]
    IN  /\ part' = [m.read EXCEPT ![m.of] = m.mark]
        /\ status' = Derived(part')
        /\ run' = [run EXCEPT ![m.by] =
                     IF \A q \in Parts : stepped[q] \in {"out", "over"} THEN Over(m.by) ELSE [@ EXCEPT !.step = stepped]]

(* Fault: a failed part breaks the chain, and no mark after it is written. *)
MarkWriteBreaks(m) ==
    /\ m \in chain
    /\ WriteMark(m)
    /\ chain' = IF m.mark = "failed" THEN chain ELSE chain \ {m}
    /\ UNCHANGED <<landed, cutOff>>

MarkWrite(m) ==
    /\ m \in chain
    /\ WriteMark(m)
    /\ chain' = chain \ {m}
    /\ UNCHANGED <<landed, cutOff>>

(* Fault: an answer with no usable scenario passes for one that landed.    *)
LandEmpty(n, p) ==
    /\ run[n].stage = "working" /\ run[n].step[p] = "writing"
    /\ run' = [run EXCEPT ![n].step[p] = "stored"]
    /\ landed' \in {landed, landed \cup {p}}
    /\ UNCHANGED <<part, status, chain, cutOff>>

(* The model answers and the scenarios are stored, row by row; or it does  *)
(* not answer usably; or storing stops half way and the part has failed    *)
(* with rows in the table.                                                 *)
Land(n, p) ==
    /\ run[n].stage = "working" /\ run[n].step[p] = "writing"
    /\ \/ run' = [run EXCEPT ![n].step[p] = "stored"] /\ landed' = landed \cup {p}
       \/ run' = [run EXCEPT ![n].step[p] = "failing"] /\ landed' \in {landed, landed \cup {p}}
    /\ UNCHANGED <<part, status, chain, cutOff>>

(* The function is cut off; what its process was writing is lost with it.  *)
Die(n) ==
    /\ run[n].stage \in {"taken", "working"}
    /\ run' = [run EXCEPT ![n] = Over(n)]
    /\ chain' = {m \in chain : m.by # n}
    /\ cutOff' = TRUE
    /\ UNCHANGED <<part, status, landed>>

-----------------------------------------------------------------------------
Work(n) ==
    \/ Start(n)
    \/ \E p \in Parts : MarkRead(n, p) \/ Land(n, p)
    \/ \E m \in chain : m.by = n /\ MarkWrite(m)

Next ==
    \/ \E n \in Requests, i \in Instances : Take(n, i)
    \/ \E n \in Requests : Work(n) \/ Throw(n) \/ Die(n)

Spec == Init /\ [][Next]_jobVars

-----------------------------------------------------------------------------
TypeOK ==
    /\ part \in [Parts -> Marks]
    /\ status \in Marks
    /\ run \in [Requests -> [stage: RequestStages, at: Instances, step: [Parts -> Steps]]]
    /\ chain \subseteq PartMarks
    /\ landed \subseteq Parts
    /\ cutOff \in BOOLEAN

(* A job whose status is done is whole: the run handler answers it without *)
(* running again, so a part reported done without cases would stay without *)
(* any.  This holds however runs overlap and wherever they are served.     *)
DoneIsWhole == status = "done" => \A p \in Parts : part[p] = "done" /\ p \in landed

(* server/store.ts:1018: a read-modify-write from two parts at once would  *)
(* let one overwrite the other's landing, so writes are serialised per     *)
(* job.  Within one process no mark is lost: once the requests are over    *)
(* and none was cut off, every part is done or named as failed; and after  *)
(* a cut one uninterrupted run is enough to get there.                     *)
NoMarkIsLost ==
    /\ Ran # {} /\ Active = {} /\ ~cutOff
    /\ Cardinality({run[n].at : n \in Ran}) = 1
    => \A p \in Parts : part[p] \in {"done", "failed"}
=============================================================================
