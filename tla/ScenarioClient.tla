--------------------------- MODULE ScenarioClient ---------------------------
(***************************************************************************)
(* The Room writing a project's scenarios on arrival: writeOnArrival of    *)
(* web/src/pages/Project.tsx over writeScenariosResilient of               *)
(* web/src/api.ts, with the job of ScenarioJob behind it.  The page makes  *)
(* a job, runs it and reads the stream; when the connection drops it polls *)
(* the job for a while; and it tells the person that the cases landed, or  *)
(* that parts did not, with a button to try again.  Others may run the     *)
(* same job meanwhile.                                                     *)
(*                                                                         *)
(* The state begins when the page has made the job, and is over for the    *)
(* page when it has lost that job and makes another.                       *)
(***************************************************************************)
EXTENDS ScenarioJob

VARIABLES
    page,       \* what the page is doing, or has told the person
    mine,       \* the request whose stream the page reads, or 0
    known,      \* arrival.jobId is the job
    told,       \* history: the row said failed when the page let the person go
    alone       \* history: no other request was under way during mine

pageVars == <<page, mine, known, told, alone>>
vars == <<jobVars, pageVars>>

Writing == {"ready", "streaming", "watching"}
Pages == Writing \cup {"landed", "short"}

ClientInit ==
    /\ Init
    /\ page = "ready" /\ mine = 0 /\ known = FALSE
    /\ told = FALSE /\ alone = TRUE

(* The page runs the job.  A job already done is answered without a line   *)
(* end, which the reader of the stream takes for a dropped connection.     *)
PageRuns(n, i) ==
    /\ page = "ready" /\ page' = "streaming"
    /\ Take(n, i)
    /\ mine' = n /\ alone' = (Active = {})
    /\ UNCHANGED <<known, told>>

PageFindsDone ==
    /\ page = "ready" /\ ReadStatus = "done"
    /\ page' = "watching" /\ alone' = (Active = {})
    /\ UNCHANGED <<jobVars, mine, known, told>>

(* What the page makes of a job it is told of: parts that failed are       *)
(* named, and the job is kept for trying again.                            *)
Tells ==
    IF FailedParts = {}
    THEN page' = "landed" /\ known' = FALSE /\ told' = (status = "failed") /\ alone' = alone
    ELSE page' = "short" /\ known' = TRUE /\ told' = told /\ alone' = TRUE

(* The last line of the stream, once the request is over.                  *)
(* Fault: a line that reports a part is taken for the last one.            *)
PageHearsPart ==
    /\ page = "streaming" /\ run[mine].stage \in {"working", "ended"}
    /\ Tells /\ mine' = 0
    /\ UNCHANGED jobVars

PageHears ==
    /\ page = "streaming" /\ run[mine].stage = "ended"
    /\ Tells /\ mine' = 0
    /\ UNCHANGED jobVars

(* The connection drops, and the server goes on.                           *)
PageLosesStream ==
    /\ page = "streaming" /\ page' = "watching" /\ mine' = 0
    /\ UNCHANGED <<jobVars, known, told, alone>>

(* The job is read; a job that is settled is what the page tells.          *)
PageSees ==
    /\ page = "watching" /\ ReadStatus \in {"done", "failed"}
    /\ Tells /\ mine' = 0
    /\ UNCHANGED jobVars

(* Two and a half minutes are over.                                        *)
PageStopsWatching ==
    /\ page = "watching" /\ page' = "short" /\ alone' = TRUE
    /\ UNCHANGED <<jobVars, mine, known, told>>

(* The person tries again with the job the page has kept.  A job it has   *)
(* not kept, because the first try ended in an error, is lost to it: trying *)
(* again then makes another job.                                           *)
PageRetries ==
    /\ page = "short" /\ known /\ page' = "ready"
    /\ UNCHANGED <<jobVars, mine, known, told, alone>>

(* A request that dies takes its stream with it; one that throws says so   *)
(* on the last line, unless the row could not be written either.           *)
Dies(n) ==
    /\ Die(n)
    /\ IF n = mine THEN page' = "watching" /\ mine' = 0 ELSE UNCHANGED <<page, mine>>
    /\ UNCHANGED <<known, told, alone>>

Throws(n) ==
    /\ Throw(n)
    /\ IF n = mine
       THEN page' = (IF status' = "failed" THEN "short" ELSE "watching") /\ mine' = 0
       ELSE UNCHANGED <<page, mine>>
    /\ alone' = (alone \/ page' = "short")
    /\ UNCHANGED <<known, told>>

OthersRun(n, i) ==
    /\ Take(n, i)
    /\ alone' = (alone /\ page \notin {"streaming", "watching"})
    /\ UNCHANGED <<page, mine, known, told>>

Works(n) == Work(n) /\ UNCHANGED pageVars

PageWaits ==
    \/ PageFindsDone \/ PageHears \/ PageSees \/ PageStopsWatching
    \/ \E n \in Requests, i \in Instances : PageRuns(n, i)

ClientNext ==
    \/ PageWaits \/ PageLosesStream \/ PageRetries
    \/ \E n \in Requests, i \in Instances : OthersRun(n, i)
    \/ \E n \in Requests : Works(n) \/ Throws(n) \/ Dies(n)

(* The server goes on with a request it has taken; the page reads what     *)
(* arrives and its clock runs.                                             *)
ClientSpec == ClientInit /\ [][ClientNext]_vars
FairClientSpec ==
    /\ ClientSpec
    /\ \A n \in Requests : WF_vars(Works(n))
    /\ WF_vars(PageWaits)

-----------------------------------------------------------------------------
(* web/src/pages/Project.tsx:1409: the page lets the person go, with no    *)
(* part to name, only when every part has landed, whatever connection      *)
(* dropped and whatever earlier requests left behind.  Two cases are       *)
(* outside: somebody else ran the job meanwhile, and a job that failed     *)
(* before its first part (FailureIsTold).                                  *)
LandedIsWhole ==
    page = "landed" /\ alone /\ ~told
        => landed = Parts

(* web/src/pages/Project.tsx:1367: never a spinner with nothing to say.    *)
(* The page comes to tell the person something, however the requests       *)
(* overlap and end, who else runs the job, and as often as the person has  *)
(* tried again; only a page that is about to ask when the bound on         *)
(* requests is spent is not heard of.                                      *)
PageTells == page \in Writing ~> page \notin Writing \/ (page = "ready" /\ Spent)

(* web/src/pages/Project.tsx:1366: the error in place with a retry if the  *)
(* write fails.  The page does not take a job that failed for one that     *)
(* landed.                                                                 *)
FailureIsTold == page = "landed" => ~told
=============================================================================
