---------------------------- MODULE ModelGateway ----------------------------
(***************************************************************************)
(* Model calls: callModel of server/gateway.ts with the spend guard of     *)
(* server/spend.ts, under its two kinds of callers: the seats of one panel *)
(* poll (server/panelists.ts), several at a time, and the creators         *)
(* (server/openrouter.ts).  A call is checked against what model_call has  *)
(* on record, is sent, is retried, steps down from a schema to plain JSON, *)
(* and leaves a row per attempt; everything else happens in between.       *)
(*                                                                         *)
(* An answer is what its caller can tell of it; that it is heard, put on   *)
(* record and acted on is one step, as nothing shared is read in between.  *)
(* Credits are whole, at most MaxCost an answer.  The router is heard      *)
(* within a deadline or the attempt counts as failed.                      *)
(*                                                                         *)
(* A definition whose comment starts with "Fault" is a wrong variant of    *)
(* the one after it: it is in no specification, and shows what a property  *)
(* would catch.                                                            *)
(***************************************************************************)
EXTENDS PinRegistry

CONSTANTS
    Graders, Creators,  \* callers: workers of the poll, requests to a creator
    Own,                \* the project's own endpoints
    OwnModel,           \* OwnModel[e]: the model id an endpoint is asked for
    Writer,             \* the configured creator pin
    RoundCeiling, DailyCeiling,  \* credits; 0 where no ceiling is set
    MAX_ATTEMPTS,       \* requests of one call; the code has 4
    MaxCost,            \* bound: credits of one answer
    MaxJobs,            \* bound: jobs taken up
    MaxFaults           \* bound: processes killed and rows that fail

Callers == Graders \cup Creators
Targets == Pins \cup Own

ASSUME GatewayConstants ==
    /\ IsFiniteSet(Callers) /\ Graders \cap Creators = {}
    /\ Pins \cap Own = {} /\ OwnModel \in [Own -> Models]
    /\ Writer \in Pins
    /\ RoundCeiling \in Nat /\ DailyCeiling \in Nat
    /\ MAX_ATTEMPTS \in Nat \ {0} /\ MaxCost \in Nat
    /\ MaxJobs \in Nat /\ MaxFaults \in Nat

VARIABLES
    job,        \* job[w]: the call w is making, and for what
    learned,    \* NO_SCHEMA_SUPPORT: the models that refused a schema
    roundSpent, \* credits model_call has for the poll
    daySpent,   \* and for everybody, over the last day
    refusals,   \* refusals[m]: times m refused a schema since the boot
    jobs,       \* how many jobs were taken up
    faults

gatewayVars == <<job, learned, roundSpent, daySpent, refusals, jobs, faults>>

(* json, prose, cut: text that parses, text that does not, text cut off.   *)
(* junk: no text, an error in its place, or a key refused.  blank: no body *)
(* at all.  failed: no answer, 429 or 5xx.  format: a refusal that names   *)
(* the schema; refused: any other.                                         *)
Text == {"json", "prose", "cut"}
Refusals == {"format", "refused"}
Costs(reply) == IF reply \in Text \cup {"junk"} THEN 0..MaxCost ELSE {0}

(* stage: where the call is.  nr: first or second call of the job.  known: *)
(* the model was known to refuse a schema when the request was written;    *)
(* degraded: it did so since.  Every caller in the code asks for a schema. *)
Jobs == [stage : {"idle", "pins", "round", "day", "out", "wait"},
         target : Targets, model : Models, nr : 1..2, attempt : 1..MAX_ATTEMPTS,
         known : BOOLEAN, degraded : BOOLEAN]

(* Of an idle caller only the stage means anything.                        *)
IdleJob == [stage |-> "idle", target |-> Writer, model |-> Loaded[Writer].model, nr |-> 1,
            attempt |-> 1, known |-> FALSE, degraded |-> FALSE]

AsksSchema(j) == ~j.known /\ ~j.degraded

ModelOf(t) == IF t \in Own THEN OwnModel[t] ELSE pin[t].model
Usable(t) == t \in Own \/ Live(t)

GatewayInit ==
    /\ PinInit
    /\ job = [w \in Callers |-> IdleJob]
    /\ learned = {}
    /\ roundSpent = 0 /\ daySpent = 0
    /\ refusals = [m \in Models |-> 0]
    /\ jobs = 0
    /\ faults = 0

-----------------------------------------------------------------------------
(* A call begins: its pin is looked up, and one that stands down is never  *)
(* replaced; then the guard is asked.                                      *)

FirstCheck(w) == IF w \in Graders THEN "round" ELSE "day"

(* Fault: the second call of a job goes past the guard.                    *)
BeginsUnchecked(w, t, nr) ==
    IF Usable(t)
    THEN job' = [job EXCEPT ![w] = [IdleJob EXCEPT
            !.stage = IF nr = 2 THEN "wait" ELSE FirstCheck(w), !.target = t, !.nr = nr]]
    ELSE job' = [job EXCEPT ![w] = IdleJob]

Begins(w, t, nr) ==
    IF Usable(t)
    THEN job' = [job EXCEPT ![w] = [IdleJob EXCEPT !.stage = FirstCheck(w), !.target = t, !.nr = nr]]
    ELSE job' = [job EXCEPT ![w] = IdleJob]

End(w) == job' = [job EXCEPT ![w] = IdleJob]

TakesUp(w) ==
    /\ job[w].stage = "idle"
    /\ jobs < MaxJobs /\ jobs' = jobs + 1

(* A worker of the poll asks its seat's model about a case.                *)
SeatAsks(w) ==
    /\ w \in Graders /\ TakesUp(w)
    /\ \E t \in Small \cup Own :
        /\ t \in Own => deployment = "server"
        /\ Begins(w, t, 1)
    /\ UNCHANGED <<learned, roundSpent, daySpent, refusals, faults, pinVars>>

(* A creator waits for the pins to have been checked.                      *)
CreatorWaits(w) ==
    /\ w \in Creators /\ TakesUp(w)
    /\ job' = [job EXCEPT ![w].stage = "pins"]
    /\ IF health = "none" THEN health' = "fetching" ELSE UNCHANGED health
    /\ UNCHANGED <<learned, roundSpent, daySpent, refusals, faults, pin, listing, deployment, boot, report>>

CreatorAsks(w) ==
    /\ job[w].stage = "pins" /\ health \in {"read", "unread"}
    /\ \E t \in WriterPins(Writer) : Begins(w, t, 1)
    /\ UNCHANGED <<learned, roundSpent, daySpent, refusals, jobs, faults, pinVars>>

-----------------------------------------------------------------------------
(* The guard: one statement per ceiling.  A refusal ends the job.          *)

Under(spent, ceiling) == ceiling > 0 => spent < ceiling

CheckRound(w) ==
    /\ job[w].stage = "round"
    /\ IF Under(roundSpent, RoundCeiling)
       THEN job' = [job EXCEPT ![w].stage = "day"]
       ELSE End(w)
    /\ UNCHANGED <<learned, roundSpent, daySpent, refusals, jobs, faults, pinVars>>

(* The request is written and sent, asking for no schema of a model that   *)
(* is known to refuse one.  A retry sends what was written.                *)
Body(t) == [model |-> ModelOf(t), schema |-> ModelOf(t) \notin learned]

Written(j) ==
    [j EXCEPT !.stage = "out", !.model = Body(j.target).model, !.known = ~Body(j.target).schema]

CheckDay(w) ==
    /\ job[w].stage = "day"
    /\ IF ~Under(daySpent, DailyCeiling)
       THEN End(w)
       ELSE job' = [job EXCEPT ![w] = IF @.attempt = 1 THEN Written(@) ELSE [@ EXCEPT !.stage = "wait"]]
    /\ UNCHANGED <<learned, roundSpent, daySpent, refusals, jobs, faults, pinVars>>

Resend(w) ==
    /\ job[w].stage = "wait"
    /\ job' = [job EXCEPT ![w].stage = "out"]
    /\ UNCHANGED <<learned, roundSpent, daySpent, refusals, jobs, faults, pinVars>>

-----------------------------------------------------------------------------
(* What comes back, what it costs, and what comes of it.                   *)

Hears(w, replies) ==
    /\ job[w].stage = "out"
    /\ \E reply \in replies, cost \in 0..MaxCost :
        /\ cost \in Costs(reply)
        /\ roundSpent' = IF w \in Graders THEN roundSpent + cost ELSE roundSpent
        /\ daySpent' = daySpent + cost

(* Fault: a retry is not counted.                                          *)
AgainUncounted(w, stage) ==
    job' = [job EXCEPT ![w].stage = stage, ![w].attempt = IF @ < MAX_ATTEMPTS - 1 THEN @ + 1 ELSE @]

Again(w, stage) == job' = [job EXCEPT ![w].stage = stage, ![w].attempt = @ + 1]

(* The network failed, the deadline passed, or the router is overloaded.   *)
Retry(w) ==
    /\ Hears(w, {"failed"}) /\ job[w].attempt < MAX_ATTEMPTS
    /\ Again(w, "wait")
    /\ UNCHANGED <<learned, refusals, jobs, faults, pinVars>>

(* One step down, once: on a refusal that names the format, or any refusal *)
(* of an endpoint of the project's own.                                    *)
StepsDown(j, reply) ==
    /\ reply \in Refusals
    /\ AsksSchema(j)
    /\ reply = "format" \/ j.target \in Own

Refused(w, reply) ==
    refusals' = IF reply = "format" /\ AsksSchema(job[w])
                THEN [refusals EXCEPT ![job[w].model] = @ + 1] ELSE refusals

(* Fault: what the model refused is forgotten.                             *)
LearnNothing(w) == UNCHANGED learned

Learn(w) == learned' = learned \cup {ModelOf(job[w].target)}

(* Nothing is left to send after the last attempt; what was learned stays. *)
StepDown(w) ==
    /\ \E reply \in Refusals : StepsDown(job[w], reply) /\ Hears(w, {reply}) /\ Refused(w, reply)
    /\ Learn(w)
    /\ IF job[w].attempt = MAX_ATTEMPTS THEN End(w)
       ELSE job' = [job EXCEPT ![w].attempt = @ + 1, ![w].degraded = TRUE,
                ![w].model = Body(job[w].target).model]
    /\ UNCHANGED <<jobs, faults, pinVars>>

(* An empty body, the first time, asks the guard again.                    *)
AskGuardAgain(w) ==
    /\ Hears(w, {"blank"}) /\ job[w].attempt = 1
    /\ IF MAX_ATTEMPTS = 1 THEN End(w) ELSE Again(w, FirstCheck(w))
    /\ UNCHANGED <<learned, refusals, jobs, faults, pinVars>>

(* The caller is handed an error, and its job is over: a seat abstains, a  *)
(* creator's request fails.                                                *)
GiveUp(w) ==
    /\ \/ Hears(w, {"junk"}) /\ UNCHANGED refusals
       \/ Hears(w, {"failed"}) /\ job[w].attempt = MAX_ATTEMPTS /\ UNCHANGED refusals
       \/ Hears(w, {"blank"}) /\ job[w].attempt > 1 /\ UNCHANGED refusals
       \/ \E reply \in Refusals : ~StepsDown(job[w], reply) /\ Hears(w, {reply}) /\ Refused(w, reply)
    /\ End(w)
    /\ UNCHANGED <<learned, jobs, faults, pinVars>>

Finishes(w, replies) == Hears(w, replies) /\ End(w)

(* A seat whose answer does not parse, cut off or not, is asked once more. *)
SeatReads(w) ==
    /\ w \in Graders
    /\ \/ Finishes(w, IF job[w].nr = 2 THEN Text ELSE {"json"})
       \/ job[w].nr = 1 /\ Hears(w, {"prose", "cut"}) /\ Begins(w, job[w].target, 2)
    /\ UNCHANGED <<learned, refusals, jobs, faults, pinVars>>

(* A creator has an answer that does not parse reformatted, once, by the   *)
(* cheapest small pin; with none live that throws.  An answer cut off ends *)
(* the request.  (An answer with no text never gets here, so the re-ask    *)
(* written for it is dead code.)                                           *)
CreatorReads(w) ==
    /\ w \in Creators
    /\ \/ Finishes(w, IF job[w].nr = 2 \/ CheapestPins = {} THEN Text ELSE {"json", "cut"})
       \/ job[w].nr = 1 /\ Hears(w, {"prose"})
          /\ \E t \in CheapestPins : Begins(w, t, 2)
    /\ UNCHANGED <<learned, refusals, jobs, faults, pinVars>>

-----------------------------------------------------------------------------
(* The row of an attempt cannot be stored: the call throws, and what it    *)
(* cost is on no record.                                                   *)
RecordFails(w) ==
    /\ faults < MaxFaults /\ faults' = faults + 1
    /\ job[w].stage = "out"
    /\ End(w)
    /\ UNCHANGED <<learned, roundSpent, daySpent, refusals, jobs, pinVars>>

(* The process is killed.  The next one has learned nothing.               *)
Crash ==
    /\ faults < MaxFaults /\ faults' = faults + 1
    /\ job' = [w \in Callers |-> IdleJob]
    /\ learned' = {} /\ refusals' = [m \in Models |-> 0]
    /\ Reboot
    /\ UNCHANGED <<roundSpent, daySpent, jobs>>

Guarding(w) == CheckRound(w) \/ CheckDay(w)

Hearing(w) ==
    Retry(w) \/ StepDown(w) \/ AskGuardAgain(w) \/ GiveUp(w) \/ SeatReads(w) \/ CreatorReads(w)

CallStep(w) == CreatorAsks(w) \/ Guarding(w) \/ Resend(w) \/ Hearing(w)

Checking == (PinStep \/ AskHealth) /\ UNCHANGED gatewayVars

GatewayNext ==
    \/ \E w \in Callers : SeatAsks(w) \/ CreatorWaits(w) \/ CallStep(w) \/ RecordFails(w)
    \/ Checking
    \/ Crash

gatewayAll == <<gatewayVars, pinVars>>

GatewaySpec == GatewayInit /\ [][GatewayNext]_gatewayAll

(* Every attempt has its deadline: it is heard, or its timer aborts it, or *)
(* the network fails; a body that is no JSON is an answer all the same.    *)
Deadlines == \A w \in Callers : WF_gatewayAll(Hearing(w))

(* The server serves every caller, and the reading of the list has its     *)
(* deadline in effect.                                                     *)
GatewayFairSpec ==
    /\ GatewaySpec
    /\ Deadlines
    /\ \A w \in Callers : WF_gatewayAll(CreatorAsks(w) \/ Guarding(w) \/ Resend(w))
    /\ WF_gatewayAll(PinStep /\ UNCHANGED gatewayVars)

-----------------------------------------------------------------------------
GatewayTypeOK ==
    /\ PinTypeOK
    /\ job \in [Callers -> Jobs]
    /\ learned \subseteq Models
    /\ roundSpent \in Nat /\ daySpent \in Nat
    /\ refusals \in [Models -> Nat]
    /\ jobs \in 0..MaxJobs
    /\ faults \in 0..MaxFaults

(* server/spend.ts:20: the guard compares what is on record with the       *)
(* ceiling before a call, and calls in flight are not on record.  However  *)
(* calls, retries, second calls and restarts interleave, a ceiling is      *)
(* passed by no more than one answer per caller.                           *)
OvershootIsBounded ==
    /\ RoundCeiling > 0 => roundSpent < RoundCeiling + MaxCost * Cardinality(Graders)
    /\ DailyCeiling > 0 => daySpent < DailyCeiling + MaxCost * Cardinality(Callers)

(* server/gateway.ts:128: the doomed attempt happens once.  Calls that     *)
(* were under way when the first refusal came may make it too, so within   *)
(* one process a model refuses a schema at most once per caller.           *)
FewDoomedRequests == \A m \in Models : refusals[m] <= Cardinality(Callers)

(* server/pins.ts, validatePins: disable, never substitute.  Whatever the  *)
(* router lists and whenever it is asked, a seat's request names the model *)
(* its pin was loaded with.                                                *)
SeatsAskTheirModel ==
    \A w \in Graders : job[w].stage \in {"out", "wait"} /\ job[w].target \in Pins
        => job[w].model = Loaded[job[w].target].model

(* Every call comes to an end, through retries, refusals and second calls. *)
CallsEnd == \A w \in Callers : job[w].stage # "idle" ~> job[w].stage = "idle"

=============================================================================
