-------------------------- MODULE ModelCallsProofs --------------------------
(***************************************************************************)
(* What is promised of calls of a model: by the gateway that all of them   *)
(* pass, for any pins, callers, ceilings, costs and numbers of attempts;   *)
(* and by the longest row of them there is, a scenario job and the page    *)
(* that runs it, for every set of parts, any number of processes and any   *)
(* number of requests.                                                     *)
(***************************************************************************)
EXTENDS ModelGateway, ScenarioClient, FiniteSetTheorems, TLAPS

-----------------------------------------------------------------------------
(* THE GATEWAY.                                                            *)

(* A worker of the poll asks a small pin, or one of the project's own      *)
(* endpoints, and a small pin names the model it was loaded with.          *)
SeatsOK ==
    /\ \A w \in Graders : job[w].stage # "idle" => job[w].target \in Small \cup Own
    /\ \A w \in Graders : job[w].stage # "pins"
    /\ \A p \in Small : pin[p].model = Loaded[p].model

(* The router's list has been applied: every live pin is on it.            *)
Settled == Unlisted = {}

(* A request has been written; it asks model m for a schema.               *)
Flying(j) == j.stage \in {"out", "wait"} \/ (j.stage \in {"round", "day"} /\ j.attempt > 1)
Asking(m) == {w \in Callers : Flying(job[w]) /\ AsksSchema(job[w]) /\ job[w].model = m}

(* What is flying names the model of its target; but a creator's may name  *)
(* the one its pin has moved off, which is not on the list.                *)
WrittenOK ==
    \A w \in Callers : Flying(job[w]) =>
        \/ job[w].model = ModelOf(job[w].target)
        \/ Settled /\ w \in Creators /\ job[w].model \notin listing

(* A call of m is about to be written; a creator that may still ask for m. *)
Ready(j) == j.stage \in {"round", "day"} /\ j.attempt = 1
Bound(m) ==
    {w \in Creators : w \in Asking(m) \/ (Ready(job[w]) /\ ModelOf(job[w].target) = m)}

(* Requests for a schema and refusals of it are one per caller.  A model   *)
(* nobody has learned of has refused none; or no live pin names it any     *)
(* more, and what it has refused are creators that ask for it no more.     *)
Doomed(m) ==
    IF m \in learned THEN refusals[m] + Cardinality(Asking(m)) <= Cardinality(Callers)
    ELSE \/ refusals[m] = 0
         \/ /\ Settled /\ m \notin listing
            /\ refusals[m] + Cardinality(Bound(m)) <= Cardinality(Creators)

(* Who is past the check of a ceiling may still cost one answer.           *)
PastRound == {w \in Graders : job[w].stage \in {"day", "out", "wait"}}
PastDay == {w \in Callers : job[w].stage \in {"out", "wait"}}

SpentOK ==
    /\ RoundCeiling > 0 =>
         roundSpent + MaxCost * Cardinality(PastRound) < RoundCeiling + MaxCost * Cardinality(Graders)
    /\ DailyCeiling > 0 =>
         daySpent + MaxCost * Cardinality(PastDay) < DailyCeiling + MaxCost * Cardinality(Callers)

AskedOK == SeatsOK /\ WrittenOK /\ \A m \in Models : Doomed(m)

GatewayInv == GatewayTypeOK /\ SpentOK /\ AskedOK

-----------------------------------------------------------------------------
(* The operators.                                                          *)

(* Sets of callers are finite and counted by naturals; a smaller set is    *)
(* counted lower, and one that lacks a caller lower by one.                *)
LEMMA Counting ==
    ASSUME NEW T \in SUBSET Callers
    PROVE  /\ IsFiniteSet(T) /\ Cardinality(T) \in Nat
           /\ \A S \in SUBSET T : Cardinality(S) \in Nat /\ Cardinality(S) <= Cardinality(T)
           /\ \A w \in T : \A S \in SUBSET (T \ {w}) : Cardinality(S) + 1 <= Cardinality(T)
<1>1. IsFiniteSet(T)
    BY GatewayConstants, FS_Subset
<1>2. \A S \in SUBSET T : IsFiniteSet(S) /\ Cardinality(S) \in Nat /\ Cardinality(S) <= Cardinality(T)
    BY <1>1, FS_Subset, FS_CardinalityType
<1>3. ASSUME NEW w \in T, NEW S \in SUBSET (T \ {w}) PROVE Cardinality(S) + 1 <= Cardinality(T)
    <2>1. IsFiniteSet(T \ {w}) /\ Cardinality(T \ {w}) = Cardinality(T) - 1
        BY <1>1, FS_RemoveElement
    <2>2. Cardinality(S) \in Nat /\ Cardinality(S) <= Cardinality(T \ {w})
        BY <2>1, FS_Subset, FS_CardinalityType
    <2> QED
        BY <1>2, <2>1, <2>2
<1> QED
    BY <1>1, <1>2, <1>3

(* The two kinds of callers add up.                                        *)
LEMMA Kinds ==
    /\ Cardinality(Graders) \in Nat /\ Cardinality(Creators) \in Nat
    /\ Cardinality(Callers) = Cardinality(Creators) + Cardinality(Graders)
    /\ \A S \in SUBSET Callers : Cardinality(S) <= Cardinality(S \cap Creators) + Cardinality(Graders)
<1>1. IsFiniteSet(Graders) /\ IsFiniteSet(Creators) /\ Graders \cap Creators = {}
    BY GatewayConstants, FS_Subset DEF Callers
<1>2. Cardinality(Graders) \in Nat /\ Cardinality(Creators) \in Nat /\ Cardinality(Graders \cap Creators) = 0
    BY <1>1, FS_CardinalityType, FS_EmptySet
<1>3. Cardinality(Callers) = Cardinality(Creators) + Cardinality(Graders)
    <2>1. Callers = Graders \cup Creators
        BY DEF Callers
    <2>2. Cardinality(Graders \cup Creators) = Cardinality(Graders) + Cardinality(Creators) - Cardinality(Graders \cap Creators)
        BY <1>1, FS_Union
    <2> QED
        BY <1>2, <2>1, <2>2
<1>4. ASSUME NEW S \in SUBSET Callers PROVE Cardinality(S) <= Cardinality(S \cap Creators) + Cardinality(Graders)
    <2> DEFINE C == S \cap Creators
               G == S \cap Graders
    <2>1. S = C \cup G /\ C \cap G = {} /\ IsFiniteSet(C) /\ IsFiniteSet(G)
        BY <1>1, FS_Subset DEF Callers
    <2>2. Cardinality(S) = Cardinality(C) + Cardinality(G) - Cardinality(C \cap G)
        BY <2>1, FS_Union
    <2>3. Cardinality(C \cap G) = 0 /\ Cardinality(C) \in Nat /\ Cardinality(G) \in Nat
        BY <2>1, FS_EmptySet, FS_CardinalityType
    <2>4. Cardinality(G) <= Cardinality(Graders)
        BY <1>1, FS_Subset
    <2> QED
        BY <1>2, <2>2, <2>3, <2>4
<1> QED
    BY <1>2, <1>3, <1>4

(* The registry is loaded with models.                                     *)
LEMMA LoadedTypes == Loaded \in [Pins -> [model : Models, status : {"live", "deprecated"}]]
BY PinConstants DEF Loaded, Overridden

(* What is usable may be asked.                                            *)
LEMMA IdleTypes == IdleJob \in Jobs
<1>1. Loaded[Writer].model \in Models /\ Writer \in Targets
    BY LoadedTypes, GatewayConstants DEF Targets
<1>2. 1 \in 1..MAX_ATTEMPTS /\ 1 \in 1..2
    BY GatewayConstants
<1> QED
    BY <1>1, <1>2 DEF IdleJob, Jobs

(* A target's model is one of the models.                                  *)
LEMMA ModelTypes == PinTypeOK => \A t \in Targets : ModelOf(t) \in Models
BY GatewayConstants DEF PinTypeOK, Targets, ModelOf

(* The creators are asked through pins of the registry.                    *)
LEMMA CreatorPins == CheapestPins \subseteq Small /\ WriterPins(Writer) \subseteq Pins
<1>1. CheapestPins \subseteq Small
    BY DEF CheapestPins, Best, LivePins
<1>2. WriterPins(Writer) \subseteq Pins
    BY GatewayConstants DEF WriterPins, Best, LivePins, Pins
<1> QED
    BY <1>1, <1>2

(* A pin that is asked is live, and the list has been applied: it is on it.*)
LEMMA LiveIsListed ==
    ASSUME Settled, NEW p \in Pins, Live(p)
    PROVE  pin[p].model \in listing
BY DEF Settled, Unlisted

-----------------------------------------------------------------------------
(* Type correctness.                                                       *)

(* One caller's call begins, goes on or ends.                              *)
Only(w) == job' \in [Callers -> Jobs] /\ \A v \in Callers \ {w} : job'[v] = job[v]

(* A job changed field by field is a job.                                  *)
LEMMA JobTypes ==
    ASSUME GatewayTypeOK, NEW w \in Callers
    PROVE  /\ End(w) => Only(w) /\ job'[w] = IdleJob
           /\ \A t \in Targets, nr \in 1..2 : Begins(w, t, nr) =>
                /\ Only(w)
                /\ IF Usable(t) THEN job'[w] = [IdleJob EXCEPT !.stage = FirstCheck(w), !.target = t, !.nr = nr]
                                ELSE job'[w] = IdleJob
           /\ \A new \in Jobs : job' = [job EXCEPT ![w] = new] => Only(w) /\ job'[w] = new
<1> USE DEF GatewayTypeOK
<1>1. \A new \in Jobs : job' = [job EXCEPT ![w] = new] => Only(w) /\ job'[w] = new
    BY DEF Only
<1>2. ASSUME NEW t \in Targets, NEW nr \in 1..2
      PROVE  [IdleJob EXCEPT !.stage = FirstCheck(w), !.target = t, !.nr = nr] \in Jobs
    BY IdleTypes DEF Jobs, FirstCheck
<1>3. End(w) => Only(w) /\ job'[w] = IdleJob
    BY <1>1, IdleTypes DEF End
<1>4. ASSUME NEW t \in Targets, NEW nr \in 1..2, Begins(w, t, nr)
      PROVE  /\ Only(w)
             /\ IF Usable(t) THEN job'[w] = [IdleJob EXCEPT !.stage = FirstCheck(w), !.target = t, !.nr = nr]
                             ELSE job'[w] = IdleJob
    BY <1>1, <1>2, <1>4, IdleTypes DEF Begins
<1> QED
    BY <1>1, <1>3, <1>4

(* A process that has just booted has asked for nothing.                   *)
LEMMA InitGateway == GatewayInit => GatewayInv
<1> SUFFICES ASSUME GatewayInit PROVE GatewayInv
    OBVIOUS
<1> USE DEF GatewayInit
<1>1. job \in [Callers -> Jobs] /\ \A w \in Callers : job[w] = IdleJob
    BY IdleTypes
<1>2. GatewayTypeOK
    <2>1. PinTypeOK
        BY LoadedTypes DEF PinInit, PinTypeOK
    <2> QED
        BY <1>1, <2>1, GatewayConstants DEF GatewayTypeOK
<1>3. \A w \in Callers : job[w].stage = "idle" /\ ~Flying(job[w]) /\ ~Ready(job[w])
    BY <1>1 DEF IdleJob, Flying, Ready
<1>4. SpentOK
    <2>1. PastRound = {} /\ PastDay = {} /\ Cardinality({}) = 0
        BY <1>3, FS_EmptySet DEF PastRound, PastDay, Callers
    <2>2. \A M, N \in Nat : M * 0 = 0 /\ M * N \in Nat
        OBVIOUS
    <2>3. Cardinality(Graders) \in Nat /\ Cardinality(Callers) \in Nat
        BY Kinds
    <2>4. MaxCost * 0 = 0 /\ MaxCost * Cardinality(Graders) \in Nat /\ MaxCost * Cardinality(Callers) \in Nat
        BY <2>2, <2>3, GatewayConstants
    <2> QED
        BY <2>1, <2>4, GatewayConstants DEF SpentOK
<1>5. AskedOK
    <2>1. SeatsOK
        BY <1>3, PinConstants DEF SeatsOK, PinInit, Callers, Pins
    <2>2. WrittenOK
        BY <1>3 DEF WrittenOK
    <2>3. \A m \in Models : Doomed(m)
        BY DEF Doomed
    <2> QED
        BY <2>1, <2>2, <2>3 DEF AskedOK
<1> QED
    BY <1>2, <1>4, <1>5 DEF GatewayInv

(* What is heard costs nothing, unless it is an answer.                    *)
LEMMA HeardTypes ==
    ASSUME GatewayTypeOK, NEW w \in Callers, NEW replies, Hears(w, replies)
    PROVE  /\ job[w].stage = "out"
           /\ roundSpent' \in Nat /\ daySpent' \in Nat
           /\ daySpent' <= daySpent + MaxCost /\ roundSpent' <= roundSpent + MaxCost
           /\ w \in Creators => roundSpent' = roundSpent
           /\ replies \cap (Text \cup {"junk"}) = {} => UNCHANGED <<roundSpent, daySpent>>
<1> USE DEF GatewayTypeOK
<1>1. PICK reply \in replies, cost \in 0..MaxCost :
        /\ cost \in Costs(reply)
        /\ roundSpent' = IF w \in Graders THEN roundSpent + cost ELSE roundSpent
        /\ daySpent' = daySpent + cost
    BY DEF Hears
<1>2. cost \in Nat /\ cost <= MaxCost
    BY GatewayConstants
<1>3. replies \cap (Text \cup {"junk"}) = {} => cost = 0
    BY <1>1 DEF Costs
<1>4. w \in Creators => w \notin Graders
    BY GatewayConstants
<1>5. roundSpent' \in Nat /\ daySpent' \in Nat
    BY <1>1, <1>2
<1>6. daySpent' <= daySpent + MaxCost /\ roundSpent' <= roundSpent + MaxCost
    BY <1>1, <1>2, GatewayConstants
<1>7. cost = 0 => UNCHANGED <<roundSpent, daySpent>>
    BY <1>1
<1> QED
    BY <1>1, <1>3, <1>4, <1>5, <1>6, <1>7 DEF Hears

(* The call goes on: it stays at its target, and what it asks for.         *)
GoesOn(w) ==
    /\ Only(w)
    /\ {job[w].stage, job'[w].stage} \subseteq {"round", "day", "wait", "out"}
    /\ job'[w].target = job[w].target /\ job'[w].model = job[w].model
    /\ job'[w].known = job[w].known /\ job'[w].degraded = job[w].degraded
    /\ Flying(job'[w]) => Flying(job[w])
    /\ Ready(job'[w]) => Ready(job[w])

(* It ends, or waits for the pins.                                         *)
Rests(w) == Only(w) /\ (job'[w].stage = "idle" \/ (job'[w].stage = "pins" /\ w \in Creators))

(* It begins, at a target that is usable.                                  *)
Starts(w) ==
    /\ Only(w)
    /\ job'[w].stage = FirstCheck(w) /\ job'[w].attempt = 1
    /\ Usable(job'[w].target)
    /\ job'[w].target \in IF w \in Graders THEN Small \cup Own ELSE Pins

(* Its request is written: the schema is asked for of a model that nobody  *)
(* knows to refuse one.                                                    *)
Writes(w) ==
    /\ Only(w)
    /\ job[w].stage = "day" /\ job[w].attempt = 1
    /\ job'[w].stage = "out" /\ job'[w].target = job[w].target
    /\ job'[w].model = ModelOf(job[w].target)
    /\ job'[w].known = (job'[w].model \in learned)

(* A begun call starts or is over.                                         *)
LEMMA BeginningShapes ==
    ASSUME GatewayTypeOK, NEW w \in Callers, NEW t \in IF w \in Graders THEN Small \cup Own ELSE Pins,
           NEW nr \in 1..2, Begins(w, t, nr)
    PROVE  Rests(w) \/ Starts(w)
<1>1. t \in Targets
    BY DEF Targets, Pins
<1>2. Only(w) /\ (IF Usable(t) THEN job'[w] = [IdleJob EXCEPT !.stage = FirstCheck(w), !.target = t, !.nr = nr]
                               ELSE job'[w] = IdleJob)
    BY <1>1, JobTypes
<1>3. CASE Usable(t)
    BY <1>2, <1>3 DEF Starts, IdleJob
<1>4. CASE ~Usable(t)
    BY <1>2, <1>4 DEF Rests, IdleJob
<1> QED
    BY <1>3, <1>4

(* A call that ends leaves its caller idle.                                *)
LEMMA EndingShapes ==
    ASSUME GatewayTypeOK, NEW w \in Callers, End(w)
    PROVE  Rests(w)
<1>1. Only(w) /\ job'[w] = IdleJob
    BY JobTypes
<1> QED
    BY <1>1 DEF Rests, IdleJob

(* How a call is taken up.                                                 *)
LEMMA TakingShapes ==
    ASSUME GatewayTypeOK, SeatsOK, NEW w \in Callers, SeatAsks(w) \/ CreatorWaits(w) \/ CreatorAsks(w)
    PROVE  Rests(w) \/ Starts(w)
<1>1. CASE SeatAsks(w)
    <2>1. PICK t \in Small \cup Own : Begins(w, t, 1)
        BY <1>1 DEF SeatAsks
    <2> QED
        BY <1>1, <2>1, BeginningShapes DEF SeatAsks
<1>2. CASE CreatorWaits(w)
    <2>1. job' = [job EXCEPT ![w] = [job[w] EXCEPT !.stage = "pins"]]
        BY <1>2 DEF CreatorWaits
    <2>2. [job[w] EXCEPT !.stage = "pins"] \in Jobs
        BY DEF GatewayTypeOK, Jobs
    <2>3. Only(w) /\ job'[w].stage = "pins"
        BY <2>1, <2>2, JobTypes DEF Jobs
    <2> QED
        BY <1>2, <2>3 DEF Rests, CreatorWaits
<1>3. CASE CreatorAsks(w) /\ w \in Creators
    <2>1. PICK t \in WriterPins(Writer) : Begins(w, t, 1)
        BY <1>3 DEF CreatorAsks
    <2>2. t \in Pins /\ w \notin Graders
        BY <1>3, CreatorPins, GatewayConstants
    <2> QED
        BY <2>1, <2>2, BeginningShapes
<1>4. CreatorAsks(w) => w \in Creators
    BY DEF CreatorAsks, SeatsOK, Callers
<1> QED
    BY <1>1, <1>2, <1>3, <1>4

(* How the guard lets a call pass, or sends it again.                      *)
LEMMA GuardShapes ==
    ASSUME GatewayTypeOK, NEW w \in Callers, CheckRound(w) \/ CheckDay(w) \/ Resend(w)
    PROVE  \/ Rests(w)
           \/ /\ GoesOn(w)
              /\ \/ job[w].stage = "round" /\ job'[w].stage = "day" /\ Under(roundSpent, RoundCeiling)
                 \/ job[w].stage = "day" /\ job'[w].stage = "wait" /\ Under(daySpent, DailyCeiling)
                 \/ job[w].stage = "wait" /\ job'[w].stage = "out"
           \/ Writes(w) /\ Under(daySpent, DailyCeiling)
<1> USE DEF GatewayTypeOK
<1>0. job[w] \in Jobs
    OBVIOUS
<1>1. CASE End(w)
    BY <1>1, EndingShapes
<1>2. ASSUME NEW stage \in {"day", "wait", "out"}, job' = [job EXCEPT ![w] = [job[w] EXCEPT !.stage = stage]]
      PROVE  /\ Only(w) /\ job'[w].stage = stage /\ job'[w].attempt = job[w].attempt
             /\ job'[w].target = job[w].target /\ job'[w].model = job[w].model
             /\ job'[w].known = job[w].known /\ job'[w].degraded = job[w].degraded
    <2>1. PICK new : new = [job[w] EXCEPT !.stage = stage]
        OBVIOUS
    <2>2. new \in Jobs
        BY <1>0, <2>1 DEF Jobs
    <2>3. Only(w) /\ job'[w] = new
        BY <1>2, <2>1, <2>2, JobTypes
    <2> QED
        BY <1>0, <2>1, <2>3 DEF Jobs
<1>3. CASE CheckRound(w) /\ ~End(w)
    <2>1. job[w].stage = "round" /\ Under(roundSpent, RoundCeiling) /\ job' = [job EXCEPT ![w] = [job[w] EXCEPT !.stage = "day"]]
        BY <1>3 DEF CheckRound
    <2> QED
        BY <1>2, <2>1 DEF GoesOn, Flying, Ready
<1>4. CASE CheckDay(w) /\ ~End(w) /\ job[w].attempt # 1
    <2>1. job[w].stage = "day" /\ Under(daySpent, DailyCeiling) /\ job' = [job EXCEPT ![w] = [job[w] EXCEPT !.stage = "wait"]]
        BY <1>4 DEF CheckDay
    <2>2. job[w].attempt > 1
        BY <1>0, <1>4 DEF Jobs
    <2> QED
        BY <1>2, <2>1, <2>2 DEF GoesOn, Flying, Ready
<1>5. CASE Resend(w)
    <2>1. job[w].stage = "wait" /\ job' = [job EXCEPT ![w] = [job[w] EXCEPT !.stage = "out"]]
        BY <1>5 DEF Resend
    <2> QED
        BY <1>2, <2>1 DEF GoesOn, Flying, Ready
<1>6. CASE CheckDay(w) /\ ~End(w) /\ job[w].attempt = 1
    <2>1. job[w].stage = "day" /\ Under(daySpent, DailyCeiling) /\ job' = [job EXCEPT ![w] = Written(job[w])]
        BY <1>6 DEF CheckDay
    <2>2. PICK new : new = Written(job[w])
        OBVIOUS
    <2>3. ModelOf(job[w].target) \in Models
        BY <1>0, ModelTypes DEF Jobs
    <2>4. new \in Jobs /\ new.stage = "out" /\ new.target = job[w].target /\ new.model = ModelOf(job[w].target)
          /\ new.known = (new.model \in learned)
        <3>1. PICK b : b = Body(job[w].target)
            OBVIOUS
        <3>2. b.model = ModelOf(job[w].target) /\ b.schema \in BOOLEAN
            BY <3>1 DEF Body
        <3>3. ~b.schema <=> ModelOf(job[w].target) \in learned
            BY <3>1 DEF Body
        <3>4. new = [job[w] EXCEPT !.stage = "out", !.model = b.model, !.known = ~b.schema]
            BY <2>2, <3>1 DEF Written
        <3>5. new \in Jobs
            BY <1>0, <2>3, <3>2, <3>4 DEF Jobs
        <3>6. /\ new.stage = "out" /\ new.target = job[w].target /\ new.model = ModelOf(job[w].target)
              /\ new.known = ~b.schema
            BY <1>0, <3>2, <3>4 DEF Jobs
        <3>7. new.known = (new.model \in learned)
            BY <3>3, <3>6
        <3> QED
            BY <3>5, <3>6, <3>7
    <2>5. Only(w) /\ job'[w] = new
        BY <2>1, <2>2, <2>4, JobTypes
    <2> QED
        BY <1>6, <2>1, <2>4, <2>5 DEF Writes
<1> QED
    BY <1>1, <1>3, <1>4, <1>5, <1>6

(* How a call goes on after it was heard, without a refusal of a schema:   *)
(* for nothing it is tried again, for at most one answer it is over or     *)
(* begins again.                                                           *)
Tried(w) == GoesOn(w) /\ job'[w].stage \in {"wait", FirstCheck(w)} /\ UNCHANGED <<roundSpent, daySpent>>
Answered(w) ==
    /\ Rests(w) \/ Starts(w)
    /\ roundSpent' <= roundSpent + MaxCost /\ daySpent' <= daySpent + MaxCost
    /\ w \in Creators => roundSpent' = roundSpent

(* An answer that is no refusal of the schema is another attempt or an     *)
(* answer to the caller, and nobody learns from it.                        *)
LEMMA HearingShapes ==
    ASSUME GatewayTypeOK, SeatsOK, NEW w \in Callers,
           Retry(w) \/ AskGuardAgain(w) \/ GiveUp(w) \/ SeatReads(w) \/ CreatorReads(w)
    PROVE  /\ roundSpent' \in Nat /\ daySpent' \in Nat /\ job[w].stage = "out"
           /\ Tried(w) \/ Answered(w)
           /\ UNCHANGED <<learned, refusals>>
<1>0. job[w] \in Jobs
    BY DEF GatewayTypeOK
<1>h. PICK replies : Hears(w, replies)
    BY DEF Retry, AskGuardAgain, GiveUp, SeatReads, CreatorReads, Finishes
<1>p. roundSpent' \in Nat /\ daySpent' \in Nat /\ job[w].stage = "out"
    BY <1>h, HeardTypes
<1>c. /\ roundSpent' <= roundSpent + MaxCost /\ daySpent' <= daySpent + MaxCost
      /\ w \in Creators => roundSpent' = roundSpent
    BY <1>h, HeardTypes
<1>1. ASSUME NEW stage \in {"wait", FirstCheck(w)}, Again(w, stage), job[w].attempt < MAX_ATTEMPTS
      PROVE  GoesOn(w) /\ job'[w].stage = stage
    <2>1. PICK new : new = [job[w] EXCEPT !.stage = stage, !.attempt = @ + 1]
        OBVIOUS
    <2>2. job[w].attempt + 1 \in 1..MAX_ATTEMPTS /\ job[w].attempt + 1 > 1 /\ job[w].attempt + 1 # 1
        BY <1>0, <1>1, GatewayConstants DEF Jobs
    <2>3. stage \in {"round", "day", "wait"}
        BY DEF FirstCheck
    <2>4. new \in Jobs /\ new.stage = stage /\ new.attempt = job[w].attempt + 1 /\ new.target = job[w].target
          /\ new.model = job[w].model /\ new.known = job[w].known /\ new.degraded = job[w].degraded
        BY <1>0, <2>1, <2>2, <2>3 DEF Jobs
    <2>5. job' = [job EXCEPT ![w] = new]
        BY <1>1, <2>1 DEF Again, GatewayTypeOK
    <2>6. Only(w) /\ job'[w] = new
        BY <2>4, <2>5, JobTypes
    <2> QED
        <3>1. {job[w].stage, job'[w].stage} \subseteq {"round", "day", "wait", "out"}
            BY <1>p, <2>3, <2>4, <2>6
        <3>2. Flying(job[w]) /\ ~Ready(job'[w])
            BY <1>p, <2>2, <2>4, <2>6 DEF Flying, Ready
        <3>3. job'[w].target = job[w].target /\ job'[w].model = job[w].model
              /\ job'[w].known = job[w].known /\ job'[w].degraded = job[w].degraded
            BY <2>4, <2>6
        <3> QED
            BY <2>4, <2>6, <3>1, <3>2, <3>3 DEF GoesOn
<1>2. CASE Retry(w)
    <2>1. UNCHANGED <<roundSpent, daySpent>>
        BY <1>2, HeardTypes DEF Retry, Text
    <2> QED
        BY <1>1, <1>2, <1>p, <2>1 DEF Retry, Tried
<1>3. CASE AskGuardAgain(w)
    <2>1. UNCHANGED <<roundSpent, daySpent>>
        BY <1>3, HeardTypes DEF AskGuardAgain, Text
    <2>2. CASE MAX_ATTEMPTS = 1
        BY <1>3, <1>c, <1>p, <2>2, EndingShapes DEF AskGuardAgain, Answered
    <2>3. CASE MAX_ATTEMPTS # 1
        <3>1. job[w].attempt < MAX_ATTEMPTS
            BY <1>3, <2>3, GatewayConstants DEF AskGuardAgain
        <3> QED
            BY <1>1, <1>3, <1>p, <2>1, <2>3, <3>1 DEF AskGuardAgain, Tried
    <2> QED
        BY <2>2, <2>3
<1>4. CASE GiveUp(w)
    <2>1. UNCHANGED refusals
        <3>1. ASSUME NEW reply \in Refusals, ~StepsDown(job[w], reply), Refused(w, reply) PROVE UNCHANGED refusals
            BY <3>1 DEF StepsDown, Refused
        <3> QED
            BY <1>4, <3>1 DEF GiveUp
    <2> QED
        BY <1>4, <1>c, <1>p, <2>1, EndingShapes DEF GiveUp, Answered
<1>5. CASE SeatReads(w)
    <2>1. UNCHANGED <<learned, refusals>>
        BY <1>5 DEF SeatReads
    <2>2. CASE End(w)
        BY <1>c, <1>p, <2>1, <2>2, EndingShapes DEF Answered
    <2>3. CASE w \in Graders /\ Begins(w, job[w].target, 2)
        <3>1. job[w].target \in Small \cup Own
            BY <1>p, <2>3 DEF SeatsOK
        <3>2. Rests(w) \/ Starts(w)
            BY <2>3, <3>1, BeginningShapes
        <3> QED
            BY <1>c, <1>p, <2>1, <3>2 DEF Answered
    <2> QED
        BY <1>5, <2>2, <2>3 DEF SeatReads, Finishes
<1>6. CASE CreatorReads(w)
    <2>1. UNCHANGED <<learned, refusals>> /\ w \notin Graders
        BY <1>6, GatewayConstants DEF CreatorReads
    <2>2. CASE End(w)
        BY <1>c, <1>p, <2>1, <2>2, EndingShapes DEF Answered
    <2>3. ASSUME NEW t \in CheapestPins, Begins(w, t, 2) PROVE Rests(w) \/ Starts(w)
        BY <2>1, <2>3, BeginningShapes, CreatorPins DEF Pins
    <2> QED
        BY <1>6, <1>c, <1>p, <2>1, <2>2, <2>3 DEF CreatorReads, Finishes, Answered
<1> QED
    BY <1>2, <1>3, <1>4, <1>5, <1>6

(* How a call steps down: its target's model is learned, and what is sent  *)
(* next asks for no schema.                                                *)
LowerShape(w) ==
    /\ Only(w) /\ job[w].stage = "out" /\ AsksSchema(job[w])
    /\ learned' = learned \cup {ModelOf(job[w].target)}
    /\ refusals' = refusals \/ refusals' = [refusals EXCEPT ![job[w].model] = @ + 1]
    /\ UNCHANGED <<roundSpent, daySpent>>
    /\ \/ job'[w].stage = "idle"
       \/ /\ job'[w].stage = "out" /\ job'[w].degraded /\ job'[w].target = job[w].target
          /\ job'[w].model = ModelOf(job[w].target)

(* A call that steps down asks the model of its target again, in plain     *)
(* JSON, and its model is learned.                                         *)
LEMMA LoweringShape ==
    ASSUME GatewayTypeOK, NEW w \in Callers, StepDown(w)
    PROVE  LowerShape(w)
<1>0. job[w] \in Jobs
    BY DEF GatewayTypeOK
<1>1. PICK reply \in Refusals : StepsDown(job[w], reply) /\ Hears(w, {reply}) /\ Refused(w, reply)
    BY DEF StepDown
<1>2. job[w].stage = "out" /\ UNCHANGED <<roundSpent, daySpent>>
    BY <1>1, HeardTypes DEF Refusals, Text
<1>3. AsksSchema(job[w]) /\ (refusals' = refusals \/ refusals' = [refusals EXCEPT ![job[w].model] = @ + 1])
    BY <1>1 DEF StepsDown, Refused
<1>4. learned' = learned \cup {ModelOf(job[w].target)}
    BY DEF StepDown, Learn
<1>5. CASE End(w)
    <2>1. Only(w) /\ job'[w].stage = "idle"
        <3>1. Only(w) /\ job'[w] = IdleJob
            BY <1>5, JobTypes
        <3> QED
            BY <3>1 DEF IdleJob
    <2> QED
        BY <1>2, <1>3, <1>4, <2>1 DEF LowerShape
<1>6. CASE ~End(w)
    <2>1. PICK m : m = ModelOf(job[w].target)
        OBVIOUS
    <2>2. m \in Models
        BY <1>0, <2>1, ModelTypes DEF GatewayTypeOK, Jobs
    <2>3. PICK new : new = [job[w] EXCEPT !.attempt = @ + 1, !.degraded = TRUE, !.model = m]
        OBVIOUS
    <2>4. job[w].attempt # MAX_ATTEMPTS
          /\ job' = [job EXCEPT ![w].attempt = @ + 1, ![w].degraded = TRUE, ![w].model = m]
        BY <1>6, <2>1 DEF StepDown, Body
    <2>5. job' = [job EXCEPT ![w] = new]
        BY <2>3, <2>4 DEF GatewayTypeOK
    <2>6. job[w].attempt + 1 \in 1..MAX_ATTEMPTS
        BY <1>0, <2>4, GatewayConstants DEF Jobs
    <2>7. new \in Jobs /\ new.stage = "out" /\ new.degraded /\ new.target = job[w].target /\ new.model = m
        BY <1>0, <1>2, <2>2, <2>3, <2>6 DEF Jobs
    <2>8. Only(w) /\ job'[w] = new
        BY <2>5, <2>7, JobTypes
    <2> QED
        BY <1>2, <1>3, <1>4, <2>1, <2>7, <2>8 DEF LowerShape
<1> QED
    BY <1>5, <1>6

(* The pins, whatever is done to them, are of their types; a small pin     *)
(* names the model it was loaded with, and settled pins stay.              *)
LEMMA PinSteps ==
    ASSUME PinTypeOK, SeatsOK, PinStep \/ AskHealth \/ Reboot
    PROVE  /\ PinTypeOK'
           /\ \A p \in Small : pin'[p].model = Loaded[p].model
           /\ UNCHANGED listing
<1> USE DEF PinTypeOK
<1>0. \A p \in Small : pin[p].model = Loaded[p].model
    BY DEF SeatsOK
<1>1. ASSUME ApplyList PROVE pin' \in [Pins -> [model : Models, status : {"live", "deprecated"}]]
                             /\ \A p \in Small : pin'[p].model = Loaded[p].model
    <2>1. PICK new \in [Moved -> Models] : 
             pin' = [p \in Pins |->
                 IF p \in Moved THEN [pin[p] EXCEPT !.model = new[p]]
                 ELSE IF p \in StoodDown THEN [pin[p] EXCEPT !.status = "deprecated"]
                 ELSE pin[p]]
        BY <1>1 DEF ApplyList
    <2>2. ASSUME NEW p \in Pins PROVE pin'[p] \in [model : Models, status : {"live", "deprecated"}]
        BY <2>1
    <2>3. ASSUME NEW p \in Small PROVE pin'[p].model = Loaded[p].model
        <3>1. p \notin Moved /\ p \in Pins
            BY PinConstants DEF Moved, Pins
        <3>2. pin'[p].model = pin[p].model
            BY <2>1, <3>1
        <3> QED
            BY <1>0, <3>2
    <2> QED
        BY <2>1, <2>2, <2>3
<1>2. StoodDown \subseteq Pins
    BY DEF StoodDown, Unlisted
<1>3. CASE BootCheck
    BY <1>0, <1>1, <1>3 DEF BootCheck
<1>4. CASE HealthCheck
    BY <1>0, <1>1, <1>2, <1>4 DEF HealthCheck
<1>5. CASE AskHealth
    BY <1>0, <1>5 DEF AskHealth
<1>6. CASE Reboot
    BY <1>6, LoadedTypes DEF Reboot
<1> QED
    BY <1>3, <1>4, <1>5, <1>6 DEF PinStep

(* The gateway's state has its types.                                      *)
LEMMA GatewayType ==
    ASSUME GatewayTypeOK, SeatsOK, [GatewayNext]_gatewayAll
    PROVE  GatewayTypeOK'
<1> USE DEF GatewayTypeOK
<1>p. ASSUME UNCHANGED pinVars \/ (\E w \in Callers : CreatorWaits(w)) PROVE PinTypeOK'
    BY <1>p DEF PinTypeOK, pinVars, CreatorWaits
<1>j. jobs \in 0..MaxJobs /\ faults \in 0..MaxFaults /\ MaxJobs \in Nat /\ MaxFaults \in Nat
    BY GatewayConstants
<1>1. ASSUME NEW w \in Callers, SeatAsks(w) \/ CreatorWaits(w) \/ CreatorAsks(w) PROVE GatewayTypeOK'
    <2>1. job' \in [Callers -> Jobs]
        BY <1>1, TakingShapes DEF Rests, Starts, Only
    <2>2. jobs' \in 0..MaxJobs
        BY <1>1, <1>j DEF SeatAsks, CreatorWaits, CreatorAsks, TakesUp
    <2>3. PinTypeOK'
        BY <1>1, <1>p DEF SeatAsks, CreatorAsks
    <2> QED
        BY <1>1, <2>1, <2>2, <2>3 DEF SeatAsks, CreatorWaits, CreatorAsks
<1>2. ASSUME NEW w \in Callers, CheckRound(w) \/ CheckDay(w) \/ Resend(w) PROVE GatewayTypeOK'
    <2>1. job' \in [Callers -> Jobs]
        BY <1>2, GuardShapes DEF Rests, GoesOn, Writes, Only
    <2>2. PinTypeOK'
        BY <1>2, <1>p DEF CheckRound, CheckDay, Resend
    <2> QED
        BY <1>2, <2>1, <2>2 DEF CheckRound, CheckDay, Resend
<1>3. ASSUME NEW w \in Callers, Retry(w) \/ AskGuardAgain(w) \/ GiveUp(w) \/ SeatReads(w) \/ CreatorReads(w)
      PROVE  GatewayTypeOK'
    <2>1. job' \in [Callers -> Jobs]
        BY <1>3, HearingShapes DEF Tried, Answered, Rests, GoesOn, Starts, Only
    <2>2. roundSpent' \in Nat /\ daySpent' \in Nat /\ UNCHANGED <<learned, refusals>>
        BY <1>3, HearingShapes
    <2>3. UNCHANGED <<jobs, faults, pinVars>>
        BY <1>3 DEF Retry, AskGuardAgain, GiveUp, SeatReads, CreatorReads
    <2>4. PinTypeOK'
        BY <1>p, <2>3
    <2> QED
        BY <2>1, <2>2, <2>3, <2>4
<1>4. ASSUME NEW w \in Callers, StepDown(w) PROVE GatewayTypeOK'
    <2>1. LowerShape(w)
        BY <1>4, LoweringShape
    <2>2. learned' \subseteq Models
        <3>1. ModelOf(job[w].target) \in Models
            BY ModelTypes DEF Jobs
        <3> QED
            BY <2>1, <3>1 DEF LowerShape
    <2>3. refusals' \in [Models -> Nat]
        BY <2>1 DEF LowerShape
    <2>4. UNCHANGED <<jobs, faults, pinVars>>
        BY <1>4 DEF StepDown
    <2>5. PinTypeOK'
        BY <1>p, <2>4
    <2> QED
        BY <2>1, <2>2, <2>3, <2>4, <2>5 DEF LowerShape, Only
<1>5. ASSUME NEW w \in Callers, RecordFails(w) PROVE GatewayTypeOK'
    <2>1. job' \in [Callers -> Jobs]
        BY <1>5, EndingShapes DEF RecordFails, Rests, Only
    <2>2. faults' \in 0..MaxFaults
        BY <1>5, <1>j DEF RecordFails
    <2>3. PinTypeOK'
        BY <1>5, <1>p DEF RecordFails
    <2> QED
        BY <1>5, <2>1, <2>2, <2>3 DEF RecordFails
<1>6. CASE Checking
    <2>1. PinTypeOK'
        BY <1>6, PinSteps DEF Checking
    <2> QED
        BY <1>6, <2>1 DEF Checking, gatewayVars
<1>7. CASE Crash
    <2>1. PinTypeOK'
        BY <1>7, PinSteps DEF Crash
    <2>2. job' \in [Callers -> Jobs]
        BY <1>7, IdleTypes DEF Crash
    <2>3. faults' \in 0..MaxFaults
        BY <1>7, <1>j DEF Crash
    <2>4. learned' = {} /\ refusals' \in [Models -> Nat]
        BY <1>7 DEF Crash
    <2> QED
        BY <1>7, <2>1, <2>2, <2>3, <2>4 DEF Crash
<1>8. CASE UNCHANGED gatewayAll
    BY <1>8 DEF gatewayAll, gatewayVars, pinVars, PinTypeOK
<1> QED
    BY <1>1, <1>2, <1>3, <1>4, <1>5, <1>6, <1>7, <1>8 DEF GatewayNext, CallStep, Guarding, Hearing

-----------------------------------------------------------------------------
(* What is spent.                                                          *)

(* Credits of n answers at most, and what one answer more or less makes.   *)
LEMMA Products ==
    ASSUME NEW M \in Nat, NEW k \in Nat, NEW n \in Nat
    PROVE  /\ M * k \in Nat
           /\ k <= n => M * k <= M * n
           /\ k + 1 <= n => M * k + M <= M * n
<1>1. \A d \in Nat : M * d \in Nat /\ M * (k + d) = M * k + M * d
    OBVIOUS
<1>2. ASSUME k <= n PROVE M * k <= M * n
    <2>1. n - k \in Nat /\ k + (n - k) = n
        BY <1>2
    <2>2. M * (n - k) \in Nat /\ M * n = M * k + M * (n - k)
        BY <1>1, <2>1
    <2> QED
        BY <1>1, <2>2
<1>3. ASSUME k + 1 <= n PROVE M * k + M <= M * n
    <2>1. n - (k + 1) \in Nat /\ (n - (k + 1)) + 1 \in Nat /\ k + ((n - (k + 1)) + 1) = n
        BY <1>3
    <2>2. M * ((n - (k + 1)) + 1) = M * (n - (k + 1)) + M
        BY <2>1
    <2>3. M * n = M * k + M * ((n - (k + 1)) + 1)
        BY <1>1, <2>1
    <2>4. M * (n - (k + 1)) \in Nat /\ M * k \in Nat
        BY <2>1
    <2> QED
        BY <2>2, <2>3, <2>4
<1> QED
    BY <1>1, <1>2, <1>3

(* A ceiling is kept by a step that spends nothing and lets nobody past    *)
(* the check; or one who was checked; or that takes one back for at most   *)
(* one answer.                                                             *)
LEMMA Kept ==
    ASSUME NEW spent \in Nat, NEW next \in Nat, NEW ceiling \in Nat, NEW P \in SUBSET Callers,
           NEW Q \in SUBSET P, NEW R \in SUBSET P,
           spent + MaxCost * Cardinality(Q) < ceiling + MaxCost * Cardinality(P),
           \/ next = spent /\ R \subseteq Q
           \/ next = spent /\ spent < ceiling
           \/ next <= spent + MaxCost /\ \E w \in Q : R \subseteq Q \ {w}
    PROVE  next + MaxCost * Cardinality(R) < ceiling + MaxCost * Cardinality(P)
<1> DEFINE p == Cardinality(P)
           q == Cardinality(Q)
           s == Cardinality(R)
<1>1. p \in Nat /\ q \in Nat /\ s \in Nat /\ s <= p
    BY Counting
<1>2. MaxCost \in Nat /\ MaxCost * p \in Nat /\ MaxCost * q \in Nat /\ MaxCost * s \in Nat /\ MaxCost * s <= MaxCost * p
    BY <1>1, Products, GatewayConstants
<1>3. CASE next = spent /\ R \subseteq Q
    <2>1. s <= q
        BY <1>3, Counting
    <2>2. MaxCost * s <= MaxCost * q
        BY <1>1, <1>2, <2>1, Products
    <2> QED
        BY <1>2, <1>3, <2>2
<1>4. CASE next = spent /\ spent < ceiling
    BY <1>2, <1>4
<1>5. CASE next <= spent + MaxCost /\ \E w \in Q : R \subseteq Q \ {w}
    <2>1. s + 1 <= q
        BY <1>5, Counting
    <2>2. MaxCost * s + MaxCost <= MaxCost * q
        BY <1>1, <1>2, <2>1, Products
    <2> QED
        BY <1>2, <1>5, <2>2
<1> QED
    BY <1>3, <1>4, <1>5

(* What one caller's step does to both ceilings.                           *)
LEMMA CallSpent ==
    ASSUME GatewayTypeOK, SpentOK, GatewayTypeOK', NEW w \in Callers, Only(w),
           \/ /\ UNCHANGED <<roundSpent, daySpent>>
              /\ w \in Graders /\ job'[w].stage \in {"day", "out", "wait"} =>
                   job[w].stage \in {"day", "out", "wait"} \/ Under(roundSpent, RoundCeiling)
              /\ job'[w].stage \in {"out", "wait"} =>
                   job[w].stage \in {"out", "wait"} \/ Under(daySpent, DailyCeiling)
           \/ /\ job[w].stage = "out" /\ job'[w].stage \in {"idle", "pins", FirstCheck(w)}
              /\ daySpent' <= daySpent + MaxCost /\ roundSpent' <= roundSpent + MaxCost
              /\ w \in Creators => roundSpent' = roundSpent
    PROVE  SpentOK'
<1>0. /\ roundSpent \in Nat /\ daySpent \in Nat /\ roundSpent' \in Nat /\ daySpent' \in Nat
      /\ RoundCeiling \in Nat /\ DailyCeiling \in Nat
    BY GatewayConstants DEF GatewayTypeOK
<1>1. PastRound \subseteq Graders /\ PastRound' \subseteq Graders /\ Graders \subseteq Callers
      /\ PastDay \subseteq Callers /\ PastDay' \subseteq Callers
    BY DEF PastRound, PastDay, Callers
<1>2. /\ PastRound' \ {w} \subseteq PastRound /\ PastDay' \ {w} \subseteq PastDay
      /\ w \in PastRound' <=> w \in Graders /\ job'[w].stage \in {"day", "out", "wait"}
      /\ w \in PastRound <=> w \in Graders /\ job[w].stage \in {"day", "out", "wait"}
      /\ w \in PastDay' <=> job'[w].stage \in {"out", "wait"}
      /\ w \in PastDay <=> job[w].stage \in {"out", "wait"}
    BY DEF PastRound, PastDay, Only, Callers
<1>3. ASSUME RoundCeiling > 0
      PROVE  roundSpent' + MaxCost * Cardinality(PastRound') < RoundCeiling + MaxCost * Cardinality(Graders)
    <2>1. \/ roundSpent' = roundSpent /\ PastRound' \subseteq PastRound
          \/ roundSpent' = roundSpent /\ roundSpent < RoundCeiling
          \/ roundSpent' <= roundSpent + MaxCost /\ \E v \in PastRound : PastRound' \subseteq PastRound \ {v}
        <3>1. CASE UNCHANGED <<roundSpent, daySpent>>
            BY <1>2, <1>3, <3>1 DEF Under
        <3>2. CASE ~UNCHANGED <<roundSpent, daySpent>> /\ w \in Graders
            <4>1. w \in PastRound /\ w \notin PastRound'
                BY <1>2, <3>2 DEF FirstCheck
            <4> QED
                BY <1>2, <3>2, <4>1
        <3>3. CASE ~UNCHANGED <<roundSpent, daySpent>> /\ w \notin Graders
            BY <1>2, <3>3 DEF Callers
        <3> QED
            BY <3>1, <3>2, <3>3
    <2> QED
        BY <1>0, <1>1, <1>3, <2>1, Kept DEF SpentOK
<1>4. ASSUME DailyCeiling > 0
      PROVE  daySpent' + MaxCost * Cardinality(PastDay') < DailyCeiling + MaxCost * Cardinality(Callers)
    <2>1. \/ daySpent' = daySpent /\ PastDay' \subseteq PastDay
          \/ daySpent' = daySpent /\ daySpent < DailyCeiling
          \/ daySpent' <= daySpent + MaxCost /\ \E v \in PastDay : PastDay' \subseteq PastDay \ {v}
        <3>1. CASE UNCHANGED <<roundSpent, daySpent>>
            BY <1>2, <1>4, <3>1 DEF Under
        <3>2. CASE ~UNCHANGED <<roundSpent, daySpent>>
            <4>1. w \in PastDay /\ w \notin PastDay'
                BY <1>2, <3>2 DEF FirstCheck
            <4> QED
                BY <1>2, <3>2, <4>1
        <3> QED
            BY <3>1, <3>2
    <2> QED
        BY <1>0, <1>1, <1>4, <2>1, Kept DEF SpentOK
<1> QED
    BY <1>3, <1>4 DEF SpentOK

(* Every step keeps both ceilings.                                         *)
LEMMA StepSpent ==
    ASSUME GatewayTypeOK, SeatsOK, SpentOK, GatewayTypeOK', [GatewayNext]_gatewayAll
    PROVE  SpentOK'
<1>0. \A w \in Callers : w \in Graders <=> w \notin Creators
    BY GatewayConstants DEF Callers
<1>1. ASSUME NEW w \in Callers, SeatAsks(w) \/ CreatorWaits(w) \/ CreatorAsks(w) PROVE SpentOK'
    <2>1. Rests(w) \/ Starts(w)
        BY <1>1, TakingShapes
    <2>2. UNCHANGED <<roundSpent, daySpent>>
        BY <1>1 DEF SeatAsks, CreatorWaits, CreatorAsks
    <2> QED
        BY <2>1, <2>2, CallSpent DEF Rests, Starts, FirstCheck
<1>2. ASSUME NEW w \in Callers, CheckRound(w) \/ CheckDay(w) \/ Resend(w) PROVE SpentOK'
    <2>1. UNCHANGED <<roundSpent, daySpent>>
        BY <1>2 DEF CheckRound, CheckDay, Resend
    <2>2. /\ Only(w)
          /\ job'[w].stage \in {"day", "out", "wait"} =>
               job[w].stage \in {"day", "out", "wait"} \/ Under(roundSpent, RoundCeiling)
          /\ job'[w].stage \in {"out", "wait"} => job[w].stage \in {"out", "wait"} \/ Under(daySpent, DailyCeiling)
        BY <1>2, GuardShapes DEF Rests, GoesOn, Writes
    <2> QED
        BY <2>1, <2>2, CallSpent
<1>3. ASSUME NEW w \in Callers, Retry(w) \/ AskGuardAgain(w) \/ GiveUp(w) \/ SeatReads(w) \/ CreatorReads(w)
      PROVE  SpentOK'
    <2>1. job[w].stage = "out" /\ (Tried(w) \/ Answered(w))
        BY <1>3, HearingShapes
    <2>2. CASE Tried(w)
        BY <1>0, <2>1, <2>2, CallSpent DEF Tried, GoesOn, FirstCheck
    <2>3. CASE Answered(w)
        BY <2>1, <2>3, CallSpent DEF Answered, Rests, Starts
    <2> QED
        BY <2>1, <2>2, <2>3
<1>4. ASSUME NEW w \in Callers, StepDown(w) PROVE SpentOK'
    <2>1. LowerShape(w)
        BY <1>4, LoweringShape
    <2> QED
        BY <2>1, CallSpent DEF LowerShape
<1>5. ASSUME NEW w \in Callers, RecordFails(w) PROVE SpentOK'
    <2>1. Rests(w) /\ UNCHANGED <<roundSpent, daySpent>>
        BY <1>5, EndingShapes DEF RecordFails
    <2> QED
        BY <2>1, CallSpent DEF Rests
<1>6. CASE Checking \/ UNCHANGED gatewayAll
    BY <1>6 DEF Checking, gatewayAll, gatewayVars, SpentOK, PastRound, PastDay
<1>7. CASE Crash
    <2>1. \A w \in Callers : job'[w].stage = "idle"
        <3>1. \A w \in Callers : job'[w] = IdleJob
            BY <1>7 DEF Crash
        <3> QED
            BY <3>1 DEF IdleJob
    <2>2. PastRound' = {} /\ PastDay' = {} /\ Graders \subseteq Callers
        BY <2>1 DEF PastRound, PastDay, Callers
    <2>3. UNCHANGED <<roundSpent, daySpent>> /\ PastRound \subseteq Graders /\ PastDay \subseteq Callers
        BY <1>7 DEF Crash, PastRound, PastDay
    <2>4. /\ roundSpent \in Nat /\ daySpent \in Nat /\ RoundCeiling \in Nat /\ DailyCeiling \in Nat
        BY GatewayConstants DEF GatewayTypeOK
    <2>5. RoundCeiling > 0 =>
            roundSpent' + MaxCost * Cardinality(PastRound') < RoundCeiling + MaxCost * Cardinality(Graders)
        BY <2>2, <2>3, <2>4, Kept DEF SpentOK
    <2>6. DailyCeiling > 0 =>
            daySpent' + MaxCost * Cardinality(PastDay') < DailyCeiling + MaxCost * Cardinality(Callers)
        BY <2>2, <2>3, <2>4, Kept DEF SpentOK
    <2> QED
        BY <2>5, <2>6 DEF SpentOK
<1> QED
    BY <1>1, <1>2, <1>3, <1>4, <1>5, <1>6, <1>7 DEF GatewayNext, CallStep, Guarding, Hearing

-----------------------------------------------------------------------------
(* What is asked of which model.                                           *)

(* However much is known of a model, its refusals and the requests that    *)
(* may bring another are one per caller.                                   *)
LEMMA OnePerCaller ==
    ASSUME GatewayTypeOK, NEW m \in Models, Doomed(m)
    PROVE  refusals[m] + Cardinality(Asking(m)) <= Cardinality(Callers)
<1>1. refusals[m] \in Nat
    BY DEF GatewayTypeOK
<1>2. Asking(m) \subseteq Callers /\ Bound(m) \subseteq Callers /\ Asking(m) \cap Creators \subseteq Bound(m)
    BY DEF Asking, Bound, Callers
<1>3. /\ Cardinality(Asking(m)) \in Nat /\ Cardinality(Bound(m)) \in Nat /\ Cardinality(Callers) \in Nat
      /\ Cardinality(Asking(m)) <= Cardinality(Callers)
      /\ Cardinality(Asking(m) \cap Creators) \in Nat
      /\ Cardinality(Asking(m) \cap Creators) <= Cardinality(Bound(m))
    BY <1>2, Counting
<1>4. CASE m \in learned \/ refusals[m] = 0
    BY <1>1, <1>3, <1>4 DEF Doomed
<1>5. CASE refusals[m] + Cardinality(Bound(m)) <= Cardinality(Creators)
    BY <1>1, <1>2, <1>3, <1>5, Kinds
<1> QED
    BY <1>4, <1>5 DEF Doomed

(* Who asks and who may still ask, after a step that leaves the pins.      *)
LEMMA NextAsking ==
    ASSUME UNCHANGED <<pin, listing>>
    PROVE  /\ \A m, v : v \in Asking(m)' <=>
                v \in Callers /\ Flying(job'[v]) /\ AsksSchema(job'[v]) /\ job'[v].model = m
           /\ \A m, v : v \in Bound(m)' <=>
                v \in Creators /\ (v \in Asking(m)' \/ (Ready(job'[v]) /\ ModelOf(job'[v].target) = m))
           /\ Settled' <=> Settled
<1>1. ASSUME NEW m, NEW v
      PROVE  v \in Asking(m)' <=> v \in Callers /\ Flying(job'[v]) /\ AsksSchema(job'[v]) /\ job'[v].model = m
    BY DEF Asking, Flying, AsksSchema
<1>2. ASSUME NEW m, NEW v
      PROVE  v \in Bound(m)' <=> v \in Creators /\ (v \in Asking(m)' \/ (Ready(job'[v]) /\ ModelOf(job'[v].target) = m))
    BY DEF Bound, Ready, ModelOf
<1>3. Settled' <=> Settled
    BY DEF Settled, Unlisted, Live
<1> QED
    BY <1>1, <1>2, <1>3

(* One caller's call begins, is written, goes on or ends.                  *)
LEMMA CallAsked ==
    ASSUME GatewayTypeOK, AskedOK, NEW w \in Callers, UNCHANGED <<pin, listing, learned, refusals>>,
           Rests(w) \/ Starts(w) \/ GoesOn(w) \/ Writes(w)
    PROVE  AskedOK'
<1> USE DEF AskedOK
<1>0. Only(w) /\ (\A v \in Callers : v = w \/ job'[v] = job[v])
    BY DEF Rests, Starts, GoesOn, Writes, Only
<1>r. Rests(w) => ~Flying(job'[w]) /\ ~Ready(job'[w])
    BY DEF Rests, Flying, Ready
<1>s. Starts(w) => ~Flying(job'[w]) /\ Ready(job'[w]) /\ job'[w].stage \in {"round", "day"}
    BY DEF Starts, Flying, Ready, FirstCheck
<1>w. Writes(w) => ~Ready(job'[w]) /\ Ready(job[w]) /\ ~(AsksSchema(job'[w]) /\ job'[w].model \in learned)
    BY DEF Writes, Ready, AsksSchema
<1>1. SeatsOK'
    <2>1. ASSUME NEW v \in Graders
          PROVE  (job'[v].stage # "idle" => job'[v].target \in Small \cup Own) /\ job'[v].stage # "pins"
        <3>1. v \in Callers /\ v \notin Creators
            BY GatewayConstants DEF Callers
        <3>2. CASE v # w
            BY <1>0, <3>1, <3>2 DEF SeatsOK
        <3>3. CASE v = w /\ (Rests(w) \/ Starts(w))
            BY <1>s, <2>1, <3>1, <3>3 DEF Rests, Starts
        <3>4. CASE v = w /\ GoesOn(w)
            BY <2>1, <3>4 DEF GoesOn, SeatsOK
        <3>5. CASE v = w /\ Writes(w)
            BY <2>1, <3>5 DEF Writes, SeatsOK
        <3> QED
            BY <3>2, <3>3, <3>4, <3>5
    <2> QED
        BY <2>1 DEF SeatsOK
<1>2. WrittenOK'
    <2>1. ASSUME NEW v \in Callers, Flying(job'[v])
          PROVE  \/ job'[v].model = ModelOf(job'[v].target)
                 \/ Settled /\ v \in Creators /\ job'[v].model \notin listing
        <3>1. CASE v # w
            BY <1>0, <2>1, <3>1 DEF WrittenOK
        <3>2. CASE v = w /\ GoesOn(w)
            BY <2>1, <3>2 DEF GoesOn, WrittenOK
        <3>3. CASE v = w /\ Writes(w)
            BY <3>3 DEF Writes
        <3> QED
            BY <1>r, <1>s, <2>1, <3>1, <3>2, <3>3
    <2> QED
        BY <2>1, NextAsking DEF WrittenOK, ModelOf, Flying
<1>3. ASSUME NEW m PROVE /\ Asking(m)' \ {w} \subseteq Asking(m) /\ Bound(m)' \ {w} \subseteq Bound(m)
                         /\ w \in Asking(m)' => w \in Asking(m) \/ m \notin learned
                         /\ Settled /\ m \notin listing /\ w \in Bound(m)' => w \in Bound(m)
    <2>1. /\ \A v : v \in Asking(m)' <=>
               v \in Callers /\ Flying(job'[v]) /\ AsksSchema(job'[v]) /\ job'[v].model = m
          /\ \A v : v \in Bound(m)' <=>
               v \in Creators /\ (v \in Asking(m)' \/ (Ready(job'[v]) /\ ModelOf(job'[v].target) = m))
        BY NextAsking
    <2>2. /\ \A v : v \in Asking(m) <=> v \in Callers /\ Flying(job[v]) /\ AsksSchema(job[v]) /\ job[v].model = m
          /\ \A v : v \in Bound(m) <=>
               v \in Creators /\ (v \in Asking(m) \/ (Ready(job[v]) /\ ModelOf(job[v].target) = m))
        BY DEF Asking, Bound
    <2>3. Asking(m)' \ {w} \subseteq Asking(m)
        BY <1>0, <2>1, <2>2
    <2>4. Bound(m)' \ {w} \subseteq Bound(m)
        BY <1>0, <2>1, <2>2, <2>3 DEF Callers
    <2>5. CASE Rests(w)
        BY <1>r, <2>1, <2>3, <2>4, <2>5
    <2>6. CASE Starts(w)
        <3>1. w \notin Asking(m)'
            BY <1>s, <2>1, <2>6
        <3>2. ASSUME Settled, m \notin listing, w \in Bound(m)' PROVE FALSE
            <4>1. w \in Creators /\ ModelOf(job'[w].target) = m
                BY <2>1, <3>1, <3>2
            <4>2. job'[w].target \in Pins /\ job'[w].target \notin Own /\ Live(job'[w].target)
                BY <2>6, <4>1, GatewayConstants DEF Starts, Usable
            <4>3. pin[job'[w].target].model \in listing
                BY <3>2, <4>2, LiveIsListed
            <4> QED
                BY <3>2, <4>1, <4>2, <4>3 DEF ModelOf
        <3> QED
            BY <2>3, <2>4, <3>1, <3>2
    <2>7. CASE GoesOn(w)
        <3>1. w \in Asking(m)' => w \in Asking(m)
            BY <2>1, <2>2, <2>7 DEF GoesOn, AsksSchema
        <3>2. w \in Bound(m)' => w \in Bound(m)
            BY <2>1, <2>2, <2>7, <3>1 DEF GoesOn
        <3> QED
            BY <2>3, <2>4, <3>1, <3>2
    <2>8. CASE Writes(w)
        <3>1. w \in Asking(m)' => m \notin learned
            BY <1>w, <2>1, <2>8
        <3>2. w \in Bound(m)' => w \in Bound(m)
            BY <1>w, <2>1, <2>2, <2>8 DEF Writes
        <3> QED
            BY <2>3, <2>4, <3>1, <3>2
    <2> QED
        BY <2>5, <2>6, <2>7, <2>8
<1>4. ASSUME NEW m \in Models PROVE Doomed(m)'
    <2>1. Asking(m) \subseteq Callers /\ Bound(m) \subseteq Callers
        BY DEF Asking, Bound, Callers
    <2>2. refusals[m] \in Nat /\ Cardinality(Callers) \in Nat /\ Cardinality(Creators) \in Nat
        BY Kinds DEF GatewayTypeOK
    <2>3. Doomed(m)
        OBVIOUS
    <2>4. CASE m \in learned
        <3>1. Asking(m)' \subseteq Asking(m)
            BY <1>3, <2>4
        <3>2. Cardinality(Asking(m)') <= Cardinality(Asking(m)) /\ Cardinality(Asking(m)') \in Nat /\ Cardinality(Asking(m)) \in Nat
            BY <2>1, <3>1, Counting
        <3>3. refusals'[m] + Cardinality(Asking(m)') <= Cardinality(Callers)
            BY <2>2, <2>3, <2>4, <3>2 DEF Doomed
        <3> QED
            BY <2>4, <3>3 DEF Doomed
    <2>5. CASE m \notin learned /\ refusals[m] = 0
        BY <2>5 DEF Doomed
    <2>6. CASE m \notin learned /\ refusals[m] # 0
        <3>1. Settled /\ m \notin listing /\ refusals[m] + Cardinality(Bound(m)) <= Cardinality(Creators)
            BY <2>3, <2>6 DEF Doomed
        <3>2. Bound(m)' \subseteq Bound(m)
            BY <1>3, <3>1
        <3>3. Cardinality(Bound(m)') <= Cardinality(Bound(m)) /\ Cardinality(Bound(m)') \in Nat /\ Cardinality(Bound(m)) \in Nat
            BY <2>1, <3>2, Counting
        <3>4. refusals'[m] + Cardinality(Bound(m)') <= Cardinality(Creators)
            BY <2>2, <3>1, <3>3
        <3>5. Settled' /\ m \notin listing' /\ m \notin learned'
            BY <2>6, <3>1, NextAsking
        <3> QED
            BY <3>4, <3>5 DEF Doomed
    <2> QED
        BY <2>4, <2>5, <2>6
<1> QED
    BY <1>1, <1>2, <1>4

(* A refusal steps a call down: it is the caller's last of this model, and *)
(* the model is learned, unless the call's pin has moved off it.           *)
LEMMA LowerAsked ==
    ASSUME GatewayTypeOK, AskedOK, NEW w \in Callers, LowerShape(w), UNCHANGED <<pin, listing>>
    PROVE  AskedOK'
<1> USE DEF AskedOK
<1>0. /\ \A v \in Callers : v = w \/ job'[v] = job[v]
      /\ job[w].stage = "out" /\ AsksSchema(job[w])
      /\ Flying(job[w]) /\ ~Ready(job[w]) /\ ~Ready(job'[w])
      /\ ~(Flying(job'[w]) /\ AsksSchema(job'[w]))
    BY DEF LowerShape, Only, Flying, Ready, AsksSchema
<1> DEFINE m0 == job[w].model
           t0 == ModelOf(job[w].target)
<1>t. m0 \in Models /\ t0 \in Models /\ refusals \in [Models -> Nat] /\ learned' = learned \cup {t0}
      /\ (refusals' = refusals \/ refusals' = [refusals EXCEPT ![m0] = @ + 1])
    BY ModelTypes DEF GatewayTypeOK, Jobs, LowerShape
<1>1. SeatsOK'
    <2>1. ASSUME NEW v \in Graders
          PROVE  (job'[v].stage # "idle" => job'[v].target \in Small \cup Own) /\ job'[v].stage # "pins"
        BY <1>0, <2>1 DEF SeatsOK, LowerShape, Callers
    <2> QED
        BY <2>1 DEF SeatsOK
<1>2. WrittenOK'
    <2>1. ASSUME NEW v \in Callers, Flying(job'[v])
          PROVE  \/ job'[v].model = ModelOf(job'[v].target)
                 \/ Settled /\ v \in Creators /\ job'[v].model \notin listing
        <3>1. CASE v # w
            BY <1>0, <2>1, <3>1 DEF WrittenOK
        <3>2. CASE v = w
            BY <2>1, <3>2 DEF LowerShape, Flying
        <3> QED
            BY <3>1, <3>2
    <2> QED
        BY <2>1, NextAsking DEF WrittenOK, ModelOf, Flying
<1>3. ASSUME NEW m PROVE /\ Asking(m)' \subseteq Asking(m) \ {w} /\ Bound(m)' \subseteq Bound(m) \ {w}
                         /\ m = m0 => w \in Asking(m)
                         /\ Bound(m)' \subseteq Creators
    <2>1. /\ \A v : v \in Asking(m)' <=>
               v \in Callers /\ Flying(job'[v]) /\ AsksSchema(job'[v]) /\ job'[v].model = m
          /\ \A v : v \in Bound(m)' <=>
               v \in Creators /\ (v \in Asking(m)' \/ (Ready(job'[v]) /\ ModelOf(job'[v].target) = m))
        BY NextAsking
    <2>2. /\ \A v : v \in Asking(m) <=> v \in Callers /\ Flying(job[v]) /\ AsksSchema(job[v]) /\ job[v].model = m
          /\ \A v : v \in Bound(m) <=>
               v \in Creators /\ (v \in Asking(m) \/ (Ready(job[v]) /\ ModelOf(job[v].target) = m))
        BY DEF Asking, Bound
    <2>3. w \notin Asking(m)' /\ w \notin Bound(m)'
        BY <1>0, <2>1
    <2>4. Asking(m)' \subseteq Asking(m)
        BY <1>0, <2>1, <2>2, <2>3
    <2>5. Bound(m)' \subseteq Bound(m)
        BY <1>0, <2>1, <2>2, <2>3, <2>4 DEF Callers
    <2>6. m = m0 => w \in Asking(m)
        BY <1>0, <2>2
    <2> QED
        BY <2>1, <2>3, <2>4, <2>5, <2>6
<1>4. ASSUME NEW m \in Models PROVE Doomed(m)'
    <2>1. Asking(m) \subseteq Callers /\ Bound(m) \subseteq Callers /\ Creators \subseteq Callers
        BY DEF Asking, Bound, Callers
    <2>2. refusals[m] \in Nat /\ Cardinality(Callers) \in Nat /\ Cardinality(Creators) \in Nat
        BY Kinds DEF GatewayTypeOK
    <2>3. Doomed(m) /\ refusals[m] + Cardinality(Asking(m)) <= Cardinality(Callers)
        BY OnePerCaller
    <2>4. refusals'[m] = refusals[m] \/ (m = m0 /\ refusals'[m] = refusals[m] + 1)
        BY <1>t
    <2>5. CASE m \in learned'
        <3>1. Asking(m)' \subseteq Asking(m) /\ (m = m0 => w \in Asking(m) /\ Asking(m)' \subseteq Asking(m) \ {w})
            BY <1>3
        <3>2. /\ Cardinality(Asking(m)) \in Nat /\ Cardinality(Asking(m)') \in Nat
              /\ Cardinality(Asking(m)') <= Cardinality(Asking(m))
            BY <2>1, <3>1, Counting
        <3>3. m = m0 => Cardinality(Asking(m)') + 1 <= Cardinality(Asking(m))
            BY <2>1, <3>1, Counting
        <3>4. refusals'[m] + Cardinality(Asking(m)') <= Cardinality(Callers)
            BY <2>2, <2>3, <2>4, <3>2, <3>3
        <3> QED
            BY <2>5, <3>4 DEF Doomed
    <2>6. CASE m \notin learned' /\ refusals'[m] = 0
        BY <2>6 DEF Doomed
    <2>7. CASE m \notin learned' /\ refusals'[m] # 0
        <3>1. m \notin learned /\ m # t0
            BY <1>t, <2>7
        <3>2. Bound(m)' \subseteq Bound(m) /\ Bound(m)' \subseteq Creators \ {w}
              /\ (m = m0 => w \in Asking(m)) /\ Bound(m)' \subseteq Bound(m) \ {w}
            BY <1>3
        <3>3. /\ Cardinality(Bound(m)) \in Nat /\ Cardinality(Bound(m)') \in Nat
              /\ Cardinality(Bound(m)') <= Cardinality(Bound(m))
            BY <2>1, <3>2, Counting
        <3>4. m = m0 => w \in Creators /\ Settled /\ m \notin listing
            BY <1>0, <3>1 DEF WrittenOK
        <3>5. m = m0 => Cardinality(Bound(m)') + 1 <= Cardinality(Creators)
            BY <2>1, <3>2, <3>4, Counting
        <3>6. m = m0 => Cardinality(Bound(m)') + 1 <= Cardinality(Bound(m))
            BY <2>1, <3>2, <3>4, Counting DEF Bound
        <3>7. refusals[m] # 0 => Settled /\ m \notin listing /\ refusals[m] + Cardinality(Bound(m)) <= Cardinality(Creators)
            BY <2>3, <3>1 DEF Doomed
        <3>8. refusals'[m] + Cardinality(Bound(m)') <= Cardinality(Creators)
            <4>1. CASE refusals'[m] = refusals[m]
                BY <2>2, <2>7, <3>3, <3>7, <4>1
            <4>2. CASE m = m0 /\ refusals'[m] = refusals[m] + 1 /\ refusals[m] = 0
                BY <2>2, <3>3, <3>5, <4>2
            <4>3. CASE m = m0 /\ refusals'[m] = refusals[m] + 1 /\ refusals[m] # 0
                BY <2>2, <3>3, <3>6, <3>7, <4>3
            <4> QED
                BY <2>4, <4>1, <4>2, <4>3
        <3>9. Settled /\ m \notin listing
            BY <2>4, <2>7, <3>4, <3>7
        <3>10. Settled' /\ m \notin listing'
            BY <3>9, NextAsking
        <3> QED
            BY <2>7, <3>8, <3>10 DEF Doomed
    <2> QED
        BY <2>5, <2>6, <2>7
<1> QED
    BY <1>1, <1>2, <1>4

(* The list is applied: a pin that moves was off it, and then all are on.  *)
LEMMA Settling ==
    ASSUME PinTypeOK, ApplyList, UNCHANGED listing
    PROVE  /\ Settled'
           /\ \A p \in Pins : pin'[p].model # pin[p].model =>
                p \in Frontier /\ pin[p].model \notin listing /\ ~Settled
<1>1. PICK new \in [Moved -> Models] :
        /\ \A p \in Moved : new[p] \in Replacements(p)
        /\ pin' = [p \in Pins |->
             IF p \in Moved THEN [pin[p] EXCEPT !.model = new[p]]
             ELSE IF p \in StoodDown THEN [pin[p] EXCEPT !.status = "deprecated"]
             ELSE pin[p]]
    BY DEF ApplyList
<1>2. \A p \in Pins : pin[p] \in [model : Models, status : {"live", "deprecated"}]
    BY DEF PinTypeOK
<1>3. Moved \subseteq Unlisted /\ Unlisted \subseteq Pins /\ Moved \subseteq Frontier
    BY DEF Moved, Unlisted
<1>4. ASSUME NEW p \in Pins PROVE pin'[p].status = "live" => pin'[p].model \in listing
    <2>1. CASE p \in Moved
        <3>1. pin'[p].model = new[p] /\ new[p] \in listing
            BY <1>1, <1>2, <2>1 DEF Replacements, Best
        <3> QED
            BY <3>1
    <2>2. CASE p \in StoodDown /\ p \notin Moved
        BY <1>1, <1>2, <2>2
    <2>3. CASE p \notin StoodDown /\ p \notin Moved
        <3>1. pin'[p] = pin[p] /\ p \notin Unlisted
            BY <1>1, <2>3 DEF StoodDown
        <3> QED
            BY <3>1 DEF Unlisted, Live
    <2> QED
        BY <2>1, <2>2, <2>3
<1>5. Settled'
    BY <1>4 DEF Settled, Unlisted, Live
<1>6. ASSUME NEW p \in Pins, pin'[p].model # pin[p].model
      PROVE  p \in Frontier /\ pin[p].model \notin listing /\ ~Settled
    <2>1. p \in Moved
        BY <1>1, <1>2, <1>6
    <2> QED
        BY <1>3, <2>1 DEF Unlisted, Settled
<1> QED
    BY <1>5, <1>6

(* The pins are checked while calls are under way.                         *)
LEMMA PinsAsked ==
    ASSUME GatewayTypeOK, AskedOK, UNCHANGED <<listing, job, learned, refusals>>, ApplyList,
           \A p \in Small : pin'[p].model = Loaded[p].model
    PROVE  AskedOK'
<1> USE DEF AskedOK
<1>1. /\ Settled'
      /\ \A p \in Pins : pin'[p].model # pin[p].model =>
           p \in Frontier /\ pin[p].model \notin listing /\ ~Settled
    BY Settling DEF GatewayTypeOK
<1>2. SeatsOK'
    BY DEF SeatsOK
<1>3. WrittenOK'
    <2>1. ASSUME NEW v \in Callers, Flying(job[v])
          PROVE  \/ job[v].model = IF job[v].target \in Own THEN OwnModel[job[v].target] ELSE pin'[job[v].target].model
                 \/ v \in Creators /\ job[v].model \notin listing
        <3>1. CASE job[v].model # ModelOf(job[v].target)
            BY <2>1, <3>1 DEF WrittenOK
        <3>2. CASE job[v].model = ModelOf(job[v].target) /\ job[v].target \in Own
            BY <3>2 DEF ModelOf
        <3>3. CASE job[v].model = ModelOf(job[v].target) /\ job[v].target \notin Own
                   /\ pin'[job[v].target].model # pin[job[v].target].model
            <4>1. job[v].target \in Pins
                BY <3>3 DEF GatewayTypeOK, Jobs, Targets
            <4>2. job[v].target \in Frontier /\ pin[job[v].target].model \notin listing
                BY <1>1, <3>3, <4>1
            <4>3. job[v].target \notin Small
                BY <4>2, PinConstants
            <4>4. job[v].stage # "idle"
                BY <2>1 DEF Flying
            <4>5. v \notin Graders
                BY <3>3, <4>3, <4>4 DEF SeatsOK
            <4> QED
                BY <3>3, <4>2, <4>5 DEF ModelOf, Callers
        <3>4. CASE job[v].model = ModelOf(job[v].target) /\ job[v].target \notin Own
                   /\ pin'[job[v].target].model = pin[job[v].target].model
            BY <3>4 DEF ModelOf
        <3> QED
            BY <3>1, <3>2, <3>3, <3>4
    <2> QED
        BY <1>1, <2>1 DEF WrittenOK, ModelOf, Flying
<1>4. \A m : Asking(m)' = Asking(m)
    BY DEF Asking, Flying, AsksSchema
<1>5. ASSUME NEW m \in Models PROVE Doomed(m)'
    <2>1. Doomed(m)
        OBVIOUS
    <2>2. CASE m \in learned \/ refusals[m] = 0
        BY <1>4, <2>1, <2>2 DEF Doomed
    <2>3. CASE m \notin learned /\ refusals[m] # 0
        <3>1. Settled /\ m \notin listing /\ refusals[m] + Cardinality(Bound(m)) <= Cardinality(Creators)
            BY <2>1, <2>3 DEF Doomed
        <3>2. \A p \in Pins : pin'[p].model = pin[p].model
            BY <1>1, <3>1
        <3>3. \A v \in Callers : job[v].target \in Own \/ job[v].target \in Pins
            BY DEF GatewayTypeOK, Jobs, Targets
        <3>4. Bound(m)' = Bound(m)
            BY <1>4, <3>2, <3>3 DEF Bound, Ready, ModelOf, Callers
        <3> QED
            BY <1>1, <2>3, <3>1, <3>4 DEF Doomed
    <2> QED
        BY <2>2, <2>3
<1> QED
    BY <1>2, <1>3, <1>5

(* Every step keeps the account of what is asked of which model.           *)
LEMMA StepAsked ==
    ASSUME GatewayTypeOK, AskedOK, [GatewayNext]_gatewayAll
    PROVE  AskedOK'
<1>0. SeatsOK /\ PinTypeOK
    BY DEF AskedOK, GatewayTypeOK
<1>1. ASSUME NEW w \in Callers, SeatAsks(w) \/ CreatorWaits(w) \/ CreatorAsks(w) PROVE AskedOK'
    <2>1. Rests(w) \/ Starts(w)
        BY <1>0, <1>1, TakingShapes
    <2>2. UNCHANGED <<pin, listing, learned, refusals>>
        BY <1>1 DEF SeatAsks, CreatorWaits, CreatorAsks, pinVars
    <2> QED
        BY <2>1, <2>2, CallAsked
<1>2. ASSUME NEW w \in Callers, CheckRound(w) \/ CheckDay(w) \/ Resend(w) PROVE AskedOK'
    <2>1. Rests(w) \/ GoesOn(w) \/ Writes(w)
        BY <1>2, GuardShapes
    <2>2. UNCHANGED <<pin, listing, learned, refusals>>
        BY <1>2 DEF CheckRound, CheckDay, Resend, pinVars
    <2> QED
        BY <2>1, <2>2, CallAsked
<1>3. ASSUME NEW w \in Callers, Retry(w) \/ AskGuardAgain(w) \/ GiveUp(w) \/ SeatReads(w) \/ CreatorReads(w)
      PROVE  AskedOK'
    <2>1. UNCHANGED <<learned, refusals>> /\ (Tried(w) \/ Answered(w))
        BY <1>0, <1>3, HearingShapes
    <2>2. Rests(w) \/ Starts(w) \/ GoesOn(w)
        BY <2>1 DEF Tried, Answered
    <2>3. UNCHANGED <<pin, listing>>
        BY <1>3 DEF Retry, AskGuardAgain, GiveUp, SeatReads, CreatorReads, pinVars
    <2> QED
        BY <2>1, <2>2, <2>3, CallAsked
<1>4. ASSUME NEW w \in Callers, StepDown(w) PROVE AskedOK'
    <2>1. LowerShape(w)
        BY <1>4, LoweringShape
    <2>2. UNCHANGED <<pin, listing>>
        BY <1>4 DEF StepDown, pinVars
    <2> QED
        BY <2>1, <2>2, LowerAsked
<1>5. ASSUME NEW w \in Callers, RecordFails(w) PROVE AskedOK'
    <2>1. Rests(w)
        BY <1>5, EndingShapes DEF RecordFails
    <2>2. UNCHANGED <<pin, listing, learned, refusals>>
        BY <1>5 DEF RecordFails, pinVars
    <2> QED
        BY <2>1, <2>2, CallAsked
<1>6. ASSUME UNCHANGED <<pin, listing, job, learned, refusals>> PROVE AskedOK'
    BY <1>6 DEF AskedOK, SeatsOK, WrittenOK, Settled, Unlisted, Live, Flying, ModelOf, Doomed, Asking, AsksSchema,
                Bound, Ready
<1>7. CASE Checking
    <2>1. UNCHANGED <<job, learned, refusals>>
        BY <1>7 DEF Checking, gatewayVars
    <2>2. UNCHANGED listing /\ \A p \in Small : pin'[p].model = Loaded[p].model
        BY <1>0, <1>7, PinSteps DEF Checking
    <2>3. ApplyList \/ UNCHANGED pin
        BY <1>7 DEF Checking, PinStep, BootCheck, HealthCheck, AskHealth
    <2> QED
        BY <1>6, <2>1, <2>2, <2>3, PinsAsked
<1>8. CASE Crash
    <2>1. \A w \in Callers : job'[w].stage = "idle" /\ ~Flying(job'[w])
        <3>1. \A w \in Callers : job'[w] = IdleJob
            BY <1>8 DEF Crash
        <3> QED
            BY <3>1 DEF IdleJob, Flying
    <2>2. \A p \in Small : pin'[p].model = Loaded[p].model
        BY <1>0, <1>8, PinSteps DEF Crash
    <2>3. SeatsOK'
        BY <2>1, <2>2 DEF SeatsOK, Callers
    <2>4. WrittenOK'
        BY <2>1 DEF WrittenOK, Flying
    <2>5. \A m \in Models : Doomed(m)'
        BY <1>8 DEF Crash, Doomed
    <2> QED
        BY <2>3, <2>4, <2>5 DEF AskedOK
<1>9. CASE UNCHANGED gatewayAll
    BY <1>6, <1>9 DEF gatewayAll, gatewayVars, pinVars
<1> QED
    BY <1>1, <1>2, <1>3, <1>4, <1>5, <1>7, <1>8, <1>9 DEF GatewayNext, CallStep, Guarding, Hearing

-----------------------------------------------------------------------------
(* How much of a job is left.                                              *)

(* Where a call is in its attempt, from the last place to the first.       *)
Place(stage) == IF stage = "out" THEN 1 ELSE IF stage = "wait" THEN 2 ELSE IF stage = "day" THEN 3 ELSE 4

(* What is left of a job: attempts of this call, and of the second one     *)
(* when this is the first; within an attempt, the guard and the wait.      *)
Calls(j) == IF j.nr = 1 THEN 2 ELSE 1
Left(j) ==
    IF j.stage = "idle" THEN 0
    ELSE IF j.stage = "pins" THEN 10 * MAX_ATTEMPTS
    ELSE 5 * (Calls(j) * MAX_ATTEMPTS - j.attempt) + Place(j.stage)

Working == {"round", "day", "wait", "out"}

(* What is left is counted by naturals, and is nothing only for the idle.  *)
LEMMA LeftFacts ==
    ASSUME NEW j \in Jobs
    PROVE  /\ Left(j) \in Nat /\ Left(j) <= 10 * MAX_ATTEMPTS
           /\ j.stage = "idle" <=> Left(j) = 0
           /\ j.stage \in Working => Left(j) = 5 * (Calls(j) * MAX_ATTEMPTS - j.attempt) + Place(j.stage)
<1>1. /\ MAX_ATTEMPTS \in Nat \ {0} /\ j.attempt \in Nat /\ j.attempt >= 1 /\ j.attempt <= MAX_ATTEMPTS
      /\ Place(j.stage) \in 1..4 /\ Calls(j) \in {1, 2}
    BY GatewayConstants DEF Jobs, Place, Calls
<1>2. Calls(j) * MAX_ATTEMPTS = MAX_ATTEMPTS \/ Calls(j) * MAX_ATTEMPTS = 2 * MAX_ATTEMPTS
    BY <1>1
<1>3. PICK a : a = Calls(j) * MAX_ATTEMPTS
    OBVIOUS
<1>4. a = MAX_ATTEMPTS \/ a = 2 * MAX_ATTEMPTS
    BY <1>2, <1>3
<1>5. Left(j) = IF j.stage = "idle" THEN 0 ELSE IF j.stage = "pins" THEN 10 * MAX_ATTEMPTS
                ELSE 5 * (a - j.attempt) + Place(j.stage)
    BY <1>3 DEF Left
<1>6. 5 * (a - j.attempt) + Place(j.stage) \in Nat /\ 5 * (a - j.attempt) + Place(j.stage) >= 1
      /\ 5 * (a - j.attempt) + Place(j.stage) <= 10 * MAX_ATTEMPTS
    BY <1>1, <1>4
<1> QED
    BY <1>1, <1>3, <1>5, <1>6 DEF Working

(* A working call that goes on has less left when it is nearer to being    *)
(* sent, or has made another attempt.                                      *)
LEMMA LessLeft ==
    ASSUME NEW i \in Jobs, NEW j \in Jobs, i.stage \in Working, j.stage \in Working, j.nr = i.nr,
           j.attempt > i.attempt \/ (j.attempt = i.attempt /\ Place(j.stage) < Place(i.stage))
    PROVE  Left(j) < Left(i)
<1>1. PICK a : a = Calls(i) * MAX_ATTEMPTS
    OBVIOUS
<1>2. Calls(j) * MAX_ATTEMPTS = a /\ a \in Nat
    BY <1>1, GatewayConstants DEF Calls
<1>3. Left(i) = 5 * (a - i.attempt) + Place(i.stage) /\ Left(j) = 5 * (a - j.attempt) + Place(j.stage)
    BY <1>1, <1>2, LeftFacts
<1>4. i.attempt \in Int /\ j.attempt \in Int /\ Place(i.stage) \in 1..4 /\ Place(j.stage) \in 1..4
    BY DEF Jobs, Place
<1> QED
    BY <1>2, <1>3, <1>4

(* A job that ends has nothing left.                                       *)
LEMMA EndsLess ==
    ASSUME GatewayTypeOK, NEW w \in Callers, job[w].stage # "idle", End(w)
    PROVE  Only(w) /\ Left(job'[w]) < Left(job[w])
<1>1. Only(w) /\ job'[w] = IdleJob /\ job[w] \in Jobs
    BY JobTypes DEF GatewayTypeOK
<1>2. Left(job'[w]) = 0
    BY <1>1 DEF Left, IdleJob
<1>3. Left(job[w]) \in Nat /\ Left(job[w]) # 0
    BY <1>1, LeftFacts
<1> QED
    BY <1>1, <1>2, <1>3

(* The first call of a creator that has waited for its pins, and the       *)
(* second call of any job, are less than what went before.                 *)
LEMMA BeginsLess ==
    ASSUME GatewayTypeOK, NEW w \in Callers, NEW t \in Targets, NEW nr \in 1..2, Begins(w, t, nr),
           \/ job[w].stage = "pins"
           \/ job[w].stage = "out" /\ job[w].nr = 1 /\ nr = 2
    PROVE  Only(w) /\ Left(job'[w]) < Left(job[w])
<1>1. CASE ~Usable(t)
    <2>1. End(w)
        BY <1>1 DEF Begins, End
    <2> QED
        BY <2>1, EndsLess
<1>2. CASE Usable(t)
    <2>1. PICK new : new = [IdleJob EXCEPT !.stage = FirstCheck(w), !.target = t, !.nr = nr]
        OBVIOUS
    <2>2. Only(w) /\ job'[w] = new
        <3>1. /\ Only(w)
              /\ IF Usable(t) THEN job'[w] = [IdleJob EXCEPT !.stage = FirstCheck(w), !.target = t, !.nr = nr]
                              ELSE job'[w] = IdleJob
            BY JobTypes
        <3> QED
            BY <1>2, <2>1, <3>1
    <2>3. new \in Jobs /\ new.stage \in {"round", "day"} /\ new.nr = nr /\ new.attempt = 1 /\ job[w] \in Jobs
        BY <2>1, <2>2, IdleTypes DEF Only, FirstCheck, IdleJob, GatewayTypeOK
    <2>4. /\ MAX_ATTEMPTS \in Nat /\ MAX_ATTEMPTS >= 1
          /\ Place(new.stage) \in {3, 4} /\ Calls(new) = IF nr = 1 THEN 2 ELSE 1
        BY <2>3, GatewayConstants DEF Place, Calls
    <2>5. Left(new) = 5 * (Calls(new) * MAX_ATTEMPTS - 1) + Place(new.stage)
        BY <2>3, LeftFacts DEF Working
    <2>6. /\ Left(new) < 10 * MAX_ATTEMPTS
          /\ nr = 2 => Left(new) < 5 * MAX_ATTEMPTS
        BY <2>4, <2>5
    <2>7. CASE job[w].stage = "pins"
        BY <2>2, <2>6, <2>7 DEF Left
    <2>8. CASE job[w].stage = "out" /\ job[w].nr = 1 /\ nr = 2
        <3>1. Left(job[w]) = 5 * (2 * MAX_ATTEMPTS - job[w].attempt) + 1
            BY <2>3, <2>8, LeftFacts DEF Working, Calls, Place
        <3>2. job[w].attempt \in Int /\ job[w].attempt <= MAX_ATTEMPTS
            BY <2>3, GatewayConstants DEF Jobs
        <3>3. Left(job[w]) >= 5 * MAX_ATTEMPTS /\ Left(job[w]) \in Int
            BY <2>4, <3>1, <3>2
        <3>4. Left(new) \in Int
            BY <2>3, LeftFacts
        <3> QED
            BY <2>2, <2>4, <2>6, <2>8, <3>3, <3>4
    <2> QED
        BY <2>7, <2>8
<1> QED
    BY <1>1, <1>2

(* A call that is changed so that less is left of it.                      *)
LEMMA ChangesLess ==
    ASSUME GatewayTypeOK, NEW w \in Callers, NEW new \in Jobs, job' = [job EXCEPT ![w] = new],
           job[w].stage \in Working, new.stage \in Working, new.nr = job[w].nr,
           new.attempt > job[w].attempt \/ (new.attempt = job[w].attempt /\ Place(new.stage) < Place(job[w].stage))
    PROVE  Only(w) /\ Left(job'[w]) < Left(job[w])
<1>1. Only(w) /\ job'[w] = new /\ job[w] \in Jobs
    BY JobTypes DEF GatewayTypeOK
<1> QED
    BY <1>1, LessLeft

(* The guard, and the wait before a call is sent again.                    *)
LEMMA GuardLess ==
    ASSUME GatewayTypeOK, NEW w \in Callers, CheckRound(w) \/ CheckDay(w) \/ Resend(w)
    PROVE  Only(w) /\ Left(job'[w]) < Left(job[w])
<1>0. job[w] \in Jobs
    BY DEF GatewayTypeOK
<1>s. job[w].stage \in Working \ {"out"} /\ job[w].stage # "idle"
    BY DEF CheckRound, CheckDay, Resend, Working
<1>1. CASE End(w)
    BY <1>1, <1>s, EndsLess
<1>2. ASSUME NEW stage \in {"day", "wait", "out"}, Place(stage) < Place(job[w].stage),
             job' = [job EXCEPT ![w] = [job[w] EXCEPT !.stage = stage]]
      PROVE  Only(w) /\ Left(job'[w]) < Left(job[w])
    <2>1. PICK new : new = [job[w] EXCEPT !.stage = stage]
        OBVIOUS
    <2>2. new \in Jobs /\ new.stage = stage /\ new.nr = job[w].nr /\ new.attempt = job[w].attempt
        BY <1>0, <2>1 DEF Jobs
    <2>3. job' = [job EXCEPT ![w] = new] /\ stage \in Working /\ job[w].stage \in Working
        BY <1>2, <1>s, <2>1 DEF Working
    <2> QED
        BY <1>2, <2>2, <2>3, ChangesLess
<1>3. CASE CheckRound(w) /\ ~End(w)
    <2>1. job[w].stage = "round" /\ job' = [job EXCEPT ![w] = [job[w] EXCEPT !.stage = "day"]]
        BY <1>3 DEF CheckRound
    <2> QED
        BY <1>2, <2>1 DEF Place
<1>4. CASE CheckDay(w) /\ ~End(w) /\ job[w].attempt # 1
    <2>1. job[w].stage = "day" /\ job' = [job EXCEPT ![w] = [job[w] EXCEPT !.stage = "wait"]]
        BY <1>4 DEF CheckDay
    <2> QED
        BY <1>2, <2>1 DEF Place
<1>5. CASE Resend(w)
    <2>1. job[w].stage = "wait" /\ job' = [job EXCEPT ![w] = [job[w] EXCEPT !.stage = "out"]]
        BY <1>5 DEF Resend
    <2> QED
        BY <1>2, <2>1 DEF Place
<1>6. CASE CheckDay(w) /\ ~End(w) /\ job[w].attempt = 1
    <2>1. job[w].stage = "day" /\ job' = [job EXCEPT ![w] = Written(job[w])]
        BY <1>6 DEF CheckDay
    <2>2. PICK b : b = Body(job[w].target)
        OBVIOUS
    <2>3. b.model \in Models /\ b.schema \in BOOLEAN
        BY <1>0, <2>2, ModelTypes DEF Body, GatewayTypeOK, Jobs
    <2>4. PICK new : new = [job[w] EXCEPT !.stage = "out", !.model = b.model, !.known = ~b.schema]
        OBVIOUS
    <2>5. new \in Jobs /\ new.stage = "out" /\ new.nr = job[w].nr /\ new.attempt = job[w].attempt
        BY <1>0, <2>3, <2>4 DEF Jobs
    <2>6. job' = [job EXCEPT ![w] = new]
        BY <2>1, <2>2, <2>4 DEF Written
    <2>7. Place(new.stage) < Place(job[w].stage) /\ new.stage \in Working /\ job[w].stage \in Working
        BY <2>1, <2>5 DEF Place, Working
    <2> QED
        BY <2>5, <2>6, <2>7, ChangesLess
<1> QED
    BY <1>1, <1>3, <1>4, <1>5, <1>6

(* Whatever is heard, and heard or not.                                    *)
LEMMA HearingLess ==
    ASSUME GatewayTypeOK, NEW w \in Callers, Hearing(w) \/ RecordFails(w)
    PROVE  Only(w) /\ Left(job'[w]) < Left(job[w])
<1>0. job[w] \in Jobs
    BY DEF GatewayTypeOK
<1>s. job[w].stage = "out" /\ job[w].stage \in Working
    BY DEF Hearing, Retry, StepDown, AskGuardAgain, GiveUp, SeatReads, CreatorReads, Finishes, Hears, RecordFails,
           Working
<1>e. CASE End(w)
    BY <1>e, <1>s, EndsLess
<1>1. ASSUME NEW stage \in {"wait", FirstCheck(w)}, Again(w, stage), job[w].attempt < MAX_ATTEMPTS
      PROVE  Only(w) /\ Left(job'[w]) < Left(job[w])
    <2>1. PICK new : new = [job[w] EXCEPT !.stage = stage, !.attempt = @ + 1]
        OBVIOUS
    <2>2. job[w].attempt \in Int /\ job[w].attempt + 1 \in 1..MAX_ATTEMPTS /\ job[w].attempt + 1 > job[w].attempt
        BY <1>0, <1>1, GatewayConstants DEF Jobs
    <2>3. stage \in {"round", "day", "wait"} /\ stage \in Working
        BY DEF FirstCheck, Working
    <2>4. new \in Jobs /\ new.stage = stage /\ new.attempt = job[w].attempt + 1 /\ new.nr = job[w].nr
        BY <1>0, <2>1, <2>2, <2>3 DEF Jobs
    <2>5. job' = [job EXCEPT ![w] = new]
        BY <1>1, <2>1 DEF Again, GatewayTypeOK
    <2>6. new.stage \in Working /\ new.attempt > job[w].attempt
        BY <2>2, <2>3, <2>4
    <2> QED
        BY <1>s, <2>4, <2>5, <2>6, ChangesLess
<1>2. CASE Retry(w)
    BY <1>1, <1>2 DEF Retry
<1>3. CASE AskGuardAgain(w) /\ ~End(w)
    <2>1. job[w].attempt < MAX_ATTEMPTS
        BY <1>3, GatewayConstants DEF AskGuardAgain
    <2> QED
        BY <1>1, <1>3, <2>1 DEF AskGuardAgain
<1>4. CASE StepDown(w) /\ ~End(w)
    <2>1. PICK m : m = ModelOf(job[w].target)
        OBVIOUS
    <2>2. m \in Models
        BY <1>0, <2>1, ModelTypes DEF GatewayTypeOK, Jobs
    <2>3. PICK new : new = [job[w] EXCEPT !.attempt = @ + 1, !.degraded = TRUE, !.model = m]
        OBVIOUS
    <2>4. job[w].attempt # MAX_ATTEMPTS
          /\ job' = [job EXCEPT ![w].attempt = @ + 1, ![w].degraded = TRUE, ![w].model = m]
        BY <1>4, <2>1 DEF StepDown, Body
    <2>5. job' = [job EXCEPT ![w] = new]
        BY <2>3, <2>4 DEF GatewayTypeOK
    <2>6. job[w].attempt + 1 \in 1..MAX_ATTEMPTS /\ job[w].attempt + 1 > job[w].attempt
        BY <1>0, <2>4, GatewayConstants DEF Jobs
    <2>7. new \in Jobs /\ new.stage = job[w].stage /\ new.attempt = job[w].attempt + 1 /\ new.nr = job[w].nr
        BY <1>0, <2>2, <2>3, <2>6 DEF Jobs
    <2>8. new.stage \in Working /\ new.attempt > job[w].attempt
        BY <1>s, <2>6, <2>7
    <2> QED
        BY <1>s, <2>5, <2>7, <2>8, ChangesLess
<1>5. CASE GiveUp(w)
    BY <1>5, <1>e DEF GiveUp
<1>6. CASE SeatReads(w) /\ ~End(w)
    <2>1. job[w].nr = 1 /\ Begins(w, job[w].target, 2)
        BY <1>6 DEF SeatReads, Finishes
    <2>2. job[w].target \in Targets
        BY <1>0 DEF Jobs
    <2> QED
        BY <1>s, <2>1, <2>2, BeginsLess
<1>7. CASE CreatorReads(w) /\ ~End(w)
    <2>1. PICK t \in CheapestPins : job[w].nr = 1 /\ Begins(w, t, 2)
        BY <1>7 DEF CreatorReads, Finishes
    <2>2. t \in Targets
        BY CreatorPins DEF Targets, Pins
    <2> QED
        BY <1>s, <2>1, <2>2, BeginsLess
<1>8. CASE RecordFails(w)
    BY <1>8, <1>e DEF RecordFails
<1> QED
    BY <1>2, <1>3, <1>4, <1>5, <1>6, <1>7, <1>8, <1>e DEF Hearing

(* A creator whose pins were checked makes its first call.                 *)
LEMMA WaitingLess ==
    ASSUME GatewayTypeOK, NEW w \in Callers, CreatorAsks(w)
    PROVE  Only(w) /\ Left(job'[w]) < Left(job[w])
<1>1. PICK t \in WriterPins(Writer) : Begins(w, t, 1)
    BY DEF CreatorAsks
<1>2. t \in Targets /\ job[w].stage = "pins"
    BY CreatorPins DEF Targets, CreatorAsks
<1> QED
    BY <1>1, <1>2, BeginsLess

(* A step of a call leaves less of its job; any other step leaves a job    *)
(* that is under way as it is, or ends it with its process.                *)
WindsDown ==
    \A w \in Callers :
        /\ CallStep(w) => Left(job'[w]) < Left(job[w])
        /\ job[w].stage # "idle" /\ job'[w] # job[w] => Left(job'[w]) < Left(job[w])

(* Whoever moves, jobs wind down.                                          *)
LEMMA StepWindsDown ==
    ASSUME GatewayTypeOK, GatewayNext
    PROVE  WindsDown
<1>1. ASSUME NEW w \in Callers, CallStep(w) PROVE Only(w) /\ Left(job'[w]) < Left(job[w])
    BY <1>1, WaitingLess, GuardLess, HearingLess DEF CallStep, Guarding
<1>2. ASSUME NEW v \in Callers, job[v].stage # "idle", job'[v] # job[v] PROVE Left(job'[v]) < Left(job[v])
    <2>1. ASSUME NEW w \in Callers, Only(w), Left(job'[w]) < Left(job[w]) PROVE Left(job'[v]) < Left(job[v])
        BY <1>2, <2>1 DEF Only
    <2>2. ASSUME NEW w \in Callers, TakesUp(w), SeatAsks(w) \/ CreatorWaits(w) PROVE FALSE
        <3>1. v # w /\ job[v] \in Jobs
            BY <1>2, <2>2 DEF TakesUp, GatewayTypeOK
        <3>2. job'[v] = job[v]
            BY <2>2, <3>1 DEF SeatAsks, CreatorWaits, Begins, GatewayTypeOK
        <3> QED
            BY <1>2, <3>2
    <2>3. CASE \E w \in Callers : SeatAsks(w) \/ CreatorWaits(w)
        BY <2>2, <2>3 DEF SeatAsks, CreatorWaits
    <2>4. CASE \E w \in Callers : CallStep(w) \/ RecordFails(w)
        BY <1>1, <2>1, <2>4, HearingLess
    <2>5. CASE Checking
        BY <1>2, <2>5 DEF Checking, gatewayVars
    <2>6. CASE Crash
        <3>1. job'[v] = IdleJob /\ job[v] \in Jobs
            BY <2>6 DEF Crash, GatewayTypeOK
        <3>2. Left(job'[v]) = 0
            BY <3>1 DEF Left, IdleJob
        <3>3. Left(job[v]) \in Nat /\ Left(job[v]) # 0
            BY <1>2, <3>1, LeftFacts
        <3> QED
            BY <3>2, <3>3
    <2> QED
        BY <2>3, <2>4, <2>5, <2>6 DEF GatewayNext
<1> QED
    BY <1>1, <1>2 DEF WindsDown

-----------------------------------------------------------------------------
(* The gateway, for any constants.                                         *)

(* Types, ceilings and the account of what is asked are kept in every      *)
(* reachable state.                                                        *)
THEOREM GatewayInvariance == GatewaySpec => []GatewayInv
<1>1. GatewayInv /\ [GatewayNext]_gatewayAll => GatewayInv'
    <2> SUFFICES ASSUME GatewayInv, [GatewayNext]_gatewayAll PROVE GatewayInv'
        OBVIOUS
    <2>1. GatewayTypeOK'
        BY GatewayType DEF GatewayInv, AskedOK
    <2>2. SpentOK'
        BY <2>1, StepSpent DEF GatewayInv, AskedOK
    <2>3. AskedOK'
        BY StepAsked DEF GatewayInv
    <2> QED
        BY <2>1, <2>2, <2>3 DEF GatewayInv
<1> QED
    BY InitGateway, <1>1, PTL DEF GatewaySpec

(* Calls, pins, what was learned and what was spent have their types; no   *)
(* call makes more attempts than it may.                                   *)
THEOREM GatewayTypeCorrect == GatewaySpec => []GatewayTypeOK
<1>1. GatewayInv => GatewayTypeOK
    BY DEF GatewayInv
<1> QED
    BY GatewayInvariance, <1>1, PTL

(* No job goes round in circles: every step of a call leaves less of its   *)
(* job, through retries, steps down, refusals and second calls, nobody     *)
(* else's step leaves more, and there is never more than a bound that only *)
(* the number of attempts sets.                                            *)
THEOREM CallsWindDown ==
    GatewaySpec => /\ [](\A w \in Callers : Left(job[w]) \in 0..10 * MAX_ATTEMPTS)
                   /\ [][WindsDown]_gatewayAll
<1> DEFINE Bounded == \A w \in Callers : Left(job[w]) \in 0..10 * MAX_ATTEMPTS
<1>1. GatewayInv => Bounded
    <2> SUFFICES ASSUME GatewayInv, NEW w \in Callers PROVE Left(job[w]) \in 0..10 * MAX_ATTEMPTS
        OBVIOUS
    <2>1. job[w] \in Jobs
        BY DEF GatewayInv, GatewayTypeOK
    <2> QED
        BY <2>1, LeftFacts, GatewayConstants
<1>2. GatewayInv /\ [GatewayNext]_gatewayAll => [WindsDown]_gatewayAll
    BY StepWindsDown DEF GatewayInv
<1> HIDE DEF Bounded
<1>3. GatewaySpec => []Bounded /\ [][WindsDown]_gatewayAll
    BY GatewayInvariance, <1>1, <1>2, PTL DEF GatewaySpec
<1> QED
    BY <1>3 DEF Bounded

(* However calls, retries, second calls and restarts interleave, a ceiling *)
(* is passed by no more than one answer per caller.                        *)
THEOREM Overshoot == GatewaySpec => []OvershootIsBounded
<1>1. ASSUME GatewayInv PROVE OvershootIsBounded
    <2>1. PastRound \subseteq Callers /\ PastDay \subseteq Callers /\ Graders \subseteq Callers
        BY DEF PastRound, PastDay, Callers
    <2>2. Cardinality(PastRound) \in Nat /\ Cardinality(PastDay) \in Nat
          /\ Cardinality(Graders) \in Nat /\ Cardinality(Callers) \in Nat
        BY <2>1, Counting
    <2>3. MaxCost * Cardinality(PastRound) \in Nat /\ MaxCost * Cardinality(PastDay) \in Nat
          /\ MaxCost * Cardinality(Graders) \in Nat /\ MaxCost * Cardinality(Callers) \in Nat
        BY <2>2, Products, GatewayConstants
    <2>4. roundSpent \in Nat /\ daySpent \in Nat /\ RoundCeiling \in Nat /\ DailyCeiling \in Nat
        BY <1>1, GatewayConstants DEF GatewayInv, GatewayTypeOK
    <2> QED
        BY <1>1, <2>3, <2>4 DEF GatewayInv, SpentOK, OvershootIsBounded
<1> QED
    BY GatewayInvariance, <1>1, PTL

(* Within one process a model refuses a schema at most once per caller,    *)
(* though calls under way when the first refusal comes may ask for it too, *)
(* and a pin may have moved off the model that refuses.                    *)
THEOREM FewDoomed == GatewaySpec => []FewDoomedRequests
<1>1. ASSUME GatewayInv PROVE FewDoomedRequests
    <2>1. ASSUME NEW m \in Models PROVE refusals[m] <= Cardinality(Callers)
        <3>1. refusals[m] + Cardinality(Asking(m)) <= Cardinality(Callers) /\ refusals[m] \in Nat
            BY <1>1, OnePerCaller DEF GatewayInv, AskedOK, GatewayTypeOK
        <3>2. Cardinality(Asking(m)) \in Nat /\ Cardinality(Callers) \in Nat
            BY Counting DEF Asking
        <3> QED
            BY <3>1, <3>2
    <2> QED
        BY <2>1 DEF FewDoomedRequests
<1> QED
    BY GatewayInvariance, <1>1, PTL

(* Whatever the router lists and whenever it is asked, a seat's request    *)
(* names the model its pin was loaded with.                                *)
THEOREM SeatsAsk == GatewaySpec => []SeatsAskTheirModel
<1>1. ASSUME GatewayInv PROVE SeatsAskTheirModel
    <2>1. ASSUME NEW w \in Graders, job[w].stage \in {"out", "wait"}, job[w].target \in Pins
          PROVE  job[w].model = Loaded[job[w].target].model
        <3>1. w \in Callers /\ w \notin Creators /\ Flying(job[w])
            BY <2>1, GatewayConstants DEF Callers, Flying
        <3>2. job[w].model = ModelOf(job[w].target)
            BY <1>1, <3>1 DEF GatewayInv, AskedOK, WrittenOK
        <3>3. job[w].target \in Small /\ job[w].target \notin Own
            BY <1>1, <2>1, GatewayConstants DEF GatewayInv, AskedOK, SeatsOK
        <3> QED
            BY <1>1, <3>2, <3>3 DEF ModelOf, GatewayInv, AskedOK, SeatsOK
    <2> QED
        BY <2>1 DEF SeatsAskTheirModel
<1> QED
    BY GatewayInvariance, <1>1, PTL

-----------------------------------------------------------------------------
(* THE SCENARIO JOB.                                                       *)

(* A part marked done, by the row or by any copy of the row a mark holds,  *)
(* has landed; so has one that is about to be marked.                      *)
LandedOK ==
    /\ \A p \in Parts : part[p] = "done" => p \in landed
    /\ \A m \in chain, p \in Parts : m.read[p] = "done" => p \in landed
    /\ \A m \in chain : m.mark = "done" => m.of \in landed
    /\ \A n \in Requests, p \in Parts : run[n].step[p] = "stored" => p \in landed
    /\ status = "done" => \A p \in Parts : part[p] = "done"

(* A mark on its way belongs to a request that waits for it, and in each   *)
(* process there is one.                                                   *)
ChainOK ==
    /\ \A m \in chain : run[m.by].stage = "working" /\ run[m.by].step[m.of] = "marking" /\ m.at = run[m.by].at
    /\ \A m, k \in chain : m.at = k.at \/ (m.by = k.by /\ m.of = k.of) => m = k

(* Somebody still has the part to see to.                                  *)
Busy(n, p) == n \in Active /\ run[n].step[p] \notin {"out", "over"}
PartOver(p) == part[p] \in {"done", "failed"}

(* Served by one process, every mark holds the row as it is; and unless a  *)
(* request was cut off, a part is settled or somebody sees to it.          *)
OnePlace == \A n, k \in Ran : run[n].at = run[k].at
ServedOK ==
    OnePlace =>
        /\ \A m \in chain : m.read = part
        /\ Ran # {} /\ ~cutOff => \A p \in Parts : PartOver(p) \/ \E n \in Requests : Busy(n, p)

JobInv == TypeOK /\ LandedOK /\ ChainOK /\ ServedOK

(* While the page reads the stream of a request nobody else ran beside,    *)
(* every mark is of that request and holds the row as it is.               *)
StreamOK ==
    /\ page \in Pages /\ mine \in Requests \cup {0}
    /\ page = "streaming" <=> mine # 0
    /\ page = "streaming" => mine \in Ran
    /\ page = "streaming" /\ alone =>
         /\ Active \subseteq {mine}
         /\ \A m \in chain : m.read = part
         /\ \A p \in Parts : PartOver(p) \/ Busy(mine, p)
    /\ LandedIsWhole

PageInv == JobInv /\ StreamOK

-----------------------------------------------------------------------------
(* The job.                                                                *)

LEMMA InitJob == Init => JobInv
<1> SUFFICES ASSUME Init PROVE JobInv
    OBVIOUS
<1>1. (CHOOSE i \in Instances : TRUE) \in Instances
    BY JobConstants
<1>2. run = [n \in Requests |-> Idle] /\ Idle \in [stage: RequestStages, at: Instances, step: [Parts -> Steps]]
    BY <1>1 DEF Init, Idle, Out, RequestStages, Steps
<1>3. TypeOK
    BY <1>2 DEF Init, Created, TypeOK, Marks
<1>4. \A n \in Requests : run[n].stage = "unborn" /\ \A p \in Parts : run[n].step[p] = "out"
    BY <1>2 DEF Idle, Out
<1> QED
    BY <1>3, <1>4 DEF Init, Created, JobInv, LandedOK, ChainOK, ServedOK, Ran

(* A mark on its way is a mark, and its request one of the requests.       *)
LEMMA MarkTypes ==
    ASSUME TypeOK, NEW m \in chain
    PROVE  /\ m.by \in Requests /\ m.of \in Parts /\ m.read \in [Parts -> Marks]
           /\ m.mark \in {"running", "done", "failed"} /\ m.at \in Instances
BY DEF TypeOK, PartMarks

(* What the table rows and the requests of a job are in every step.        *)
LEMMA JobType == TypeOK /\ [Next]_jobVars => TypeOK'
<1> SUFFICES ASSUME TypeOK, [Next]_jobVars PROVE TypeOK'
    OBVIOUS
<1> USE DEF TypeOK
<1> DEFINE Request == [stage: RequestStages, at: Instances, step: [Parts -> Steps]]
<1>1. \A n \in Requests : run[n] \in Request /\ Over(n) \in Request
    BY DEF Over, Out, RequestStages, Steps
<1>2. ASSUME NEW n \in Requests, NEW i \in Instances, Take(n, i) PROVE TypeOK'
    <2>1. [stage |-> "taken", at |-> i, step |-> [p \in Parts |-> IF part[p] = "done" THEN "out" ELSE "todo"]] \in Request
        BY DEF RequestStages, Steps
    <2> QED
        BY <1>2, <2>1 DEF Take
<1>3. ASSUME NEW n \in Requests, Start(n) PROVE TypeOK'
    <2>1. run' \in [Requests -> Request]
        BY <1>1, <1>3 DEF Start, RequestStages
    <2> QED
        BY <1>3, <2>1 DEF Start, Marks
<1>4. ASSUME NEW n \in Requests, Throw(n) PROVE TypeOK'
    BY <1>1, <1>4 DEF Throw, Marks
<1>5. ASSUME NEW n \in Requests, NEW p \in Parts, MarkRead(n, p) PROVE TypeOK'
    <2>1. run' \in [Requests -> Request]
        BY <1>1, <1>5 DEF MarkRead, ReadToMark, Steps
    <2>2. MarkFor(run[n].step[p]) \in {"running", "done", "failed"}
        BY <1>5 DEF MarkRead, ReadToMark, MarkFor
    <2>3. [at |-> run[n].at, by |-> n, of |-> p, mark |-> MarkFor(run[n].step[p]), read |-> part] \in PartMarks
        BY <1>1, <2>2 DEF PartMarks
    <2>4. chain' \subseteq PartMarks
        BY <1>5, <2>3 DEF MarkRead, ReadToMark
    <2> QED
        BY <1>5, <2>1, <2>4 DEF MarkRead, ReadToMark
<1>6. ASSUME NEW m \in chain, MarkWrite(m) PROVE TypeOK'
    <2>1. m.by \in Requests /\ m.of \in Parts /\ m.read \in [Parts -> Marks] /\ m.mark \in Marks
        BY MarkTypes DEF Marks
    <2>2. part' \in [Parts -> Marks] /\ status' \in Marks
        BY <1>6, <2>1 DEF MarkWrite, WriteMark, Derived, Marks
    <2>3. [run[m.by].step EXCEPT ![m.of] = IF m.mark = "running" THEN "writing" ELSE "over"] \in [Parts -> Steps]
        BY <1>1, <2>1 DEF Steps
    <2>4. run' \in [Requests -> Request]
        BY <1>1, <1>6, <2>1, <2>3 DEF MarkWrite, WriteMark
    <2> QED
        BY <1>6, <2>2, <2>4 DEF MarkWrite
<1>7. ASSUME NEW n \in Requests, NEW p \in Parts, Land(n, p) PROVE TypeOK'
    <2>1. run' \in [Requests -> Request]
        <3>1. PICK to \in {"stored", "failing"} : run' = [run EXCEPT ![n].step[p] = to]
            BY <1>7 DEF Land
        <3> QED
            BY <1>1, <3>1 DEF Steps
    <2> QED
        BY <1>7, <2>1 DEF Land
<1>8. ASSUME NEW n \in Requests, Die(n) PROVE TypeOK'
    BY <1>1, <1>8 DEF Die
<1>9. CASE UNCHANGED jobVars
    BY <1>9 DEF jobVars
<1> QED
    BY <1>2, <1>3, <1>4, <1>5, <1>6, <1>7, <1>8, <1>9 DEF Next, Work

(* One request changes: the others are what they were.                     *)
LEMMA TakeJob ==
    ASSUME JobInv, TypeOK', NEW n \in Requests, NEW i \in Instances, Take(n, i)
    PROVE  JobInv'
<1> USE DEF JobInv
<1> DEFINE taken == [p \in Parts |-> IF part[p] = "done" THEN "out" ELSE "todo"]
<1>1. /\ run[n].stage = "unborn" /\ run'[n].stage = "taken" /\ run'[n].at = i
      /\ \A p \in Parts : run'[n].step[p] = IF part[p] = "done" THEN "out" ELSE "todo"
      /\ \A k \in Requests \ {n} : run'[k] = run[k]
      /\ UNCHANGED <<part, status, chain, landed>>
    BY DEF Take, TypeOK
<1>2. \A m \in chain : m.by \in Requests /\ m.of \in Parts /\ m.by # n
    BY <1>1, MarkTypes DEF ChainOK
<1>3. LandedOK'
    BY <1>1 DEF LandedOK
<1>4. ChainOK'
    BY <1>1, <1>2 DEF ChainOK
<1>5. OnePlace' => OnePlace
    BY <1>1 DEF OnePlace, Ran
<1>6. \A p \in Parts : part'[p] = "done" \/ Busy(n, p)'
    BY <1>1 DEF Busy, Active
<1>7. ServedOK'
    BY <1>1, <1>5, <1>6 DEF ServedOK, PartOver
<1> QED
    BY <1>3, <1>4, <1>7

(* A request that starts sees to every part it took, or has none to see to *)
(* and ends.                                                               *)
LEMMA StartJob ==
    ASSUME JobInv, TypeOK', NEW n \in Requests, Start(n)
    PROVE  JobInv'
<1> USE DEF JobInv
<1>1. /\ run[n].stage = "taken" /\ run'[n].at = run[n].at /\ run'[n].step = run[n].step
      /\ run'[n].stage = IF run[n].step = Out THEN "ended" ELSE "working"
      /\ \A k \in Requests \ {n} : run'[k] = run[k]
      /\ status' = "running" /\ UNCHANGED <<part, chain, landed, cutOff>>
    BY DEF Start, TypeOK
<1>2. \A m \in chain : m.by \in Requests /\ m.of \in Parts /\ m.by # n
    BY <1>1, MarkTypes DEF ChainOK
<1>3. LandedOK'
    BY <1>1 DEF LandedOK
<1>4. ChainOK'
    BY <1>1, <1>2 DEF ChainOK
<1>5. Ran' = Ran /\ (OnePlace' => OnePlace)
    BY <1>1 DEF OnePlace, Ran
<1>6. \A p \in Parts, k \in Requests : Busy(k, p) => Busy(k, p)'
    BY <1>1 DEF Busy, Active, Out
<1>7. ServedOK'
    BY <1>1, <1>5, <1>6 DEF ServedOK, PartOver
<1> QED
    BY <1>3, <1>4, <1>7

(* A request that ends without its work done leaves its marks or takes     *)
(* them along.                                                             *)
LEMMA CutOffJob ==
    ASSUME JobInv, TypeOK', NEW n \in Requests, Throw(n) \/ Die(n)
    PROVE  JobInv'
<1> USE DEF JobInv
<1>1. /\ run[n].stage \in {"taken", "working"}
      /\ run'[n].stage = "ended" /\ run'[n].at = run[n].at /\ \A p \in Parts : run'[n].step[p] = "out"
      /\ \A k \in Requests \ {n} : run'[k] = run[k]
      /\ cutOff' = TRUE /\ UNCHANGED <<part, landed>> /\ status' \in {"failed", status}
    <2>1. run' = [run EXCEPT ![n] = Over(n)] /\ run[n] \in [stage: RequestStages, at: Instances, step: [Parts -> Steps]]
        BY DEF Throw, Die, TypeOK
    <2>2. Over(n).stage = "ended" /\ Over(n).at = run[n].at /\ Over(n).step = Out
        BY <2>1 DEF Over
    <2>3. run'[n] = Over(n) /\ \A k \in Requests \ {n} : run'[k] = run[k]
        BY <2>1 DEF TypeOK
    <2>4. \A p \in Parts : Out[p] = "out"
        BY DEF Out
    <2> QED
        BY <2>2, <2>3, <2>4 DEF Throw, Die
<1>2. chain' \subseteq chain /\ \A m \in chain' : m.by \in Requests /\ m.of \in Parts /\ m.by # n
    BY <1>1, MarkTypes DEF ChainOK, Throw, Die
<1>3. LandedOK'
    BY <1>1, <1>2 DEF LandedOK
<1>4. ChainOK'
    BY <1>1, <1>2 DEF ChainOK
<1>5. Ran' = Ran /\ (OnePlace' => OnePlace)
    BY <1>1 DEF OnePlace, Ran
<1>6. ServedOK'
    BY <1>1, <1>2, <1>5 DEF ServedOK
<1> QED
    BY <1>3, <1>4, <1>6

(* A mark that reads the row waits until no other of its process is on its *)
(* way, and holds the row as it is.                                        *)
LEMMA MarkReadJob ==
    ASSUME JobInv, TypeOK', NEW n \in Requests, NEW p \in Parts, MarkRead(n, p)
    PROVE  JobInv'
<1> USE DEF JobInv
<1>n. PICK new : new = [at |-> run[n].at, by |-> n, of |-> p, mark |-> MarkFor(run[n].step[p]), read |-> part]
    OBVIOUS
<1>1. /\ run[n].stage = "working" /\ run[n].step[p] \in {"todo", "stored", "failing"}
      /\ run'[n].stage = "working" /\ run'[n].at = run[n].at /\ run'[n].step[p] = "marking"
      /\ \A q \in Parts \ {p} : run'[n].step[q] = run[n].step[q]
      /\ \A k \in Requests \ {n} : run'[k] = run[k]
      /\ \A m \in chain : m.at # run[n].at
      /\ chain' = chain \cup {new} /\ UNCHANGED <<part, status, landed, cutOff>>
    BY <1>n DEF MarkRead, ReadToMark, TypeOK
<1>2. /\ new.at = run[n].at /\ new.by = n /\ new.of = p /\ new.read = part
      /\ new.mark = "done" => run[n].step[p] = "stored"
    BY <1>1, <1>n DEF MarkFor
<1>3. LandedOK'
    BY <1>1, <1>2 DEF LandedOK
<1>4. \A m \in chain : m.by \in Requests /\ m.of \in Parts /\ ~(m.by = n /\ m.of = p)
    BY <1>1, MarkTypes DEF ChainOK
<1>5. ChainOK'
    BY <1>1, <1>2, <1>4 DEF ChainOK
<1>6. Ran' = Ran /\ (OnePlace' => OnePlace)
    BY <1>1 DEF OnePlace, Ran
<1>7. \A q \in Parts, k \in Requests : Busy(k, q) => Busy(k, q)'
    BY <1>1 DEF Busy, Active
<1>8. ServedOK'
    BY <1>1, <1>2, <1>6, <1>7 DEF ServedOK, PartOver
<1> QED
    BY <1>3, <1>5, <1>8

(* A mark writes the row as it was read, with its own part replaced.       *)
LEMMA MarkWriteEffect ==
    ASSUME TypeOK, ChainOK, NEW m \in chain, MarkWrite(m)
    PROVE  /\ part'[m.of] = m.mark /\ \A q \in Parts \ {m.of} : part'[q] = m.read[q]
           /\ status' = Derived(part') /\ chain' = chain \ {m} /\ UNCHANGED <<landed, cutOff>>
           /\ \A k \in Requests \ {m.by} : run'[k] = run[k]
           /\ run'[m.by].at = run[m.by].at
           /\ \/ /\ run'[m.by].stage = "working"
                 /\ run'[m.by].step[m.of] = IF m.mark = "running" THEN "writing" ELSE "over"
                 /\ \A q \in Parts \ {m.of} : run'[m.by].step[q] = run[m.by].step[q]
              \/ /\ run'[m.by].stage = "ended" /\ \A q \in Parts : run'[m.by].step[q] = "out"
                 /\ m.mark # "running"
                 /\ \A q \in Parts \ {m.of} : run[m.by].step[q] \in {"out", "over"}
<1>1. /\ m.by \in Requests /\ m.of \in Parts /\ m.read \in [Parts -> Marks]
      /\ run[m.by].stage = "working" /\ run[m.by].step \in [Parts -> Steps]
      /\ run[m.by] \in [stage: RequestStages, at: Instances, step: [Parts -> Steps]]
    BY MarkTypes DEF TypeOK, ChainOK
<1>2. /\ part'[m.of] = m.mark /\ \A q \in Parts \ {m.of} : part'[q] = m.read[q]
      /\ status' = Derived(part') /\ chain' = chain \ {m} /\ UNCHANGED <<landed, cutOff>>
    BY <1>1 DEF MarkWrite, WriteMark
<1> DEFINE stepped == [run[m.by].step EXCEPT ![m.of] = IF m.mark = "running" THEN "writing" ELSE "over"]
<1>3. /\ stepped[m.of] = IF m.mark = "running" THEN "writing" ELSE "over"
      /\ \A q \in Parts \ {m.of} : stepped[q] = run[m.by].step[q]
    BY <1>1
<1>4. run' = [run EXCEPT ![m.by] = IF \A q \in Parts : stepped[q] \in {"out", "over"}
                                   THEN Over(m.by) ELSE [@ EXCEPT !.step = stepped]]
    BY DEF MarkWrite, WriteMark
<1> HIDE DEF stepped
<1>5. CASE \A q \in Parts : stepped[q] \in {"out", "over"}
    <2>1. run'[m.by] = Over(m.by) /\ \A k \in Requests \ {m.by} : run'[k] = run[k]
        BY <1>1, <1>4, <1>5 DEF TypeOK
    <2>2. run'[m.by].stage = "ended" /\ run'[m.by].at = run[m.by].at /\ \A q \in Parts : run'[m.by].step[q] = "out"
        BY <1>1, <2>1 DEF Over, Out
    <2> QED
        BY <1>1, <1>2, <1>3, <1>5, <2>1, <2>2
<1>6. CASE ~ \A q \in Parts : stepped[q] \in {"out", "over"}
    <2>1. run'[m.by] = [run[m.by] EXCEPT !.step = stepped] /\ \A k \in Requests \ {m.by} : run'[k] = run[k]
        BY <1>1, <1>4, <1>6 DEF TypeOK
    <2>2. run'[m.by].stage = "working" /\ run'[m.by].at = run[m.by].at /\ run'[m.by].step = stepped
        BY <1>1, <2>1
    <2> QED
        BY <1>1, <1>2, <1>3, <2>1, <2>2
<1> QED
    BY <1>5, <1>6

(* A mark that writes the row puts back what it read with its own part     *)
(* settled, all of which has landed.                                       *)
LEMMA MarkWriteJob ==
    ASSUME JobInv, TypeOK', NEW m \in chain, MarkWrite(m)
    PROVE  JobInv'
<1> USE DEF JobInv
<1>0. /\ m.by \in Requests /\ m.of \in Parts /\ m.mark \in {"running", "done", "failed"}
      /\ run[m.by].stage = "working" /\ run[m.by].step[m.of] = "marking"
    BY MarkTypes DEF ChainOK
<1>1. /\ part'[m.of] = m.mark /\ \A q \in Parts \ {m.of} : part'[q] = m.read[q]
      /\ status' = Derived(part') /\ chain' = chain \ {m} /\ UNCHANGED <<landed, cutOff>>
      /\ \A k \in Requests \ {m.by} : run'[k] = run[k]
      /\ run'[m.by].at = run[m.by].at
      /\ \/ /\ run'[m.by].stage = "working"
            /\ run'[m.by].step[m.of] = IF m.mark = "running" THEN "writing" ELSE "over"
            /\ \A q \in Parts \ {m.of} : run'[m.by].step[q] = run[m.by].step[q]
         \/ /\ run'[m.by].stage = "ended" /\ \A q \in Parts : run'[m.by].step[q] = "out"
            /\ m.mark # "running"
            /\ \A q \in Parts \ {m.of} : run[m.by].step[q] \in {"out", "over"}
    BY MarkWriteEffect
<1>2. LandedOK'
    <2>1. \A p \in Parts : part'[p] = "done" => p \in landed
        BY <1>0, <1>1 DEF LandedOK
    <2>2. \A n \in Requests, p \in Parts : run'[n].step[p] = "stored" => p \in landed
        BY <1>0, <1>1 DEF LandedOK
    <2>3. status' = "done" => \A p \in Parts : part'[p] = "done"
        BY <1>1 DEF Derived
    <2> QED
        BY <1>1, <2>1, <2>2, <2>3 DEF LandedOK
<1>3. \A k \in chain' : k \in chain /\ k.by \in Requests /\ k.of \in Parts /\ ~(k.by = m.by /\ k.of = m.of)
    BY <1>1, MarkTypes DEF ChainOK
<1>4. ChainOK'
    BY <1>1, <1>3 DEF ChainOK
<1>5. Ran' = Ran /\ (OnePlace' => OnePlace)
    BY <1>0, <1>1 DEF OnePlace, Ran
<1>6. ASSUME OnePlace PROVE chain' = {} /\ m.read = part
    <2>1. \A k \in chain : k.at = m.at
        BY <1>6, MarkTypes DEF ChainOK, OnePlace, Ran
    <2> QED
        BY <1>1, <1>6, <2>1 DEF ChainOK, ServedOK
<1>7. ASSUME OnePlace, NEW p \in Parts, PartOver(p) \/ \E k \in Requests : Busy(k, p)
      PROVE  PartOver(p)' \/ \E k \in Requests : Busy(k, p)'
    <2>1. CASE p = m.of
        BY <1>0, <1>1, <2>1 DEF PartOver, Busy, Active
    <2>2. CASE p # m.of
        <3>1. part'[p] = part[p]
            BY <1>1, <1>6, <1>7, <2>2
        <3>2. \A k \in Requests : Busy(k, p) => Busy(k, p)'
            BY <1>0, <1>1, <2>2 DEF Busy, Active
        <3> QED
            BY <1>7, <3>1, <3>2 DEF PartOver
    <2> QED
        BY <2>1, <2>2
<1>8. ServedOK'
    BY <1>1, <1>5, <1>6, <1>7 DEF ServedOK
<1> QED
    BY <1>2, <1>4, <1>8

(* A part whose scenarios are stored has landed.                           *)
LEMMA LandJob ==
    ASSUME JobInv, TypeOK', NEW n \in Requests, NEW p \in Parts, Land(n, p)
    PROVE  JobInv'
<1> USE DEF JobInv
<1>1. /\ run[n].stage = "working" /\ run[n].step[p] = "writing"
      /\ run'[n].stage = "working" /\ run'[n].at = run[n].at
      /\ run'[n].step[p] \in {"stored", "failing"}
      /\ run'[n].step[p] = "stored" => p \in landed'
      /\ \A q \in Parts \ {p} : run'[n].step[q] = run[n].step[q]
      /\ \A k \in Requests \ {n} : run'[k] = run[k]
      /\ landed \subseteq landed' /\ UNCHANGED <<part, status, chain, cutOff>>
    BY DEF Land, TypeOK
<1>2. LandedOK'
    BY <1>1 DEF LandedOK
<1>3. \A m \in chain : m.by \in Requests /\ m.of \in Parts /\ ~(m.by = n /\ m.of = p)
    BY <1>1, MarkTypes DEF ChainOK
<1>4. ChainOK'
    BY <1>1, <1>3 DEF ChainOK
<1>5. Ran' = Ran /\ (OnePlace' => OnePlace)
    BY <1>1 DEF OnePlace, Ran
<1>6. \A q \in Parts, k \in Requests : Busy(k, q) => Busy(k, q)'
    BY <1>1 DEF Busy, Active
<1>7. ServedOK'
    BY <1>1, <1>5, <1>6 DEF ServedOK, PartOver
<1> QED
    BY <1>2, <1>4, <1>7

(* Every step of the job keeps the invariant.                              *)
LEMMA StepJob == JobInv /\ [Next]_jobVars => JobInv'
<1> SUFFICES ASSUME JobInv, [Next]_jobVars PROVE JobInv'
    OBVIOUS
<1>1. TypeOK'
    BY JobType DEF JobInv
<1>2. CASE UNCHANGED jobVars
    BY <1>1, <1>2 DEF jobVars, JobInv, LandedOK, ChainOK, ServedOK, OnePlace, Ran, PartOver, Busy, Active
<1> QED
    BY <1>1, <1>2, TakeJob, StartJob, CutOffJob, MarkReadJob, MarkWriteJob, LandJob DEF Next, Work

(* The invariant the promises of the job rest on.                          *)
THEOREM JobInvariance == Spec => []JobInv
BY InitJob, StepJob, PTL DEF Spec

(* The row of a job keeps its type, its statuses are those its reader      *)
(* knows, and marks and requests are what they are.                        *)
THEOREM JobTypeCorrect == Spec => []TypeOK
<1>1. JobInv => TypeOK
    BY DEF JobInv
<1> QED
    BY <1>1, JobInvariance, PTL

(* A job reported done, which no request will run again, has cases of      *)
(* every part, however runs overlapped and wherever they were served.      *)
THEOREM Whole == Spec => []DoneIsWhole
<1>1. JobInv => DoneIsWhole
    BY DEF JobInv, LandedOK, DoneIsWhole
<1> QED
    BY <1>1, JobInvariance, PTL

(* server/store.ts:1018: served by one process, a job that was not cut off *)
(* is settled in every part: no mark overwrote another.                    *)
THEOREM Serialised == Spec => []NoMarkIsLost
<1>1. ASSUME JobInv PROVE NoMarkIsLost
    <2> SUFFICES ASSUME Ran # {}, Active = {}, ~cutOff, Cardinality({run[n].at : n \in Ran}) = 1
                 PROVE  \A p \in Parts : part[p] \in {"done", "failed"}
        BY DEF NoMarkIsLost
    <2> DEFINE places == {run[n].at : n \in Ran}
    <2>1. IsFiniteSet(Ran)
        <3>1. IsFiniteSet(Requests)
            BY JobConstants, FS_Interval DEF Requests
        <3> QED
            BY <3>1, FS_Subset DEF Ran
    <2>2. IsFiniteSet(places)
        <3>1. [n \in Ran |-> run[n].at] \in Surjection(Ran, places)
            BY DEF Surjection
        <3> QED
            BY <2>1, <3>1, FS_Surjection
    <2>3. PICK x : places = {x}
        BY <2>2, FS_Singleton
    <2>4. OnePlace
        BY <2>3 DEF OnePlace
    <2> QED
        BY <1>1, <2>4 DEF JobInv, ServedOK, Busy, PartOver
<1> QED
    BY <1>1, JobInvariance, PTL

-----------------------------------------------------------------------------
(* The page.                                                               *)

(* Whatever the page does, the job takes a step of ScenarioJob or none.    *)
LEMMA PageStepsTheJob == [ClientNext]_vars => [Next]_jobVars
BY DEF ClientNext, PageWaits, PageFindsDone, PageHears, PageSees, PageStopsWatching, PageRuns,
       PageLosesStream, PageRetries, OthersRun, Works, Throws, Dies, vars, Next

(* The page opens on a job nobody runs.                                    *)
LEMMA InitPage == ClientInit => PageInv
BY InitJob DEF ClientInit, PageInv, StreamOK, Pages, Writing, LandedIsWhole

(* What the stream is told of a request nobody ran beside: its marks are   *)
(* written over the row they read, so each part settles.                   *)
StreamHolds(n) ==
    /\ Active \subseteq {n}
    /\ \A m \in chain : m.read = part
    /\ \A p \in Parts : PartOver(p) \/ Busy(n, p)

(* A request taken up while nobody is at the job has every part that had   *)
(* not landed before it.                                                   *)
LEMMA TakeHolds ==
    ASSUME JobInv, NEW n \in Requests, NEW i \in Instances, Take(n, i), Active = {}
    PROVE  StreamHolds(n)'
<1> USE DEF JobInv
<1>1. /\ run'[n].stage = "taken"
      /\ \A p \in Parts : run'[n].step[p] = IF part[p] = "done" THEN "out" ELSE "todo"
      /\ \A k \in Requests \ {n} : run'[k] = run[k]
      /\ UNCHANGED <<part, status, chain, landed>>
    BY DEF Take, TypeOK
<1>2. chain = {}
    BY MarkTypes DEF ChainOK, Active
<1> QED
    BY <1>1, <1>2 DEF StreamHolds, Active, PartOver, Busy

(* The steps that finish nothing of it keep that so: nobody else is there  *)
(* to take one.                                                            *)
LEMMA WorkHolds ==
    ASSUME JobInv, NEW n \in Requests, StreamHolds(n), NEW k \in Requests, Work(k)
    PROVE  StreamHolds(n)'
<1> USE DEF JobInv
<1>0. run[k] \in [stage: RequestStages, at: Instances, step: [Parts -> Steps]]
    BY DEF TypeOK
<1>1. CASE Start(k)
    <2>1. /\ run[k].stage = "taken" /\ run'[k].step = run[k].step
          /\ run'[k].stage = IF run[k].step = Out THEN "ended" ELSE "working"
          /\ \A l \in Requests \ {k} : run'[l] = run[l]
          /\ UNCHANGED <<part, chain>>
        BY <1>1 DEF Start, TypeOK
    <2>2. Active' \subseteq {n}
        BY <2>1 DEF StreamHolds, Active
    <2>3. \A p \in Parts : Busy(n, p) => Busy(n, p)'
        BY <2>1 DEF Busy, Active, Out
    <2> QED
        BY <2>1, <2>2, <2>3 DEF StreamHolds, PartOver
<1>2. ASSUME NEW p \in Parts, MarkRead(k, p) PROVE StreamHolds(n)'
    <2>n. PICK new : new = [at |-> run[k].at, by |-> k, of |-> p, mark |-> MarkFor(run[k].step[p]), read |-> part]
        OBVIOUS
    <2>1. /\ run[k].stage = "working" /\ run'[k].stage = "working" /\ run'[k].step[p] = "marking"
          /\ \A q \in Parts \ {p} : run'[k].step[q] = run[k].step[q]
          /\ \A l \in Requests \ {k} : run'[l] = run[l]
          /\ chain' = chain \cup {new} /\ new.read = part /\ UNCHANGED part
        BY <1>2, <2>n DEF MarkRead, ReadToMark, TypeOK
    <2>2. Active' \subseteq {n}
        BY <2>1 DEF StreamHolds, Active
    <2>3. \A q \in Parts : Busy(n, q) => Busy(n, q)'
        BY <2>1 DEF Busy, Active
    <2> QED
        BY <2>1, <2>2, <2>3 DEF StreamHolds, PartOver
<1>3. ASSUME NEW p \in Parts, Land(k, p) PROVE StreamHolds(n)'
    <2>0. PICK to \in {"stored", "failing"} : run' = [run EXCEPT ![k].step[p] = to]
        BY <1>3 DEF Land
    <2>1. /\ run[k].stage = "working" /\ run'[k].stage = "working" /\ run'[k].step[p] = to
          /\ \A q \in Parts \ {p} : run'[k].step[q] = run[k].step[q]
          /\ \A l \in Requests \ {k} : run'[l] = run[l]
          /\ UNCHANGED <<part, chain>>
        BY <1>3, <2>0 DEF Land, TypeOK
    <2>2. Active' \subseteq {n}
        BY <2>1 DEF StreamHolds, Active
    <2>3. \A q \in Parts : Busy(n, q) => Busy(n, q)'
        BY <2>1 DEF Busy, Active
    <2> QED
        BY <2>1, <2>2, <2>3 DEF StreamHolds, PartOver
<1>4. ASSUME NEW m \in chain, m.by = k, MarkWrite(m) PROVE StreamHolds(n)'
    <2>0. /\ m.by \in Requests /\ m.of \in Parts /\ m.mark \in {"running", "done", "failed"}
          /\ run[m.by].stage = "working" /\ run[m.by].step[m.of] = "marking" /\ m.by = n /\ m.read = part
        BY MarkTypes DEF ChainOK, StreamHolds, Active
    <2>1. /\ part'[m.of] = m.mark /\ \A q \in Parts \ {m.of} : part'[q] = m.read[q]
          /\ chain' = chain \ {m}
          /\ \A l \in Requests \ {m.by} : run'[l] = run[l]
          /\ \/ /\ run'[m.by].stage = "working"
                /\ run'[m.by].step[m.of] = IF m.mark = "running" THEN "writing" ELSE "over"
                /\ \A q \in Parts \ {m.of} : run'[m.by].step[q] = run[m.by].step[q]
             \/ /\ run'[m.by].stage = "ended" /\ \A q \in Parts : run'[m.by].step[q] = "out"
                /\ m.mark # "running"
                /\ \A q \in Parts \ {m.of} : run[m.by].step[q] \in {"out", "over"}
        BY <1>4, MarkWriteEffect
    <2>2. chain' = {}
        <3>1. \A l \in chain : l.by = n /\ l.at = run[n].at
            BY MarkTypes DEF ChainOK, StreamHolds, Active
        <3> QED
            BY <2>1, <3>1 DEF ChainOK
    <2>3. Active' \subseteq {n}
        BY <2>0, <2>1 DEF StreamHolds, Active
    <2>4. ASSUME NEW p \in Parts PROVE PartOver(p)' \/ Busy(n, p)'
        <3>1. CASE p = m.of
            BY <2>0, <2>1, <3>1 DEF PartOver, Busy, Active
        <3>2. CASE p # m.of
            <4>1. part'[p] = part[p]
                BY <2>0, <2>1, <3>2
            <4>2. Busy(n, p) => Busy(n, p)'
                BY <2>0, <2>1, <3>2 DEF Busy, Active
            <4> QED
                BY <4>1, <4>2 DEF PartOver, StreamHolds
        <3> QED
            BY <3>1, <3>2
    <2> QED
        BY <2>2, <2>3, <2>4 DEF StreamHolds
<1> QED
    BY <1>1, <1>2, <1>3, <1>4 DEF Work

(* Another request that dies was not there.                                *)
LEMMA CutOffHolds ==
    ASSUME JobInv, NEW n \in Requests, StreamHolds(n), NEW k \in Requests, k # n, Throw(k) \/ Die(k)
    PROVE  FALSE
BY DEF Throw, Die, StreamHolds, Active

(* Every step of the page, and of the job behind it, keeps the invariant.  *)
LEMMA StepPage == PageInv /\ [ClientNext]_vars => PageInv'
<1> SUFFICES ASSUME PageInv, [ClientNext]_vars PROVE PageInv'
    OBVIOUS
<1> USE DEF PageInv
<1>1. JobInv /\ JobInv' /\ TypeOK /\ TypeOK'
    BY PageStepsTheJob, StepJob DEF JobInv
<1>2. /\ page \in Pages /\ mine \in Requests \cup {0}
      /\ page = "streaming" <=> mine # 0
      /\ page = "streaming" => mine \in Ran
      /\ page = "streaming" /\ alone => StreamHolds(mine)
      /\ LandedIsWhole
    BY DEF StreamOK, StreamHolds
<1>3. /\ landed \subseteq landed' /\ landed' \subseteq Parts
      /\ Ran \subseteq Ran'
    <2>1. [Next]_jobVars
        BY PageStepsTheJob
    <2>2. landed \subseteq landed' /\ landed' \subseteq Parts
        BY <1>1, <2>1 DEF Next, Work, Take, Start, Throw, Die, MarkRead, ReadToMark, MarkWrite, Land, jobVars, TypeOK
    <2>3. ASSUME NEW k \in Requests, run[k].stage # "unborn" PROVE run'[k].stage # "unborn"
        <3> DEFINE Request == [stage: RequestStages, at: Instances, step: [Parts -> Steps]]
        <3>1. \A n \in Requests : run[n] \in Request /\ Over(n).stage = "ended"
            BY <1>1 DEF TypeOK, Over
        <3>2. ASSUME NEW n \in Requests, NEW i \in Instances, Take(n, i) PROVE run'[k].stage # "unborn"
            BY <1>1, <2>3, <3>2 DEF Take, TypeOK
        <3>3. ASSUME NEW n \in Requests, Start(n) PROVE run'[k].stage # "unborn"
            BY <1>1, <2>3, <3>1, <3>3 DEF Start, TypeOK
        <3>4. ASSUME NEW n \in Requests, Throw(n) \/ Die(n) PROVE run'[k].stage # "unborn"
            BY <1>1, <2>3, <3>1, <3>4 DEF Throw, Die, TypeOK
        <3>5. ASSUME NEW n \in Requests, NEW p \in Parts, MarkRead(n, p) PROVE run'[k].stage # "unborn"
            BY <1>1, <2>3, <3>1, <3>5 DEF MarkRead, ReadToMark, TypeOK
        <3>6. ASSUME NEW m \in chain, MarkWrite(m) PROVE run'[k].stage # "unborn"
            BY <1>1, <2>3, <3>6, MarkWriteEffect, MarkTypes DEF JobInv
        <3>7. ASSUME NEW n \in Requests, NEW p \in Parts, Land(n, p) PROVE run'[k].stage # "unborn"
            BY <1>1, <2>3, <3>1, <3>7 DEF Land, TypeOK
        <3> QED
            BY <2>1, <2>3, <3>2, <3>3, <3>4, <3>5, <3>6, <3>7 DEF Next, Work, jobVars
    <2> QED
        BY <2>2, <2>3 DEF Ran
<1> DEFINE Good ==
      /\ page' \in Pages /\ mine' \in Requests \cup {0}
      /\ page' = "streaming" <=> mine' # 0
      /\ page' = "streaming" => mine' \in Ran'
      /\ page' = "streaming" /\ alone' => StreamHolds(mine)'
      /\ LandedIsWhole'
<1>4. SUFFICES Good
    BY <1>1 DEF StreamOK, StreamHolds
(* A step that leaves the page where it was.                               *)
<1>5. ASSUME UNCHANGED <<page, mine, told>>, alone' => alone,
             page = "streaming" /\ alone /\ alone' => StreamHolds(mine)'
      PROVE  Good
    BY <1>2, <1>3, <1>5 DEF LandedIsWhole, TypeOK, Ran
(* The page comes to tell what it has seen.                                *)
<1>6. ASSUME page' \in Pages \ {"streaming", "landed"}, mine' = 0
      PROVE  Good
    BY <1>6 DEF LandedIsWhole
<1>7. ASSUME Tells, mine' = 0, UNCHANGED jobVars,
             FailedParts = {} /\ alone /\ status # "failed" => \A p \in Parts : part[p] = "done"
      PROVE  Good
    <2>1. CASE FailedParts = {}
        <3>1. page' = "landed" /\ told' = (status = "failed") /\ alone' = alone
            BY <1>7, <2>1 DEF Tells
        <3>2. LandedIsWhole'
            BY <1>1, <1>3, <1>7, <2>1, <3>1 DEF LandedIsWhole, JobInv, LandedOK, jobVars
        <3> QED
            BY <1>7, <3>1, <3>2 DEF Pages
    <2>2. CASE FailedParts # {}
        BY <1>6, <1>7, <2>2 DEF Tells, Pages
    <2> QED
        BY <2>1, <2>2
<1>8. CASE UNCHANGED vars
    BY <1>2, <1>5, <1>8 DEF vars, jobVars, pageVars, StreamHolds, Active, PartOver, Busy
<1>9. ASSUME NEW n \in Requests, NEW i \in Instances, PageRuns(n, i) PROVE Good
    <2>1. Take(n, i) /\ page' = "streaming" /\ mine' = n /\ alone' = (Active = {})
        BY <1>9 DEF PageRuns
    <2>2. n # 0 /\ run'[n].stage = "taken"
        BY <1>1, <2>1 DEF Requests, Take, TypeOK
    <2>3. alone' => StreamHolds(mine)'
        BY <1>1, <2>1, TakeHolds DEF StreamHolds, Busy
    <2> QED
        BY <2>1, <2>2, <2>3 DEF Pages, Writing, Ran, LandedIsWhole
<1>10. CASE PageFindsDone
    <2>1. mine = 0
        BY <1>2, <1>10 DEF PageFindsDone
    <2> QED
        BY <1>6, <1>10, <2>1 DEF PageFindsDone, Pages, Writing
<1>11. CASE PageHears
    <2>1. ASSUME FailedParts = {}, alone, NEW p \in Parts PROVE part[p] = "done"
        <3>1. StreamHolds(mine) /\ run[mine].stage = "ended"
            BY <1>2, <1>11, <2>1 DEF PageHears
        <3>2. PartOver(p)
            BY <3>1 DEF StreamHolds, Busy, Active
        <3> QED
            BY <2>1, <3>2 DEF PartOver, FailedParts
    <2> QED
        BY <1>7, <1>11, <2>1 DEF PageHears
<1>12. CASE PageSees
    <2>1. status # "failed" => \A p \in Parts : part[p] = "done"
        BY <1>1, <1>12 DEF PageSees, ReadStatus, JobInv, LandedOK, TypeOK
    <2> QED
        BY <1>7, <1>12, <2>1 DEF PageSees
<1>13. CASE PageStopsWatching
    BY <1>2, <1>6, <1>13 DEF PageStopsWatching, Pages
<1>14. CASE PageLosesStream
    BY <1>6, <1>14 DEF PageLosesStream, Pages, Writing
<1>15. CASE PageRetries
    BY <1>2, <1>6, <1>15 DEF PageRetries, Pages, Writing
<1>16. ASSUME NEW n \in Requests, NEW i \in Instances, OthersRun(n, i) PROVE Good
    <2>1. UNCHANGED <<page, mine, told>> /\ alone' = (alone /\ page \notin {"streaming", "watching"})
        BY <1>16 DEF OthersRun
    <2> QED
        BY <1>5, <2>1
<1>17. ASSUME NEW n \in Requests, Works(n) PROVE Good
    <2>1. UNCHANGED <<page, mine, told, alone>> /\ Work(n)
        BY <1>17 DEF Works, pageVars
    <2>2. page = "streaming" /\ alone => StreamHolds(mine)'
        <3>1. SUFFICES ASSUME page = "streaming", alone PROVE StreamHolds(mine)'
            OBVIOUS
        <3>2. PICK k \in Requests : k = mine
            BY <1>2, <3>1
        <3>3. StreamHolds(k)
            BY <1>2, <3>1, <3>2
        <3>4. StreamHolds(k)'
            BY <1>1, <2>1, <3>3, WorkHolds
        <3> QED
            BY <2>1, <3>2, <3>4 DEF StreamHolds, Busy
    <2> QED
        BY <1>5, <2>1, <2>2
<1>18. ASSUME NEW n \in Requests, Throws(n) PROVE Good
    <2>1. CASE n = mine
        BY <1>6, <1>18, <2>1 DEF Throws, Pages, Writing
    <2>2. CASE n # mine
        <3>1. UNCHANGED <<page, mine, told>> /\ Throw(n) /\ alone' = (alone \/ page' = "short")
            BY <1>18, <2>2 DEF Throws
        <3>2. ~(page = "streaming" /\ alone)
            BY <1>1, <1>2, <2>2, <3>1, CutOffHolds
        <3>3. CASE page = "short"
            BY <1>2, <1>6, <3>1, <3>3 DEF Pages
        <3>4. CASE page # "short"
            BY <1>5, <3>1, <3>2, <3>4
        <3> QED
            BY <3>3, <3>4
    <2> QED
        BY <2>1, <2>2
<1>19. ASSUME NEW n \in Requests, Dies(n) PROVE Good
    <2>1. CASE n = mine
        BY <1>6, <1>19, <2>1 DEF Dies, Pages, Writing
    <2>2. CASE n # mine
        <3>1. UNCHANGED <<page, mine, told, alone>> /\ Die(n)
            BY <1>19, <2>2 DEF Dies
        <3>2. ~(page = "streaming" /\ alone)
            BY <1>1, <1>2, <2>2, <3>1, CutOffHolds
        <3> QED
            BY <1>5, <3>1, <3>2
    <2> QED
        BY <2>1, <2>2
<1> QED
    BY <1>8, <1>9, <1>10, <1>11, <1>12, <1>13, <1>14, <1>15, <1>16, <1>17, <1>18, <1>19 DEF ClientNext, PageWaits

(* The job behind the page is the job of ScenarioJob.                      *)
THEOREM RunsTheJob == ClientSpec => Spec
<1>1. ClientInit => Init
    BY DEF ClientInit
<1> QED
    BY <1>1, PageStepsTheJob, PTL DEF ClientSpec, Spec

(* web/src/pages/Project.tsx:1409: with nobody else at the job and no      *)
(* failure before its first part, the page lets the person go with no part *)
(* to name only when every part has landed.                                *)
THEOREM Landed == ClientSpec => []LandedIsWhole
<1>1. PageInv => LandedIsWhole
    BY DEF PageInv, StreamOK
<1> QED
    BY <1>1, InitPage, StepPage, PTL DEF ClientSpec

(* What the job promises it promises behind the page too.                  *)
THEOREM JobBehindThePage == ClientSpec => [](DoneIsWhole /\ NoMarkIsLost)
BY RunsTheJob, Whole, Serialised, PTL
=============================================================================
