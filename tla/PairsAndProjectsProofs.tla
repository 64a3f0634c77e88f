------------------------ MODULE PairsAndProjectsProofs ----------------------
(***************************************************************************)
(* What a preference pair promises for any seats, weights, gradings and    *)
(* bounds; and what projects promise to whoever opens them, for any        *)
(* people, projects, sizes of what is seeded, keys and requests.           *)
(***************************************************************************)
EXTENDS PreferencePairs, Projects, SumLemmas, SequenceTheorems

-----------------------------------------------------------------------------
(* A PREFERENCE PAIR.                                                      *)

(* A request that is over holds nothing, and none comes before the pair;   *)
(* an answer is only heard of a seat of the project while the pair is      *)
(* there.                                                                  *)
HeardOK ==
    /\ \A g \in Gradings : ~grading[g].on => \A s \in Seats : grading[g].at[s] = "none"
    /\ pair = "unmade" => UnderWay = {}
    /\ \A so \in heard : pair = "there" /\ so[1] \in seated
    /\ AnswersAreKept

(* What s said in order o is on record, under version v.                   *)
Said(s, o, v) == vote[s][o] # NoVote /\ vote[s][o].version = v

(* A grading that was alone so far is the only one under way, and what it  *)
(* has heard is on record under its version, in the orders it is past.     *)
LoneOK(g) ==
    /\ UnderWay = {g}
    /\ pair = "there" => \A s \in seated :
         /\ grading[g].at[s] # "none"
         /\ grading[g].at[s] \in {"ask ba", "put ba", "over"} => Said(s, "ab", grading[g].version)
         /\ grading[g].at[s] = "over" => Said(s, "ba", grading[g].version)

AloneOK == \A g \in UnderWay : grading[g].alone => LoneOK(g)

WholeOK == (UnderWay # {} => whole = 0) /\ WholeGradingIsOneVersion

PairInv == PairsTypeOK /\ HeardOK /\ AloneOK /\ WholeOK
-----------------------------------------------------------------------------
(* What a step of request g for seat s makes of the requests: the seat is  *)
(* at another stage, and nothing else of them changes but, at most, that   *)
(* one is not alone any more.                                              *)
Moved(g, s, stage) ==
    \A h \in Gradings :
        /\ grading'[h].on = grading[h].on /\ grading'[h].version = grading[h].version
        /\ grading'[h].alone => grading[h].alone
        /\ \A t \in Seats : grading'[h].at[t] = IF h = g /\ t = s THEN stage ELSE grading[h].at[t]

(* A step that sets a seat's stage and its answer moves its request.       *)
LEMMA SettingMoves ==
    ASSUME PairConstants, PairsTypeOK, NEW g \in Gradings, NEW s \in Seats, NEW stage, NEW answer,
           grading' = [grading EXCEPT ![g].at[s] = stage, ![g].said[s] = answer]
    PROVE  Moved(g, s, stage)
<1>1. \A h \in Gradings : h # g => grading'[h] = grading[h]
  BY DEF PairsTypeOK
<1>2. /\ grading'[g].on = grading[g].on /\ grading'[g].version = grading[g].version
      /\ grading'[g].alone = grading[g].alone
      /\ grading'[g].at = [grading[g].at EXCEPT ![s] = stage]
  BY DEF PairsTypeOK
<1>3. \A t \in Seats : grading'[g].at[t] = IF t = s THEN stage ELSE grading[g].at[t]
  <2>1. grading[g].at \in [Seats -> Stages]
    BY DEF PairsTypeOK
  <2> QED
    BY <1>2, <2>1
<1>4. ASSUME NEW h \in Gradings
      PROVE  /\ grading'[h].on = grading[h].on /\ grading'[h].version = grading[h].version
             /\ grading'[h].alone => grading[h].alone
             /\ \A t \in Seats : grading'[h].at[t] = IF h = g /\ t = s THEN stage ELSE grading[h].at[t]
  <2>1. CASE h = g
    BY <2>1, <1>2, <1>3
  <2>2. CASE h # g
    <3>1. grading'[h] = grading[h] /\ ~(h = g)
      BY <2>2, <1>1
    <3>2. \A t \in Seats : grading'[h].at[t] = IF h = g /\ t = s THEN stage ELSE grading[h].at[t]
      BY <3>1
    <3> QED
      BY <3>1, <3>2
  <2> QED
    BY <2>1, <2>2
<1> QED
  BY <1>4 DEF Moved

(* A seat that is given up is over, and its request was not alone.         *)
LEMMA GivesUpMoves ==
    ASSUME PairConstants, PairsTypeOK, NEW g \in Gradings, NEW s \in Seats, GivesUp(g, s)
    PROVE  Moved(g, s, "over") /\ ~grading'[g].alone
<1>1. \A h \in Gradings : h # g => grading'[h] = grading[h]
  BY DEF PairsTypeOK, GivesUp
<1>2. /\ grading'[g].on = grading[g].on /\ grading'[g].version = grading[g].version
      /\ grading'[g].alone = FALSE
      /\ grading'[g].at = [grading[g].at EXCEPT ![s] = "over"]
  BY DEF PairsTypeOK, GivesUp
<1>3. \A t \in Seats : grading'[g].at[t] = IF t = s THEN "over" ELSE grading[g].at[t]
  <2>1. grading[g].at \in [Seats -> Stages]
    BY DEF PairsTypeOK
  <2> QED
    BY <1>2, <2>1
<1>4. ASSUME NEW h \in Gradings
      PROVE  /\ grading'[h].on = grading[h].on /\ grading'[h].version = grading[h].version
             /\ grading'[h].alone => grading[h].alone
             /\ \A t \in Seats : grading'[h].at[t] = IF h = g /\ t = s THEN "over" ELSE grading[h].at[t]
  <2>1. CASE h = g
    BY <2>1, <1>2, <1>3
  <2>2. CASE h # g
    BY <2>2, <1>1
  <2> QED
    BY <2>1, <2>2
<1> QED
  BY <1>4, <1>2 DEF Moved

(* A seat that answers is about to have its answer inserted.               *)
LEMMA AsksMoves ==
    ASSUME PairConstants, PairsTypeOK, NEW g \in Gradings, NEW s \in Seats, NEW o \in Orders, Asks(g, s, o)
    PROVE  Moved(g, s, Put[o])
  BY SettingMoves DEF Asks

(* The stages between.                                                     *)
LEMMA Stations ==
    /\ Put["ab"] = "put ab" /\ Put["ba"] = "put ba" /\ After["ab"] = "ask ba" /\ After["ba"] = "over"
    /\ \A o \in Orders : Put[o] \in Stages /\ Put[o] \in {"put ab", "put ba"}
    /\ \A o \in Orders : After[o] \in Stages /\ After[o] \notin {"put ab", "put ba"}
<1>1. Put.ab = "put ab" /\ Put.ba = "put ba" /\ After.ab = "ask ba" /\ After.ba = "over"
  BY DEF Put, After
<1> QED
  BY <1>1 DEF Orders, Stages

(* Whoever asks or inserts is under way.                                   *)
LEMMA WorkerIsOn ==
    ASSUME HeardOK, NEW g \in Gradings, NEW s \in Seats, NEW o \in Orders,
           AsksNow(g, s, o) \/ grading[g].at[s] = Put[o]
    PROVE  grading[g].on
<1>1. grading[g].at[s] # "none"
  BY Stations DEF AsksNow
<1> QED
  BY <1>1 DEF HeardOK

(* The requests under way stay the same when one moves.                    *)
LEMMA MovedUnderWay ==
    ASSUME NEW g \in Gradings, NEW s \in Seats, NEW stage, Moved(g, s, stage)
    PROVE  UnderWay' = UnderWay
  BY DEF Moved, UnderWay

(* What an empty set of requests says.                                     *)
LEMMA NoneUnderWay ==
    UnderWay = {} <=> \A g \in Gradings : ~grading[g].on
  BY DEF UnderWay

-----------------------------------------------------------------------------
(* The first state has nothing to keep.                                    *)
LEMMA InitPairs == ASSUME PairConstants, Init PROVE PairInv
<1> USE DEF Init, NoGrading
<1>1. PairsTypeOK
  <2>1. 1 \in 1..MaxVersion /\ 0 \in 0..MaxVersion /\ 0 \in 0..MaxGradings /\ 0 \in 0..MaxFaults
    BY DEF PairConstants
  <2>2. vote \in [Seats -> [Orders -> Vote]]
    BY DEF Vote
  <2>3. grading \in [Gradings -> [on : BOOLEAN, version : 1..MaxVersion, alone : BOOLEAN,
                                  at : [Seats -> Stages], said : [Seats -> PairChoices \cup {None}]]]
    BY <2>1 DEF Stages
  <2>4. \A g \in Gradings, s \in Seats :
          grading[g].said[s] # None <=> grading[g].at[s] \in {"put ab", "put ba"}
    OBVIOUS
  <2> QED
    BY <2>1, <2>2, <2>3, <2>4 DEF PairsTypeOK
<1>2. UnderWay = {}
  BY DEF UnderWay
<1>3. HeardOK
  BY <1>2 DEF HeardOK, AnswersAreKept
<1>4. AloneOK /\ WholeOK
  BY <1>2 DEF AloneOK, WholeOK, WholeGradingIsOneVersion
<1> QED
  BY <1>1, <1>3, <1>4 DEF PairInv

(* Every step keeps the types.                                             *)
LEMMA TypeStep ==
    ASSUME PairConstants, PairsTypeOK, [Next]_vars
    PROVE  PairsTypeOK'
<1> DEFINE Grading == [on : BOOLEAN, version : 1..MaxVersion, alone : BOOLEAN,
                       at : [Seats -> Stages], said : [Seats -> PairChoices \cup {None}]]
           Paired(h) == \A s \in Seats : h.said[s] # None <=> h.at[s] \in {"put ab", "put ba"}
<1> USE DEF PairConstants
<1>0. NoGrading \in Grading /\ Paired(NoGrading) /\ NoVote \in Vote
  BY DEF NoGrading, Stages, Vote
<1>a. grading \in [Gradings -> Grading] /\ \A g \in Gradings : Paired(grading[g])
  BY DEF PairsTypeOK
<1>c. ASSUME NEW g \in Gradings, NEW s \in Seats, NEW stage \in Stages, NEW answer \in PairChoices \cup {None},
             NEW alone \in BOOLEAN, answer # None <=> stage \in {"put ab", "put ba"},
             grading' = [grading EXCEPT ![g].at[s] = stage, ![g].said[s] = answer, ![g].alone = alone]
      PROVE  grading' \in [Gradings -> Grading] /\ \A h \in Gradings : Paired(grading'[h])
  <2>1. PICK h \in Grading : h = [grading[g] EXCEPT !.at[s] = stage, !.said[s] = answer, !.alone = alone]
    BY <1>a, <1>c
  <2>2. grading' = [grading EXCEPT ![g] = h]
    BY <1>a, <1>c, <2>1
  <2>3. h.at = [grading[g].at EXCEPT ![s] = stage] /\ h.said = [grading[g].said EXCEPT ![s] = answer]
    BY <1>a, <2>1
  <2>4. ASSUME NEW t \in Seats PROVE h.said[t] # None <=> h.at[t] \in {"put ab", "put ba"}
    <3>1. CASE t = s
      BY <1>a, <1>c, <2>3, <3>1
    <3>2. CASE t # s
      <4>1. h.said[t] = grading[g].said[t] /\ h.at[t] = grading[g].at[t]
        BY <1>a, <2>3, <3>2
      <4>2. Paired(grading[g])
        BY <1>a
      <4> QED
        BY <4>1, <4>2
    <3> QED
      BY <3>1, <3>2
  <2> QED
    BY <1>a, <2>1, <2>2, <2>4
<1>d. PairsTypeOK' <=>
        /\ pair' \in {"unmade", "there", "gone"}
        /\ seated' \subseteq Seats /\ standing' \in 1..MaxVersion
        /\ vote' \in [Seats -> [Orders -> Vote]]
        /\ marked' \in 0..MaxVersion /\ whole' \in 0..MaxVersion
        /\ grading' \in [Gradings -> Grading] /\ \A g \in Gradings : Paired(grading'[g])
        /\ heard' \subseteq Seats \X Orders
        /\ gradings' \in 0..MaxGradings /\ faults' \in 0..MaxFaults
  BY DEF PairsTypeOK
<1>e. /\ pair \in {"unmade", "there", "gone"}
      /\ seated \subseteq Seats /\ standing \in 1..MaxVersion
      /\ vote \in [Seats -> [Orders -> Vote]]
      /\ marked \in 0..MaxVersion /\ whole \in 0..MaxVersion
      /\ heard \subseteq Seats \X Orders
      /\ gradings \in 0..MaxGradings /\ faults \in 0..MaxFaults
  BY DEF PairsTypeOK
<1>f. \A n : n \in 1..MaxVersion => n \in 0..MaxVersion
  OBVIOUS
<1>g. faults < MaxFaults => faults + 1 \in 0..MaxFaults
  BY <1>e
<1>h. \A s \in Seats, o \in Orders : [vote EXCEPT ![s][o] = NoVote] \in [Seats -> [Orders -> Vote]]
  BY <1>0, <1>e
<1>i. ASSUME NEW g \in Gradings, NEW s \in Seats, GivesUp(g, s)
      PROVE  grading' \in [Gradings -> Grading] /\ \A h \in Gradings : Paired(grading'[h])
  BY <1>c, <1>i DEF GivesUp, Stages
<1> HIDE DEF Grading, Paired
<1>1. ASSUME NEW g \in Gradings, Begin(g) PROVE PairsTypeOK'
  <2> DEFINE new == [on |-> TRUE, version |-> standing, alone |-> UnderWay = {},
                     at |-> [s \in Seats |-> IF s \in seated THEN "ask ab" ELSE "none"],
                     said |-> [s \in Seats |-> None]]
  <2>1. new \in Grading /\ Paired(new)
    BY <1>e DEF Grading, Paired, Stages
  <2>2. ASSUME NEW h \in Gradings
        PROVE  LET old == [grading[h] EXCEPT !.alone = @ /\ ~grading[h].on] IN old \in Grading /\ Paired(old)
    BY <1>a DEF Grading, Paired
  <2>3. grading' \in [Gradings -> Grading] /\ \A h \in Gradings : Paired(grading'[h])
    BY <1>1, <2>1, <2>2 DEF Begin
  <2>4. gradings' \in 0..MaxGradings /\ 0 \in 0..MaxVersion
    <3>1. gradings < MaxGradings /\ gradings' = gradings + 1
      BY <1>1 DEF Begin
    <3> QED
      BY <3>1, <1>e
  <2> QED
    BY <1>1, <1>d, <1>e, <2>3, <2>4 DEF Begin
<1>2. ASSUME NEW g \in Gradings, Finish(g) PROVE PairsTypeOK'
  <2>1. grading' \in [Gradings -> Grading] /\ \A h \in Gradings : Paired(grading'[h])
    BY <1>2, <1>0, <1>a DEF Finish
  <2>2. grading[g].version \in 1..MaxVersion
    BY <1>a DEF Grading
  <2>3. marked' \in 0..MaxVersion /\ whole' \in 0..MaxVersion
    BY <1>2, <1>e, <1>f, <2>2 DEF Finish
  <2> QED
    BY <1>2, <1>d, <1>e, <2>1, <2>3 DEF Finish
<1>3. ASSUME NEW g \in Gradings, NEW s \in Seats, NEW o \in Orders, Asks(g, s, o) PROVE PairsTypeOK'
  <2>1. PICK c \in PairChoices : grading' = [grading EXCEPT ![g].at[s] = Put[o], ![g].said[s] = c]
    BY <1>3 DEF Asks
  <2>2. grading[g].alone \in BOOLEAN
    BY <1>a DEF Grading
  <2>3. grading' = [grading EXCEPT ![g].at[s] = Put[o], ![g].said[s] = c, ![g].alone = grading[g].alone]
    BY <2>1, <1>a DEF Grading
  <2>4. grading' \in [Gradings -> Grading] /\ \A h \in Gradings : Paired(grading'[h])
    BY <1>c, <2>2, <2>3, Stations
  <2> QED
    BY <1>3, <1>d, <1>e, <1>h, <2>4 DEF Asks
<1>4. ASSUME NEW g \in Gradings, NEW s \in Seats, NEW o \in Orders, AskFails(g, s, o) PROVE PairsTypeOK'
  <2>1. grading' \in [Gradings -> Grading] /\ \A h \in Gradings : Paired(grading'[h])
    BY <1>4, <1>i DEF AskFails
  <2> QED
    BY <1>4, <1>d, <1>e, <1>g, <2>1 DEF AskFails
<1>5. ASSUME NEW g \in Gradings, NEW s \in Seats, NEW o \in Orders, Inserts(g, s, o) PROVE PairsTypeOK'
  <2>1. CASE pair = "there" /\ s \in seated /\ vote[s][o] = NoVote
    <3>1. grading[g].alone \in BOOLEAN /\ grading[g].version \in 1..MaxVersion
      BY <1>a DEF Grading
    <3>2. grading' = [grading EXCEPT ![g].at[s] = After[o], ![g].said[s] = None]
      BY <1>5, <2>1 DEF Inserts
    <3>3. grading' = [grading EXCEPT ![g].at[s] = After[o], ![g].said[s] = None, ![g].alone = grading[g].alone]
      BY <3>2, <1>a DEF Grading
    <3>4. grading' \in [Gradings -> Grading] /\ \A h \in Gradings : Paired(grading'[h])
      BY <1>c, <3>1, <3>3, Stations
    <3>5. grading[g].said[s] \in PairChoices
      <4>1. grading[g].at[s] \in {"put ab", "put ba"}
        BY <1>5, Stations DEF Inserts
      <4>2. grading[g].said[s] # None
        BY <4>1, <1>a DEF Paired
      <4>3. grading[g].said[s] \in PairChoices \cup {None}
        BY <1>a DEF Grading
      <4> QED
        BY <4>2, <4>3
    <3>6. [choice |-> grading[g].said[s], version |-> grading[g].version] \in Vote
      BY <3>1, <3>5 DEF Vote
    <3>7. vote' \in [Seats -> [Orders -> Vote]] /\ heard' \subseteq Seats \X Orders
      BY <1>5, <2>1, <1>e, <3>6 DEF Inserts
    <3> QED
      BY <1>5, <1>d, <1>e, <3>4, <3>7 DEF Inserts
  <2>2. CASE ~(pair = "there" /\ s \in seated /\ vote[s][o] = NoVote)
    <3>1. GivesUp(g, s) /\ UNCHANGED <<vote, heard>>
      BY <1>5, <2>2 DEF Inserts
    <3>2. grading' \in [Gradings -> Grading] /\ \A h \in Gradings : Paired(grading'[h])
      BY <1>i, <3>1
    <3> QED
      BY <1>5, <1>d, <1>e, <3>1, <3>2 DEF Inserts
  <2> QED
    BY <2>1, <2>2
<1>6. ASSUME Create PROVE PairsTypeOK'
  BY <1>6, <1>a, <1>d, <1>e DEF Create
<1>7. ASSUME Delete PROVE PairsTypeOK'
  <2>1. vote' \in [Seats -> [Orders -> Vote]] /\ 0 \in 0..MaxVersion
    BY <1>7, <1>0 DEF Delete
  <2> QED
    BY <1>7, <1>a, <1>d, <1>e, <1>g, <2>1 DEF Delete
<1>8. ASSUME Crash PROVE PairsTypeOK'
  BY <1>8, <1>0, <1>d, <1>e, <1>g DEF Crash
<1>9. ASSUME NewStandard PROVE PairsTypeOK'
  BY <1>9, <1>a, <1>d, <1>e DEF NewStandard
<1>10. ASSUME NEW s \in Seats, DeleteSeat(s) PROVE PairsTypeOK'
  <2>1. vote' \in [Seats -> [Orders -> Vote]]
    BY <1>10, <1>0, <1>e DEF DeleteSeat
  <2> QED
    BY <1>10, <1>a, <1>d, <1>e, <1>g, <2>1 DEF DeleteSeat
<1>11. ASSUME UNCHANGED vars PROVE PairsTypeOK'
  BY <1>11, <1>a, <1>d, <1>e DEF vars
<1> QED
  BY <1>1, <1>2, <1>3, <1>4, <1>5, <1>6, <1>7, <1>8, <1>9, <1>10, <1>11 DEF Next

-----------------------------------------------------------------------------
(* What the requests and the answers on record promise, kept by each step. *)

(* A step in which a seat moves on leaves requests that are over empty.    *)
LEMMA HeardMoved ==
    ASSUME HeardOK, NEW g \in Gradings, NEW s \in Seats, NEW stage,
           Moved(g, s, stage), grading[g].on
    PROVE  /\ \A h \in Gradings : ~grading'[h].on => \A t \in Seats : grading'[h].at[t] = "none"
           /\ UnderWay' = UnderWay
<1>1. ASSUME NEW h \in Gradings, ~grading'[h].on PROVE \A t \in Seats : grading'[h].at[t] = "none"
  <2>1. h # g /\ ~grading[h].on
    BY <1>1 DEF Moved
  <2> QED
    BY <2>1 DEF Moved, HeardOK
<1> QED
  BY <1>1, MovedUnderWay

(* A seat that answers is being replaced where it had an answer.           *)
LEMMA HeardAsks ==
    ASSUME PairConstants, PairsTypeOK, HeardOK, NEW g \in Gradings, NEW s \in Seats, NEW o \in Orders,
           Asks(g, s, o)
    PROVE  HeardOK'
<1>1. Moved(g, s, Put[o]) /\ grading[g].on
  BY AsksMoves, WorkerIsOn DEF Asks
<1>2. heard' = heard /\ pair' = pair /\ seated' = seated /\ vote' = [vote EXCEPT ![s][o] = NoVote]
  BY DEF Asks
<1>3. ASSUME NEW so \in heard
      PROVE  \/ vote'[so[1]][so[2]] # NoVote
             \/ \E h \in Gradings : grading'[h].at[so[1]] = Put[so[2]]
  <2>0. so[1] \in Seats /\ so[2] \in Orders
    BY DEF PairsTypeOK
  <2>1. CASE so[1] = s /\ so[2] = o
    BY <2>1, <1>1 DEF Moved
  <2>2. CASE ~(so[1] = s /\ so[2] = o)
    <3>1. vote'[so[1]][so[2]] = vote[so[1]][so[2]]
      BY <2>0, <2>2, <1>2 DEF PairsTypeOK
    <3>2. ASSUME NEW h \in Gradings, grading[h].at[so[1]] = Put[so[2]]
          PROVE  grading'[h].at[so[1]] = Put[so[2]]
      <4>1. ~(h = g /\ so[1] = s)
        BY <3>2, <2>0, Stations DEF Asks, AsksNow
      <4> QED
        BY <4>1, <3>2, <2>0, <1>1 DEF Moved
    <3> QED
      BY <3>1, <3>2 DEF HeardOK, AnswersAreKept
  <2> QED
    BY <2>1, <2>2
<1>4. AnswersAreKept'
  BY <1>2, <1>3 DEF AnswersAreKept
<1> QED
  BY <1>1, <1>2, <1>4, HeardMoved DEF HeardOK

(* A call that fails takes no answer away.                                 *)
LEMMA HeardAskFails ==
    ASSUME PairConstants, PairsTypeOK, HeardOK, NEW g \in Gradings, NEW s \in Seats, NEW o \in Orders,
           AskFails(g, s, o)
    PROVE  HeardOK'
<1>1. Moved(g, s, "over") /\ grading[g].on
  BY GivesUpMoves, WorkerIsOn DEF AskFails
<1>2. heard' = heard /\ pair' = pair /\ seated' = seated /\ vote' = vote
  BY DEF AskFails
<1>3. ASSUME NEW so \in heard, NEW h \in Gradings, grading[h].at[so[1]] = Put[so[2]]
      PROVE  grading'[h].at[so[1]] = Put[so[2]]
  <2>1. so[1] \in Seats /\ so[2] \in Orders
    BY DEF PairsTypeOK
  <2>2. ~(h = g /\ so[1] = s)
    BY <1>3, <2>1, Stations DEF AskFails, AsksNow
  <2> QED
    BY <2>1, <2>2, <1>1, <1>3 DEF Moved
<1>4. AnswersAreKept'
  BY <1>2, <1>3 DEF HeardOK, AnswersAreKept
<1> QED
  BY <1>1, <1>2, <1>4, HeardMoved DEF HeardOK

(* An answer is inserted, or there was one, or its seat or pair is gone.   *)
LEMMA HeardInserts ==
    ASSUME PairConstants, PairsTypeOK, HeardOK, NEW g \in Gradings, NEW s \in Seats, NEW o \in Orders,
           Inserts(g, s, o)
    PROVE  HeardOK'
<1>0. grading[g].on /\ grading[g].at[s] = Put[o] /\ pair' = pair /\ seated' = seated
  BY WorkerIsOn DEF Inserts
<1>1. PICK stage : Moved(g, s, stage)
  BY GivesUpMoves, SettingMoves DEF Inserts
<1>2. /\ \A h \in Gradings : ~grading'[h].on => \A t \in Seats : grading'[h].at[t] = "none"
      /\ UnderWay' = UnderWay
  BY <1>0, <1>1, HeardMoved
<1>3. ASSUME NEW so \in heard, ~(so[1] = s /\ so[2] = o),
             NEW h \in Gradings, grading[h].at[so[1]] = Put[so[2]]
      PROVE  grading'[h].at[so[1]] = Put[so[2]]
  <2>1. so[1] \in Seats /\ so[2] \in Orders
    BY DEF PairsTypeOK
  <2>2. ~(h = g /\ so[1] = s)
    BY <1>0, <1>3, <2>1, Stations DEF Orders
  <2> QED
    BY <2>1, <2>2, <1>1, <1>3 DEF Moved
<1>4. CASE pair = "there" /\ s \in seated /\ vote[s][o] = NoVote
  <2>1. /\ vote' = [vote EXCEPT ![s][o] = [choice |-> grading[g].said[s], version |-> grading[g].version]]
        /\ heard' = heard \cup {<<s, o>>}
    BY <1>4 DEF Inserts
  <2>2. vote'[s][o] # NoVote
    <3>1. vote'[s][o] = [choice |-> grading[g].said[s], version |-> grading[g].version]
      BY <2>1 DEF PairsTypeOK
    <3>2. grading[g].version \in 1..MaxVersion
      BY DEF PairsTypeOK
    <3>3. grading[g].version # 0
      BY <3>2 DEF PairConstants
    <3>4. vote'[s][o].version = grading[g].version /\ NoVote.version = 0
      BY <3>1 DEF NoVote
    <3> QED
      BY <3>3, <3>4
  <2>3. ASSUME NEW so \in heard'
        PROVE  \/ vote'[so[1]][so[2]] # NoVote
               \/ \E h \in Gradings : grading'[h].at[so[1]] = Put[so[2]]
    <3>1. CASE so[1] = s /\ so[2] = o
      BY <3>1, <2>2
    <3>2. CASE ~(so[1] = s /\ so[2] = o)
      <4>0. so \in heard
        <5>1. so # <<s, o>>
          BY <3>2
        <5> QED
          BY <5>1, <2>1
      <4>1. so \in heard /\ so[1] \in Seats /\ so[2] \in Orders
        BY <4>0 DEF PairsTypeOK
      <4>2. vote'[so[1]][so[2]] = vote[so[1]][so[2]]
        BY <3>2, <4>1, <2>1 DEF PairsTypeOK
      <4> QED
        BY <3>2, <4>1, <4>2, <1>3 DEF HeardOK, AnswersAreKept
    <3> QED
      BY <3>1, <3>2
  <2>4. \A so \in heard' : pair' = "there" /\ so[1] \in seated'
    BY <1>0, <1>4, <2>1 DEF HeardOK
  <2> QED
    BY <1>0, <1>2, <2>3, <2>4 DEF HeardOK, AnswersAreKept
<1>5. CASE ~(pair = "there" /\ s \in seated /\ vote[s][o] = NoVote)
  <2>1. vote' = vote /\ heard' = heard
    BY <1>5 DEF Inserts
  <2>2. ASSUME NEW so \in heard
        PROVE  \/ vote'[so[1]][so[2]] # NoVote
               \/ \E h \in Gradings : grading'[h].at[so[1]] = Put[so[2]]
    <3>1. CASE so[1] = s /\ so[2] = o
      BY <3>1, <1>5, <2>1 DEF HeardOK
    <3>2. CASE ~(so[1] = s /\ so[2] = o)
      BY <3>2, <2>1, <1>3 DEF HeardOK, AnswersAreKept
    <3> QED
      BY <3>1, <3>2
  <2> QED
    BY <1>0, <1>2, <2>1, <2>2 DEF HeardOK, AnswersAreKept
<1> QED
  BY <1>4, <1>5

(* Every other step keeps what has been heard, or takes it back with the   *)
(* pair, the seat or the process.                                          *)
LEMMA HeardStep ==
    ASSUME PairConstants, PairsTypeOK, HeardOK, [Next]_vars
    PROVE  HeardOK'
<1>1. ASSUME NEW g \in Gradings, Begin(g) PROVE HeardOK'
  <2>1. /\ pair' = pair /\ seated' = seated /\ vote' = vote /\ heard' = heard /\ pair = "there"
        /\ grading'[g].on
    BY <1>1 DEF Begin
  <2>2. ASSUME NEW h \in Gradings, h # g
        PROVE  /\ grading'[h].on = grading[h].on /\ grading'[h].at = grading[h].at
    BY <1>1, <2>2 DEF Begin, PairsTypeOK
  <2>3. \A h \in Gradings : ~grading'[h].on => \A s \in Seats : grading'[h].at[s] = "none"
    BY <2>1, <2>2 DEF HeardOK
  <2>4. ASSUME NEW so \in heard, NEW h \in Gradings, grading[h].at[so[1]] = Put[so[2]], h # g
        PROVE  grading'[h].at[so[1]] = Put[so[2]]
    BY <2>2, <2>4
  <2>5. ASSUME NEW so \in heard PROVE grading[g].at[so[1]] # Put[so[2]]
    <3>1. ~grading[g].on /\ so[1] \in Seats /\ so[2] \in Orders
      BY <1>1 DEF Begin, PairsTypeOK
    <3>2. grading[g].at[so[1]] = "none"
      BY <3>1 DEF HeardOK
    <3> QED
      BY <3>1, <3>2, Stations
  <2>6. AnswersAreKept'
    BY <2>1, <2>4, <2>5 DEF HeardOK, AnswersAreKept
  <2> QED
    BY <2>1, <2>3, <2>6 DEF HeardOK
<1>2. ASSUME NEW g \in Gradings, Finish(g) PROVE HeardOK'
  <2>1. /\ pair' = pair /\ seated' = seated /\ vote' = vote /\ heard' = heard
        /\ ~grading'[g].on /\ \A s \in Seats : grading'[g].at[s] = "none"
    BY <1>2 DEF Finish, NoGrading, PairsTypeOK
  <2>2. \A h \in Gradings : h # g => grading'[h] = grading[h]
    BY <1>2 DEF Finish, PairsTypeOK
  <2>3. \A h \in Gradings : ~grading'[h].on => \A s \in Seats : grading'[h].at[s] = "none"
    BY <2>1, <2>2 DEF HeardOK
  <2>4. ASSUME NEW so \in heard PROVE grading[g].at[so[1]] # Put[so[2]]
    <3>1. grading[g].at[so[1]] \in {"none", "over"} /\ so[2] \in Orders
      BY <1>2 DEF Finish, PairsTypeOK
    <3> QED
      BY <3>1, Stations
  <2>5. AnswersAreKept'
    BY <2>1, <2>2, <2>4 DEF HeardOK, AnswersAreKept
  <2>6. UnderWay' \subseteq UnderWay
    BY <2>1, <2>2 DEF UnderWay
  <2> QED
    BY <2>1, <2>3, <2>5, <2>6 DEF HeardOK
<1>3. ASSUME NEW g \in Gradings, NEW s \in Seats, NEW o \in Orders,
             Asks(g, s, o) \/ AskFails(g, s, o) \/ Inserts(g, s, o)
      PROVE  HeardOK'
  BY <1>3, HeardAsks, HeardAskFails, HeardInserts
<1>4. ASSUME Create PROVE HeardOK'
  BY <1>4 DEF Create, HeardOK, AnswersAreKept, UnderWay
<1>5. ASSUME Delete PROVE HeardOK'
  BY <1>5 DEF Delete, HeardOK, AnswersAreKept, UnderWay
<1>6. ASSUME Crash PROVE HeardOK'
  <2>1. \A h \in Gradings : ~grading'[h].on /\ \A s \in Seats : grading'[h].at[s] = "none"
    BY <1>6 DEF Crash, NoGrading
  <2>2. \A so \in heard' : so \in heard /\ vote'[so[1]][so[2]] # NoVote
    BY <1>6 DEF Crash, OnRecord
  <2>3. pair' = pair /\ seated' = seated
    BY <1>6 DEF Crash
  <2> QED
    BY <2>1, <2>2, <2>3 DEF HeardOK, AnswersAreKept, UnderWay
<1>7. ASSUME NewStandard PROVE HeardOK'
  BY <1>7 DEF NewStandard, HeardOK, AnswersAreKept, UnderWay
<1>8. ASSUME NEW s \in Seats, DeleteSeat(s) PROVE HeardOK'
  <2>1. \A so \in heard' : so \in heard /\ so[1] # s
    BY <1>8 DEF DeleteSeat
  <2>2. pair' = pair /\ seated' = seated \ {s} /\ grading' = grading
    BY <1>8 DEF DeleteSeat
  <2>3. \A so \in heard' : vote'[so[1]][so[2]] = vote[so[1]][so[2]]
    BY <1>8, <2>1 DEF DeleteSeat, PairsTypeOK
  <2> QED
    BY <2>1, <2>2, <2>3 DEF HeardOK, AnswersAreKept, UnderWay
<1>9. ASSUME UNCHANGED vars PROVE HeardOK'
  BY <1>9 DEF vars, HeardOK, AnswersAreKept, UnderWay
<1> QED
  BY <1>1, <1>2, <1>3, <1>4, <1>5, <1>6, <1>7, <1>8, <1>9 DEF Next

-----------------------------------------------------------------------------
(* A grading that is alone.                                                *)

(* While a grading is alone so far, no other request does anything.        *)
LEMMA AloneMoves ==
    ASSUME AloneOK, NEW g \in UnderWay, NEW h \in UnderWay, grading[h].alone
    PROVE  h = g
  BY DEF AloneOK, LoneOK

(* A seat of a grading alone so far that moves on, with what it said on    *)
(* record, leaves it as good.                                              *)
LEMMA LoneMoved ==
    ASSUME HeardOK, AloneOK, NEW g \in Gradings, grading[g].on,
           NEW s \in Seats, NEW stage, Moved(g, s, stage), PairsTypeOK,
           pair' = pair, seated' = seated,
           ~grading'[g].alone \/ stage # "none",
           \A t \in Seats, o \in Orders : <<t, o>> # <<s, "ab">> /\ <<t, o>> # <<s, "ba">> => vote'[t][o] = vote[t][o],
           grading'[g].alone /\ s \in seated /\ pair = "there" =>
               /\ stage \in {"ask ba", "put ba", "over"} => Said(s, "ab", grading[g].version)'
               /\ stage = "over" => Said(s, "ba", grading[g].version)'
    PROVE  AloneOK'
<1>1. UnderWay' = UnderWay /\ g \in UnderWay
  BY MovedUnderWay DEF UnderWay
<1>2. SUFFICES ASSUME NEW h \in UnderWay', grading'[h].alone PROVE LoneOK(h)'
  BY DEF AloneOK
<1>3. h = g /\ grading[g].alone
  <2>1. h \in UnderWay /\ h \in Gradings
    BY <1>1 DEF UnderWay
  <2>2. grading[h].alone
    BY <1>2, <2>1 DEF Moved
  <2> QED
    BY <1>1, <2>1, <2>2, AloneMoves
<1>4. LoneOK(g) /\ grading'[g].version = grading[g].version
  BY <1>1, <1>3 DEF AloneOK, Moved
<1>5. ASSUME pair = "there", NEW t \in seated
      PROVE  /\ grading'[g].at[t] # "none"
             /\ grading'[g].at[t] \in {"ask ba", "put ba", "over"} => Said(t, "ab", grading[g].version)'
             /\ grading'[g].at[t] = "over" => Said(t, "ba", grading[g].version)'
  <2>0. t \in Seats
    BY DEF PairsTypeOK
  <2>1. CASE t = s
    <3>1. grading'[g].at[t] = stage
      BY <2>0, <2>1 DEF Moved
    <3> QED
      BY <3>1, <2>1, <1>2, <1>3, <1>5
  <2>2. CASE t # s
    <3>1. grading'[g].at[t] = grading[g].at[t]
      BY <2>0, <2>2 DEF Moved
    <3>2. vote'[t]["ab"] = vote[t]["ab"] /\ vote'[t]["ba"] = vote[t]["ba"]
      BY <2>0, <2>2 DEF Orders
    <3>3. /\ grading[g].at[t] # "none"
          /\ grading[g].at[t] \in {"ask ba", "put ba", "over"} => Said(t, "ab", grading[g].version)
          /\ grading[g].at[t] = "over" => Said(t, "ba", grading[g].version)
      BY <1>4, <1>5 DEF LoneOK
    <3> QED
      BY <3>1, <3>2, <3>3, <1>4 DEF Said
  <2> QED
    BY <2>1, <2>2
<1> QED
  BY <1>1, <1>3, <1>4, <1>5 DEF LoneOK

(* A grading that is alone stays so until another begins or a seat fails,  *)
(* and has on record what it is past.                                      *)
LEMMA AloneStep ==
    ASSUME PairConstants, PairsTypeOK, HeardOK, AloneOK, [Next]_vars
    PROVE  AloneOK'
<1>1. ASSUME NEW g \in Gradings, Begin(g) PROVE AloneOK'
  <2>1. /\ pair' = pair /\ seated' = seated /\ grading'[g].on /\ grading'[g].alone = (UnderWay = {})
        /\ \A s \in seated : grading'[g].at[s] = "ask ab"
    BY <1>1 DEF Begin, PairsTypeOK
  <2>2. ASSUME NEW h \in Gradings, h # g
        PROVE  grading'[h].on = grading[h].on /\ (grading'[h].alone => ~grading[h].on)
    BY <1>1, <2>2 DEF Begin, PairsTypeOK
  <2>3. SUFFICES ASSUME NEW h \in UnderWay', grading'[h].alone PROVE LoneOK(h)'
    BY DEF AloneOK
  <2>4. h = g /\ UnderWay = {}
    BY <2>1, <2>2, <2>3 DEF UnderWay
  <2>5. UnderWay' = {g}
    BY <2>1, <2>2, <2>4 DEF UnderWay
  <2> QED
    BY <2>1, <2>4, <2>5 DEF LoneOK
<1>2. ASSUME NEW g \in Gradings, Finish(g) PROVE AloneOK'
  <2>1. grading[g].on /\ ~grading'[g].on
    BY <1>2 DEF Finish, NoGrading, PairsTypeOK
  <2>2. \A h \in Gradings : h # g => grading'[h] = grading[h]
    BY <1>2 DEF Finish, PairsTypeOK
  <2>3. ASSUME NEW h \in UnderWay', grading'[h].alone PROVE FALSE
    <3>1. h \in UnderWay /\ g \in UnderWay /\ h # g /\ grading[h].alone
      BY <2>1, <2>2, <2>3 DEF UnderWay
    <3> QED
      BY <3>1, AloneMoves
  <2> QED
    BY <2>3 DEF AloneOK
<1>3. ASSUME NEW g \in Gradings, NEW s \in Seats, NEW o \in Orders, Asks(g, s, o) PROVE AloneOK'
  <2>1. Moved(g, s, Put[o]) /\ grading[g].on /\ AsksNow(g, s, o)
    BY <1>3, AsksMoves, WorkerIsOn DEF Asks
  <2>2. pair' = pair /\ seated' = seated /\ vote' = [vote EXCEPT ![s][o] = NoVote]
    BY <1>3 DEF Asks
  <2>3. \A t \in Seats, p \in Orders : ~(t = s /\ p = o) => vote'[t][p] = vote[t][p]
    BY <2>2 DEF PairsTypeOK
  <2>4. Put[o] # "none" /\ Put[o] # "over" /\ (Put[o] \in {"ask ba", "put ba", "over"} => o = "ba")
    BY Stations DEF Orders
  <2>5. ASSUME grading'[g].alone, s \in seated, pair = "there", o = "ba" PROVE Said(s, "ab", grading[g].version)'
    <3>1. grading[g].at[s] = "ask ba" /\ LoneOK(g)
      BY <2>1, <2>5 DEF AsksNow, Moved, AloneOK, UnderWay
    <3>2. vote'[s]["ab"] = vote[s]["ab"] /\ grading'[g].version = grading[g].version
      BY <2>1, <2>3, <2>5 DEF Orders, Moved
    <3>3. Said(s, "ab", grading[g].version)
      BY <3>1, <2>5 DEF LoneOK
    <3> QED
      BY <3>2, <3>3 DEF Said
  <2> QED
    BY <2>1, <2>2, <2>3, <2>4, <2>5, LoneMoved DEF Orders
<1>4. ASSUME NEW g \in Gradings, NEW s \in Seats, NEW o \in Orders, AskFails(g, s, o) PROVE AloneOK'
  <2>1. Moved(g, s, "over") /\ ~grading'[g].alone /\ grading[g].on
    BY <1>4, GivesUpMoves, WorkerIsOn DEF AskFails
  <2>2. pair' = pair /\ seated' = seated /\ vote' = vote
    BY <1>4 DEF AskFails
  <2> QED
    BY <2>1, <2>2, LoneMoved
<1>5. ASSUME NEW g \in Gradings, NEW s \in Seats, NEW o \in Orders, Inserts(g, s, o) PROVE AloneOK'
  <2>0. grading[g].on /\ grading[g].at[s] = Put[o] /\ pair' = pair /\ seated' = seated
    BY <1>5, WorkerIsOn DEF Inserts
  <2>1. CASE pair = "there" /\ s \in seated /\ vote[s][o] = NoVote
    <3>1. Moved(g, s, After[o])
      BY <1>5, <2>1, SettingMoves DEF Inserts
    <3>2. vote' = [vote EXCEPT ![s][o] = [choice |-> grading[g].said[s], version |-> grading[g].version]]
      BY <1>5, <2>1 DEF Inserts
    <3>3. \A t \in Seats, p \in Orders : ~(t = s /\ p = o) => vote'[t][p] = vote[t][p]
      BY <3>2 DEF PairsTypeOK
    <3>4. Said(s, o, grading[g].version)'
      <4>1. grading'[g].version = grading[g].version
        BY <3>1 DEF Moved
      <4>2. vote'[s][o] = [choice |-> grading[g].said[s], version |-> grading[g].version]
        BY <3>2 DEF PairsTypeOK
      <4>3. grading[g].version \in 1..MaxVersion
        BY DEF PairsTypeOK
      <4>4. grading[g].version # 0 /\ NoVote.version = 0
        BY <4>3 DEF PairConstants, NoVote
      <4>5. vote'[s][o].version = grading[g].version
        BY <4>2
      <4> QED
        BY <4>1, <4>4, <4>5 DEF Said
    <3>5. ASSUME o = "ba", grading'[g].alone PROVE Said(s, "ab", grading[g].version)'
      <4>1. grading[g].at[s] = "put ba" /\ LoneOK(g)
        BY <2>0, <3>1, <3>5, Stations DEF Moved, AloneOK, UnderWay
      <4>2. vote'[s]["ab"] = vote[s]["ab"] /\ grading'[g].version = grading[g].version
        BY <3>1, <3>3, <3>5 DEF Orders, Moved
      <4>3. Said(s, "ab", grading[g].version)
        BY <4>1, <2>1 DEF LoneOK
      <4> QED
        BY <4>2, <4>3 DEF Said
    <3>6. After[o] # "none" /\ (After[o] = "over" => o = "ba")
      BY Stations DEF Orders
    <3> QED
      BY <2>0, <3>1, <3>3, <3>4, <3>5, <3>6, LoneMoved DEF Orders
  <2>2. CASE ~(pair = "there" /\ s \in seated /\ vote[s][o] = NoVote)
    <3>1. GivesUp(g, s) /\ vote' = vote
      BY <1>5, <2>2 DEF Inserts
    <3>2. Moved(g, s, "over") /\ ~grading'[g].alone
      BY <3>1, GivesUpMoves
    <3> QED
      BY <2>0, <3>1, <3>2, LoneMoved
  <2> QED
    BY <2>1, <2>2
<1>6. ASSUME Create PROVE AloneOK'
  BY <1>6 DEF Create, HeardOK, AloneOK, UnderWay
<1>7. ASSUME Delete PROVE AloneOK'
  BY <1>7 DEF Delete, AloneOK, LoneOK, UnderWay
<1>8. ASSUME Crash PROVE AloneOK'
  BY <1>8 DEF Crash, NoGrading, AloneOK, UnderWay
<1>9. ASSUME NewStandard PROVE AloneOK'
  BY <1>9 DEF NewStandard, AloneOK, LoneOK, Said, UnderWay
<1>10. ASSUME NEW s \in Seats, DeleteSeat(s) PROVE AloneOK'
  <2>1. pair' = pair /\ seated' = seated \ {s} /\ grading' = grading /\ UnderWay' = UnderWay
    BY <1>10 DEF DeleteSeat, UnderWay
  <2>2. \A t \in seated' : vote'[t] = vote[t]
    BY <1>10, <2>1 DEF DeleteSeat, PairsTypeOK
  <2>3. ASSUME NEW g \in UnderWay, grading[g].alone PROVE LoneOK(g)'
    <3>1. LoneOK(g)
      BY <2>3 DEF AloneOK
    <3> QED
      BY <2>1, <2>2, <3>1 DEF LoneOK, Said
  <2> QED
    BY <2>1, <2>3 DEF AloneOK
<1>11. ASSUME UNCHANGED vars PROVE AloneOK'
  BY <1>11 DEF vars, AloneOK, LoneOK, Said, UnderWay
<1> QED
  BY <1>1, <1>2, <1>3, <1>4, <1>5, <1>6, <1>7, <1>8, <1>9, <1>10, <1>11 DEF Next

-----------------------------------------------------------------------------
(* A grading nothing went wrong with.                                      *)

(* Whatever happens to a pair no grading of which is under way leaves it   *)
(* graded as a whole, until the next grading begins.                       *)
LEMMA WholeStep ==
    ASSUME PairConstants, PairsTypeOK, HeardOK, AloneOK, WholeOK, [Next]_vars
    PROVE  WholeOK'
<1>1. ASSUME NEW g \in Gradings, Begin(g) PROVE WholeOK'
  BY <1>1 DEF Begin, WholeOK, WholeGradingIsOneVersion
<1>2. ASSUME NEW g \in Gradings, Finish(g) PROVE WholeOK'
  <2>1. grading[g].on /\ vote' = vote /\ seated' = seated /\ \A s \in Seats : grading[g].at[s] \in {"none", "over"}
    BY <1>2 DEF Finish
  <2>2. CASE pair = "there" /\ grading[g].alone
    <3>1. marked' = grading[g].version /\ whole' = grading[g].version
      BY <1>2, <2>2 DEF Finish
    <3>2. LoneOK(g)
      BY <2>1, <2>2 DEF AloneOK, UnderWay
    <3>3. UnderWay' = {}
      <4>1. \A h \in Gradings : IF h = g THEN ~grading'[h].on ELSE grading'[h] = grading[h]
        BY <1>2 DEF Finish, NoGrading, PairsTypeOK
      <4>2. \A h \in Gradings : h # g => ~grading[h].on
        BY <3>2 DEF LoneOK, UnderWay
      <4> QED
        BY <4>1, <4>2 DEF UnderWay
    <3>4. ASSUME NEW s \in seated, NEW o \in Orders
          PROVE  vote'[s][o] # NoVote /\ vote'[s][o].version = grading[g].version
      <4>1. grading[g].at[s] = "over"
        BY <2>1, <2>2, <3>2 DEF LoneOK, PairsTypeOK
      <4>2. Said(s, "ab", grading[g].version) /\ Said(s, "ba", grading[g].version)
        BY <2>2, <3>2, <4>1 DEF LoneOK
      <4> QED
        BY <2>1, <4>2 DEF Said, Orders
    <3> QED
      BY <2>1, <3>1, <3>3, <3>4 DEF WholeOK, WholeGradingIsOneVersion
  <2>3. CASE ~(pair = "there" /\ grading[g].alone)
    BY <1>2, <2>3 DEF Finish, WholeOK, WholeGradingIsOneVersion
  <2> QED
    BY <2>2, <2>3
<1>3. ASSUME NEW g \in Gradings, NEW s \in Seats, NEW o \in Orders,
             Asks(g, s, o) \/ AskFails(g, s, o) \/ Inserts(g, s, o)
      PROVE  WholeOK'
  <2>1. UnderWay # {}
    BY <1>3, WorkerIsOn DEF Asks, AskFails, Inserts, UnderWay
  <2>2. whole' = whole
    BY <1>3 DEF Asks, AskFails, Inserts
  <2> QED
    BY <2>1, <2>2 DEF WholeOK, WholeGradingIsOneVersion
<1>4. ASSUME Create PROVE WholeOK'
  BY <1>4 DEF Create, WholeOK, WholeGradingIsOneVersion, UnderWay
<1>5. ASSUME Delete PROVE WholeOK'
  BY <1>5 DEF Delete, WholeOK, WholeGradingIsOneVersion
<1>6. ASSUME Crash PROVE WholeOK'
  BY <1>6 DEF Crash, WholeOK, WholeGradingIsOneVersion
<1>7. ASSUME NewStandard PROVE WholeOK'
  BY <1>7 DEF NewStandard, WholeOK, WholeGradingIsOneVersion, UnderWay
<1>8. ASSUME NEW s \in Seats, DeleteSeat(s) PROVE WholeOK'
  <2>1. /\ seated' = seated \ {s} /\ marked' = marked /\ whole' = whole /\ UnderWay' = UnderWay
        /\ \A t \in seated' : vote'[t] = vote[t]
    BY <1>8 DEF DeleteSeat, PairsTypeOK, UnderWay
  <2> QED
    BY <2>1 DEF WholeOK, WholeGradingIsOneVersion
<1>9. ASSUME UNCHANGED vars PROVE WholeOK'
  BY <1>9 DEF vars, WholeOK, WholeGradingIsOneVersion, UnderWay
<1> QED
  BY <1>1, <1>2, <1>3, <1>4, <1>5, <1>6, <1>7, <1>8, <1>9 DEF Next

-----------------------------------------------------------------------------
(* The invariant holds of every pair, however it is graded.                *)
THEOREM Invariance == Spec => []PairInv
<1>1. Init => PairInv
  BY InitPairs, PairConstants
<1>2. PairInv /\ [Next]_vars => PairInv'
  BY TypeStep, HeardStep, AloneStep, WholeStep, PairConstants DEF PairInv
<1> QED
  BY <1>1, <1>2, PTL DEF Spec

(* The state is always of its type (server/store.ts, preference_votes).    *)
THEOREM TypeCorrect == Spec => []PairsTypeOK
<1>1. PairInv => PairsTypeOK
  BY DEF PairInv
<1> QED
  BY <1>1, Invariance, PTL

(* server/store.ts:1117: an answer on record stays on record until its     *)
(* seat or the pair is deleted, except while it is being replaced, however *)
(* many requests grade the pair at a time.                                 *)
THEOREM Kept == Spec => []AnswersAreKept
<1>1. PairInv => AnswersAreKept
  BY DEF PairInv, HeardOK
<1> QED
  BY <1>1, Invariance, PTL

(* server/app.ts:1443: after a grading that was alone and lost no seat, the*)
(* seats left have both answers on record, under the version marked.       *)
THEOREM WholeGrading == Spec => []WholeGradingIsOneVersion
<1>1. PairInv => WholeGradingIsOneVersion
  BY DEF PairInv, WholeOK
<1> QED
  BY <1>1, Invariance, PTL

-----------------------------------------------------------------------------
(* What the page and the export say.                                       *)

(* The weights behind a side are a number, and nothing is behind a side    *)
(* nobody counted for.                                                     *)
LEMMA BehindIsNat ==
    ASSUME PairConstants, PairsTypeOK, NEW side
    PROVE  /\ Behind(side) \in Nat
           /\ {s \in Counted : Choice(s) = side} = {} => Behind(side) = 0
<1> DEFINE S == {s \in Counted : Choice(s) = side}
<1>1. S \subseteq Seats
  BY DEF Counted, Voters, PairsTypeOK
<1>2. IsFiniteSet(S) /\ \A s \in S : Weight[s] \in Nat
  BY <1>1, FS_Subset DEF PairConstants
<1>3. Behind(side) = Sum(Weight, S)
  BY DEF Behind, Sum
<1> QED
  BY <1>2, <1>3, SumIsNat, SumOfNone

(* Whoever wins has a seat behind it.                                      *)
LEMMA WinnerIsBacked ==
    ASSUME PairConstants, PairsTypeOK, Winner # None
    PROVE  Winner \in Sides /\ {s \in Counted : Choice(s) = Winner} # {}
<1>1. Behind("a") \in Nat /\ Behind("b") \in Nat
  BY BehindIsNat
<1>2. CASE Behind("a") > Behind("b")
  <2>1. Winner = "a"
    BY <1>2, <1>1 DEF Winner
  <2>2. Behind("a") # 0
    BY <1>1, <1>2
  <2> QED
    BY <2>1, <2>2, BehindIsNat DEF Sides
<1>3. CASE ~(Behind("a") > Behind("b"))
  <2>1. Winner = "b" /\ Behind("a") # Behind("b")
    BY <1>3 DEF Winner
  <2>2. Behind("b") # 0
    BY <1>1, <1>3, <2>1
  <2> QED
    BY <2>1, <2>2, BehindIsNat DEF Sides
<1> QED
  BY <1>2, <1>3

(* server/training.ts:336: the page and the export agree on what a pair    *)
(* prefers, at any moment, whatever the owner ruled, and what is called    *)
(* the panel's has a seat behind it that did not flip.                     *)
THEOREM ExportAgrees == Spec => []ExportSaysWhatThePageSays
<1>1. ASSUME PairsTypeOK PROVE ExportSaysWhatThePageSays
  <2>1. SUFFICES ASSUME NEW owner \in Rulings, Listed
                 PROVE  LET page == PairView(owner)
                            rows == Exported(owner)
                        IN  /\ rows \subseteq PairRows
                            /\ {row.chosen : row \in rows} = {page.preferred} \ {None}
                            /\ \A row \in rows :
                                 /\ row.majority \subseteq page.votes
                                 /\ row.basis = "panel" => row.majority # {} /\ row.majority \subseteq page.counted
    BY DEF ExportSaysWhatThePageSays
  <2> DEFINE side == IF owner \in Sides THEN owner ELSE Winner
             backing(x) == {s \in Voters : Choice(s) = x /\ ~Flips(s)}
             Row(x) == [chosen |-> x, basis |-> IF owner = None THEN "panel" ELSE "owner",
                        majority |-> backing(x)]
             sides == {y \in Sides : owner # "tie" /\ y = side}
  <2>2. Exported(owner) = {Row(x) : x \in sides}
    BY <2>1 DEF Exported
  <2>3. None \notin Sides /\ "tie" \notin Sides /\ None # "tie" /\ (owner \in Sides \/ owner = "tie" \/ owner = None)
    BY <2>1, PairConstants DEF PairConstants, PairChoices, Sides, Rulings
  <2>4. Winner = None \/ Winner \in Sides
    BY WinnerIsBacked, <1>1, PairConstants
  <2>5. sides = {PairView(owner).preferred} \ {None}
    <3>1. CASE owner \in Sides
      BY <3>1, <2>3 DEF PairView
    <3>2. CASE owner = "tie"
      BY <3>2, <2>3 DEF PairView
    <3>3. CASE owner = None
      BY <3>3, <2>3, <2>4 DEF PairView
    <3> QED
      BY <2>3, <3>1, <3>2, <3>3
  <2>6. \A x \in Sides : backing(x) \subseteq Voters /\ backing(x) = {s \in Counted : Choice(s) = x}
    BY DEF Counted, Sides
  <2>7. Voters \subseteq Seats /\ Counted \subseteq Voters
    BY <1>1 DEF Voters, Counted, PairsTypeOK
  <2>8. ASSUME NEW x \in sides
        PROVE  /\ Row(x) \in PairRows /\ backing(x) \subseteq PairView(owner).votes
               /\ owner = None => backing(x) # {} /\ backing(x) \subseteq PairView(owner).counted
    <3>1. x \in Sides /\ x = side
      BY <2>8
    <3>2. Row(x) \in PairRows
      BY <2>6, <2>7, <3>1 DEF PairRows
    <3>3. PairView(owner).votes = Voters /\ PairView(owner).counted = Counted
      BY DEF PairView
    <3>4. ASSUME owner = None PROVE backing(x) # {} /\ backing(x) \subseteq Counted
      <4>1. x = Winner /\ Winner # None
        BY <3>1, <3>4, <2>3
      <4>2. {s \in Counted : Choice(s) = x} # {}
        BY <4>1, <1>1, PairConstants, WinnerIsBacked
      <4> QED
        BY <4>2, <2>6, <3>1
    <3> QED
      BY <2>6, <3>1, <3>2, <3>3, <3>4
  <2>9. \A x : Row(x).chosen = x /\ Row(x).majority = backing(x) /\ (Row(x).basis = "panel" => owner = None)
    OBVIOUS
  <2> HIDE DEF Row, sides, backing
  <2>10. {row.chosen : row \in Exported(owner)} = sides
    BY <2>2, <2>9
  <2> QED
    BY <2>2, <2>5, <2>8, <2>9, <2>10
<1> QED
  BY <1>1, TypeCorrect, PTL

-----------------------------------------------------------------------------
(* PROJECTS.                                                               *)

Creation == [id : Nat, by : People, kind : Kinds, project : Ids, done : Nat]
Request == [by : People, op : Ops, on : Ids, cred : Credentials \cup {NoCredential},
            shown : BOOLEAN, good : BOOLEAN, granted : BOOLEAN]

ProjectsTypeOK ==
    /\ kind \in [Ids -> Kinds] /\ stored \in [Ids -> Nat]
    /\ public \in SUBSET Ids /\ begun \in Nat /\ recent \in Nat
    /\ creations \in SUBSET Creation
    /\ live \in SUBSET Credentials /\ minted \in 0..MaxKeys
    /\ know \in [People -> SUBSET Credentials] /\ given \in [People -> SUBSET Credentials]
    /\ requests \in SUBSET Request

(* A creation has done what is stored, unless it has done nothing yet; and *)
(* only one of a project has done anything.                                *)
CreationsOK ==
    /\ \A m \in creations : m.done > 0 =>
         /\ stored[m.project] = m.done /\ kind[m.project] = m.kind
         /\ m.done <= Len(Statements(m.kind))
    /\ \A m, k \in creations : m.done > 0 /\ k.done > 0 /\ m.project = k.project => m = k

(* Everything of the project is stored.                                    *)
Whole(p) == stored[p] = Len(Statements(kind[p]))

(* Whatever there is a credential of, is public, or is about to be opened, *)
(* is whole.                                                               *)
WholeIfOpen ==
    /\ \A p \in public : Whole(p)
    /\ \A a \in People : \A cred \in know[a] : Whole(cred.of)
    /\ \A cred \in live : Whole(cred.of)
    /\ \A q \in requests : q.shown \/ q.granted => Whole(q.on)

(* Credentials are had as they were given; a key is numbered by when it    *)
(* was minted, so that one that is live is one that was live when it was   *)
(* asked with; and a credential asked with is had by who asks, but for a   *)
(* page that needs none.                                                   *)
KeysOK ==
    /\ \A a \in People : know[a] \subseteq given[a]
    /\ \A a \in People : \A cred \in know[a] : cred.key <= minted
    /\ \A cred \in live : cred.key <= minted
    /\ \A q \in requests :
         /\ q.cred \in know[q.by] \/ (q.op = "page" /\ q.cred = NoCredential)
         /\ q.cred = Token(q.on) \/ (q.cred \in live /\ q.cred.of = q.on) => q.good
         /\ q.shown => q.op = "page"
         /\ q.granted => (q.good \/ q.shown) /\ (q.op \in OwnerOps => q.cred = Token(q.on))

ProjectsInv == ProjectsTypeOK /\ CreationsOK /\ WholeIfOpen /\ KeysOK

-----------------------------------------------------------------------------
(* Statements.                                                             *)

(* The statements but the one that makes a project public.                 *)
Private == {"project", "version", "clause", "round", "item", "grade", "close", "case", "document",
            "grader", "sentence", "accepted", "pins"}

(* The same statement many times is a sequence of it.                      *)
LEMMA TimesSeq ==
    ASSUME NEW n \in Nat, NEW what \in Private
    PROVE  Times(n, what) \in Seq(Private)
  BY DEF Times

(* Nothing makes a project public but the last statement of the example.   *)
LEMMA StatementsEnd ==
    ASSUME NEW k \in Kinds
    PROVE  /\ Len(Statements(k)) \in Nat \ {0}
           /\ \A n \in 1..Len(Statements(k)) : Statements(k)[n] = "public" => n = Len(Statements(k))
<1>1. /\ "project" \in Private /\ "version" \in Private /\ "clause" \in Private /\ "round" \in Private
      /\ "item" \in Private /\ "grade" \in Private /\ "close" \in Private /\ "case" \in Private
      /\ "document" \in Private /\ "grader" \in Private /\ "sentence" \in Private
      /\ "accepted" \in Private /\ "pins" \in Private
  BY DEF Private
<1>2. Clauses \in Nat /\ Cases \in Nat /\ Documents \in Nat /\ Graders \in Nat /\ Sentences \in Nat
      /\ Graders * Cases \in Nat
  BY ProjectConstants DEF ProjectConstants
<1>3. \A x, y \in Seq(Private) : x \o y \in Seq(Private)
  BY ConcatProperties
<1>4. \A x \in Private : <<x>> \in Seq(Private)
  OBVIOUS
<1>5. Standard \in Seq(Private)
  BY <1>1, <1>2, <1>3, <1>4, TimesSeq DEF Standard
<1>6. Round \in Seq(Private)
  BY <1>1, <1>2, <1>3, <1>4, TimesSeq DEF Round
<1>7. Graded \in Seq(Private)
  BY <1>1, <1>2, <1>3, <1>4, TimesSeq DEF Graded
<1>8. Mined \in Seq(Private)
  <2>1. /\ Times(Sentences, "sentence") \in Seq(Private) /\ <<"version">> \in Seq(Private)
        /\ Times(Sentences, "accepted") \in Seq(Private) /\ <<>> \in Seq(Private)
    BY <1>1, <1>2, TimesSeq
  <2> QED
    BY <2>1, <1>3 DEF Mined
<1> DEFINE Hidden == <<"project">> \o Standard \o Times(Cases, "case") \o Times(Graders, "grader")
                         \o Round \o <<"pins">> \o Graded \o Mined
<1>9. Times(Cases, "case") \in Seq(Private) /\ Times(Graders, "grader") \in Seq(Private)
      /\ Times(Documents, "document") \in Seq(Private) /\ <<"project">> \in Seq(Private) /\ <<"pins">> \in Seq(Private)
  BY <1>1, <1>2, <1>4, TimesSeq
<1>10. <<"project">> \o Standard \in Seq(Private)
  BY <1>3, <1>5, <1>9
<1>11. Demo \in Seq(Private)
  <2>1. <<"project">> \o Standard \o Times(Cases, "case") \in Seq(Private)
    BY <1>3, <1>9, <1>10
  <2>2. <<"project">> \o Standard \o Times(Cases, "case") \o Times(Documents, "document") \in Seq(Private)
    BY <1>3, <1>9, <2>1
  <2>3. <<"project">> \o Standard \o Times(Cases, "case") \o Times(Documents, "document")
          \o Times(Graders, "grader") \in Seq(Private)
    BY <1>3, <1>9, <2>2
  <2>4. <<"project">> \o Standard \o Times(Cases, "case") \o Times(Documents, "document")
          \o Times(Graders, "grader") \o Round \in Seq(Private)
    BY <1>3, <1>6, <2>3
  <2> QED
    BY <1>3, <1>7, <2>4 DEF Demo
<1>12. Hidden \in Seq(Private)
  <2>1. <<"project">> \o Standard \o Times(Cases, "case") \in Seq(Private)
    BY <1>3, <1>9, <1>10
  <2>2. <<"project">> \o Standard \o Times(Cases, "case") \o Times(Graders, "grader") \in Seq(Private)
    BY <1>3, <1>9, <2>1
  <2>3. <<"project">> \o Standard \o Times(Cases, "case") \o Times(Graders, "grader") \o Round \in Seq(Private)
    BY <1>3, <1>6, <2>2
  <2>4. <<"project">> \o Standard \o Times(Cases, "case") \o Times(Graders, "grader") \o Round
          \o <<"pins">> \in Seq(Private)
    BY <1>3, <1>9, <2>3
  <2>5. <<"project">> \o Standard \o Times(Cases, "case") \o Times(Graders, "grader") \o Round
          \o <<"pins">> \o Graded \in Seq(Private)
    BY <1>3, <1>7, <2>4
  <2> QED
    BY <1>3, <1>8, <2>5
<1>13. WorkedExample = Hidden \o <<"public">>
  BY DEF WorkedExample
<1> HIDE DEF Hidden
<1>14. ASSUME NEW s \in Seq(Private), NEW n \in 1..Len(s) PROVE s[n] # "public"
  BY <1>14 DEF Private
<1>15. CASE k = "example"
  <2>1. Statements(k) = Hidden \o <<"public">>
    BY <1>13, <1>15 DEF Statements
  <2>2. /\ Hidden \in Seq(Private \cup {"public"}) /\ <<"public">> \in Seq(Private \cup {"public"})
        /\ Len(<<"public">>) = 1 /\ Len(Hidden) \in Nat
    BY <1>12, SeqMonotonic
  <2>3. /\ Len(Statements(k)) = Len(Hidden) + 1
        /\ \A n \in 1..Len(Hidden) : Statements(k)[n] = Hidden[n]
    BY <2>1, <2>2, ConcatProperties
  <2>4. \A n \in 1..Len(Statements(k)) : n # Len(Statements(k)) => n \in 1..Len(Hidden)
    BY <2>2, <2>3
  <2> QED
    BY <1>12, <1>14, <2>2, <2>3, <2>4
<1>16. CASE k = "demo"
  <2>1. Statements(k) = Demo
    BY <1>16 DEF Statements
  <2>2. Len(Demo) # 0
    <3>1. Graded \in Seq(Private) /\ Len(Graded) # 0
      <4>1. Times(Graders * Cases, "grade") \in Seq(Private)
        BY <1>1, <1>2, TimesSeq
      <4>2. <<"close">> \in Seq(Private) /\ Len(<<"close">>) = 1
        BY <1>1
      <4>3. Len(Graded) = Len(Times(Graders * Cases, "grade")) + 1
        BY <4>1, <4>2, ConcatProperties DEF Graded
      <4> QED
        BY <1>7, <4>1, <4>3
    <3> DEFINE front == <<"project">> \o Standard \o Times(Cases, "case") \o Times(Documents, "document")
          \o Times(Graders, "grader") \o Round
    <3>2. front \in Seq(Private)
      <4>1. <<"project">> \o Standard \o Times(Cases, "case") \in Seq(Private)
        BY <1>3, <1>9, <1>10
      <4>2. <<"project">> \o Standard \o Times(Cases, "case") \o Times(Documents, "document") \in Seq(Private)
        BY <1>3, <1>9, <4>1
      <4>3. <<"project">> \o Standard \o Times(Cases, "case") \o Times(Documents, "document")
              \o Times(Graders, "grader") \in Seq(Private)
        BY <1>3, <1>9, <4>2
      <4> QED
        BY <1>3, <1>6, <4>3
    <3>3. Demo = front \o Graded
      BY DEF Demo
    <3> HIDE DEF front
    <3>4. Len(Demo) = Len(front) + Len(Graded) /\ Len(front) \in Nat /\ Len(Graded) \in Nat
      BY <3>1, <3>2, <3>3, ConcatProperties
    <3> QED
      BY <3>1, <3>4
  <2> QED
    BY <1>11, <1>14, <2>1, <2>2
<1>17. CASE k = "created"
  <2>1. Statements(k) = <<"project">> \o Standard
    BY <1>17 DEF Statements
  <2>2. Len(<<"project">> \o Standard) = 1 + Len(Standard) /\ Len(Standard) \in Nat
    BY <1>5, <1>9, ConcatProperties
  <2> QED
    BY <1>10, <1>14, <2>1, <2>2
<1> QED
  BY <1>15, <1>16, <1>17 DEF Kinds

-----------------------------------------------------------------------------
(* Nothing is there at first.                                              *)
LEMMA InitProjects == ProjectsInit => ProjectsInv
<1> SUFFICES ASSUME ProjectsInit PROVE ProjectsInv
  OBVIOUS
<1>1. ProjectsTypeOK
  BY ProjectConstants DEF ProjectsInit, ProjectsTypeOK, ProjectConstants, Kinds
<1>2. CreationsOK /\ WholeIfOpen /\ KeysOK
  BY DEF ProjectsInit, CreationsOK, WholeIfOpen, KeysOK
<1> QED
  BY <1>1, <1>2 DEF ProjectsInv

(* Keys are numbered from 1.                                               *)
LEMMA KeyNumbers ==
    /\ MaxKeys \in Nat /\ 0 \in 0..MaxKeys
    /\ \A p \in Ids : Token(p) \in Credentials /\ Token(p) # NoCredential
    /\ NoCredential \notin Credentials
    /\ \A cred \in Credentials : cred.of \in Ids /\ cred.key \in 0..MaxKeys
<1>1. MaxKeys \in Nat
  BY ProjectConstants DEF ProjectConstants
<1>2. NoCredential.key = MaxKeys + 1 /\ \A p : Token(p).key = 0
  BY DEF NoCredential, Token
<1>3. \A cred \in Credentials : cred.of \in Ids /\ cred.key \in 0..MaxKeys
  BY DEF Credentials
<1>4. \A p \in Ids : Token(p) \in Credentials
  BY <1>1 DEF Token, Credentials
<1>5. NoCredential \notin Credentials
  BY <1>1, <1>2, <1>3
<1> QED
  BY <1>1, <1>3, <1>4, <1>5

(* A creation that begins has done nothing.                                *)
LEMMA BeginKeeps ==
    ASSUME ProjectsInv, NEW a \in People, NEW k \in Kinds, NEW p \in Ids,
           BeginCreation(a, k, p), recent' \in Nat
    PROVE  ProjectsInv'
<1> DEFINE new == [id |-> begun, by |-> a, kind |-> k, project |-> p, done |-> 0]
<1>1. /\ begun' = begun + 1 /\ creations' = creations \cup {new}
      /\ kind' = kind /\ stored' = stored /\ public' = public /\ live' = live /\ minted' = minted
      /\ know' = know /\ given' = given /\ requests' = requests
  BY DEF BeginCreation, access
<1>2. new \in Creation /\ new.done = 0
  BY DEF Creation, ProjectsInv, ProjectsTypeOK
<1> HIDE DEF new
<1>3. ProjectsTypeOK'
  BY <1>1, <1>2 DEF ProjectsInv, ProjectsTypeOK
<1>4. CreationsOK'
  BY <1>1, <1>2 DEF ProjectsInv, CreationsOK
<1>5. WholeIfOpen' /\ KeysOK'
  BY <1>1 DEF ProjectsInv, WholeIfOpen, Whole, KeysOK
<1> QED
  BY <1>3, <1>4, <1>5 DEF ProjectsInv

(* The next statement of a creation is written, unless another creation    *)
(* has written the first one of that project.  What is whole stays whole,  *)
(* and what becomes public is.                                             *)
LEMMA WriteKeeps ==
    ASSUME ProjectsInv, NEW m \in creations, WriteNext(m)
    PROVE  ProjectsInv'
<1> DEFINE n == m.done + 1
           p == m.project
           moved == [m EXCEPT !.done = n]
<1>0. /\ ProjectsTypeOK /\ CreationsOK /\ WholeIfOpen /\ KeysOK
      /\ m \in Creation /\ p \in Ids /\ m.kind \in Kinds /\ m.done \in Nat
      /\ m.done < Len(Statements(m.kind)) /\ Len(Statements(m.kind)) \in Nat
  <2>1. m \in Creation
    BY DEF ProjectsInv, ProjectsTypeOK
  <2>2. m.kind \in Kinds /\ m.project \in Ids /\ m.done \in Nat
    BY <2>1 DEF Creation
  <2> QED
    BY <2>1, <2>2, StatementsEnd DEF ProjectsInv, WriteNext
<1>1. begun' = begun /\ recent' = recent /\ live' = live /\ minted' = minted
      /\ know' = know /\ given' = given /\ requests' = requests
  BY DEF WriteNext, access
<1>2. KeysOK'
  BY <1>0, <1>1 DEF KeysOK
<1>3. CASE m.done = 0 /\ stored[m.project] > 0
  <2>1. creations' = creations \ {m} /\ kind' = kind /\ stored' = stored /\ public' = public
    BY <1>3 DEF WriteNext
  <2>2. ProjectsTypeOK' /\ CreationsOK' /\ WholeIfOpen'
    BY <1>0, <1>1, <2>1 DEF ProjectsTypeOK, CreationsOK, WholeIfOpen, Whole
  <2> QED
    BY <1>2, <2>2 DEF ProjectsInv
<1>4. CASE ~(m.done = 0 /\ stored[m.project] > 0)
  <2>1. /\ creations' = (creations \ {m}) \cup {moved}
        /\ kind' = [kind EXCEPT ![p] = m.kind] /\ stored' = [stored EXCEPT ![p] = n]
        /\ public' = IF Statements(m.kind)[n] = "public" THEN public \cup {p} ELSE public
    BY <1>4 DEF WriteNext
  <2>2. /\ moved \in Creation /\ moved.done = n /\ moved.kind = m.kind /\ moved.project = p
        /\ n \in Nat /\ n > 0 /\ n <= Len(Statements(m.kind))
    BY <1>0 DEF Creation
  <2> HIDE DEF moved, n, p
  <2>3. /\ kind'[p] = m.kind /\ stored'[p] = n
        /\ \A q \in Ids \ {p} : kind'[q] = kind[q] /\ stored'[q] = stored[q]
    BY <1>0, <2>1 DEF ProjectsTypeOK
  <2>4. ProjectsTypeOK'
    <3>1. kind' \in [Ids -> Kinds] /\ stored' \in [Ids -> Nat] /\ public' \in SUBSET Ids
          /\ creations' \in SUBSET Creation
      BY <1>0, <2>1, <2>2 DEF ProjectsTypeOK
    <3> QED
      BY <1>0, <1>1, <3>1 DEF ProjectsTypeOK
  <2>5. ~Whole(p)
    <3>1. CASE m.done = 0
      <4>1. stored[p] = 0
        BY <1>0, <1>4, <3>1 DEF p, ProjectsTypeOK
      <4>2. Len(Statements(kind[p])) # 0
        BY <1>0, StatementsEnd DEF ProjectsTypeOK
      <4> QED
        BY <4>1, <4>2 DEF Whole
    <3>2. CASE m.done # 0
      <4>1. stored[p] = m.done /\ kind[p] = m.kind
        BY <1>0, <3>2 DEF CreationsOK, p
      <4> QED
        BY <1>0, <4>1 DEF Whole
    <3> QED
      BY <3>1, <3>2
  <2>6. ASSUME NEW q \in Ids, Whole(q) PROVE Whole(q)'
    <3>1. q # p
      BY <2>5, <2>6
    <3> QED
      BY <2>3, <2>6, <3>1 DEF Whole
  <2>7. ASSUME NEW k \in creations, k # m, k.done > 0 PROVE k.project # p
    <3>1. k.done \in Nat
      BY <1>0 DEF ProjectsTypeOK, Creation
    <3>2. CASE m.done = 0
      <4>1. stored[p] = 0
        BY <1>0, <1>4, <3>2 DEF p, ProjectsTypeOK
      <4> QED
        BY <1>0, <2>7, <3>1, <4>1 DEF CreationsOK
    <3>3. CASE m.done # 0
      BY <1>0, <2>7, <3>3 DEF CreationsOK, p
    <3> QED
      BY <3>2, <3>3
  <2>8. CreationsOK'
    <3>1. ASSUME NEW k \in creations', k.done > 0
          PROVE  /\ stored'[k.project] = k.done /\ kind'[k.project] = k.kind
                 /\ k.done <= Len(Statements(k.kind))
                 /\ k # moved => k \in creations /\ k # m /\ k.project # p
      <4>1. CASE k = moved
        BY <4>1, <2>2, <2>3
      <4>2. CASE k # moved
        <5>1. k \in creations /\ k # m
          BY <2>1, <4>2
        <5>2. k.project # p /\ k.project \in Ids
          BY <1>0, <2>7, <3>1, <5>1 DEF ProjectsTypeOK, Creation
        <5> QED
          BY <1>0, <2>3, <3>1, <5>1, <5>2 DEF CreationsOK
      <4> QED
        BY <4>1, <4>2
    <3>2. ASSUME NEW j \in creations', NEW k \in creations', j.done > 0, k.done > 0, j.project = k.project
          PROVE  j = k
      <4>1. CASE j = moved /\ k = moved
        BY <4>1
      <4>2. CASE j = moved /\ k # moved
        BY <2>2, <3>1, <3>2, <4>2
      <4>3. CASE j # moved /\ k = moved
        BY <2>2, <3>1, <3>2, <4>3
      <4>4. CASE j # moved /\ k # moved
        BY <1>0, <3>1, <3>2, <4>4 DEF CreationsOK
      <4> QED
        BY <4>1, <4>2, <4>3, <4>4
    <3> QED
      BY <3>1, <3>2 DEF CreationsOK
  <2>9. WholeIfOpen'
    <3>1. ASSUME NEW q \in public' PROVE Whole(q)'
      <4>1. CASE q \in public
        BY <1>0, <2>6, <4>1 DEF WholeIfOpen, ProjectsTypeOK
      <4>2. CASE q \notin public
        <5>1. q = p /\ Statements(m.kind)[n] = "public"
          BY <2>1, <4>2
        <5>2. n = Len(Statements(m.kind))
          BY <1>0, <2>2, <5>1, StatementsEnd
        <5> QED
          BY <2>3, <5>1, <5>2 DEF Whole
      <4> QED
        BY <4>1, <4>2
    <3>2. \A a \in People : \A cred \in know'[a] : Whole(cred.of)'
      BY <1>0, <1>1, <2>6, KeyNumbers DEF WholeIfOpen, ProjectsTypeOK
    <3>3. \A cred \in live' : Whole(cred.of)'
      BY <1>0, <1>1, <2>6, KeyNumbers DEF WholeIfOpen, ProjectsTypeOK
    <3>4. \A q \in requests' : q.shown \/ q.granted => Whole(q.on)'
      BY <1>0, <1>1, <2>6 DEF WholeIfOpen, ProjectsTypeOK, Request
    <3> QED
      BY <3>1, <3>2, <3>3, <3>4 DEF WholeIfOpen
  <2> QED
    BY <1>2, <2>4, <2>8, <2>9 DEF ProjectsInv
<1> QED
  BY <1>3, <1>4

(* Whoever asked for a project learns its token once all of it is stored.  *)
LEMMA AnswerKeeps ==
    ASSUME ProjectsInv, NEW m \in creations, AnswerCreation(m)
    PROVE  ProjectsInv'
<1> DEFINE p == m.project
<1>1. /\ m \in Creation /\ p \in Ids /\ m.by \in People /\ m.kind \in Kinds
      /\ m.done = Len(Statements(m.kind)) /\ creations' = creations \ {m}
  BY DEF ProjectsInv, ProjectsTypeOK, Creation, AnswerCreation
<1>2. Whole(p)
  <2>1. m.done > 0
    BY <1>1, StatementsEnd
  <2>2. stored[p] = m.done /\ kind[p] = m.kind
    BY <2>1 DEF ProjectsInv, CreationsOK
  <2> QED
    BY <1>1, <2>2 DEF Whole
<1>3. /\ kind' = kind /\ stored' = stored /\ public' = public /\ begun' = begun /\ recent' = recent
      /\ live' = live /\ minted' = minted /\ requests' = requests
  BY DEF AnswerCreation
<1>4. /\ know' \in [People -> SUBSET Credentials] /\ given' \in [People -> SUBSET Credentials]
      /\ \A a \in People : know[a] \subseteq know'[a] /\ know'[a] \subseteq know[a] \cup {Token(p)}
      /\ \A a \in People : know'[a] \subseteq given'[a]
  <2>1. know \in [People -> SUBSET Credentials] /\ given \in [People -> SUBSET Credentials]
        /\ Token(p) \in Credentials /\ \A a \in People : know[a] \subseteq given[a]
    BY <1>1, KeyNumbers DEF ProjectsInv, ProjectsTypeOK, KeysOK
  <2>2. CASE m.kind = "example"
    BY <2>1, <2>2 DEF AnswerCreation
  <2>3. CASE m.kind # "example"
    <3>1. /\ know' = [know EXCEPT ![m.by] = @ \cup {Token(p)}]
          /\ given' = [given EXCEPT ![m.by] = @ \cup {Token(p)}]
      BY <2>3 DEF AnswerCreation
    <3> HIDE DEF p
    <3> QED
      BY <1>1, <2>1, <3>1
  <2> QED
    BY <2>2, <2>3
<1>5. Token(p).key = 0 /\ Token(p).of = p
  BY DEF Token
<1> HIDE DEF p
<1>6. ProjectsTypeOK'
  BY <1>1, <1>3, <1>4 DEF ProjectsInv, ProjectsTypeOK
<1>7. CreationsOK'
  BY <1>1, <1>3 DEF ProjectsInv, CreationsOK
<1>8. WholeIfOpen'
  <2>1. \A q : Whole(q)' = Whole(q)
    BY <1>3 DEF Whole
  <2>2. \A a \in People : \A cred \in know'[a] : Whole(cred.of)
    BY <1>2, <1>4, <1>5 DEF ProjectsInv, WholeIfOpen
  <2> QED
    BY <1>3, <2>1, <2>2 DEF ProjectsInv, WholeIfOpen
<1>9. KeysOK'
  <2>1. \A a \in People : \A cred \in know'[a] : cred.key <= minted
    BY <1>4, <1>5 DEF ProjectsInv, ProjectsTypeOK, KeysOK
  <2>2. \A q \in requests : q.by \in People
    BY DEF ProjectsInv, ProjectsTypeOK, Request
  <2> QED
    BY <1>3, <1>4, <2>1, <2>2 DEF ProjectsInv, KeysOK
<1> QED
  BY <1>6, <1>7, <1>8, <1>9 DEF ProjectsInv

(* A creation is cut off, and time passes.                                 *)
LEMMA CutOffKeeps ==
    ASSUME ProjectsInv, (\E m \in creations : Die(m)) \/ TimePasses
    PROVE  ProjectsInv'
<1>1. /\ kind' = kind /\ stored' = stored /\ public' = public /\ begun' = begun
      /\ live' = live /\ minted' = minted /\ know' = know /\ given' = given /\ requests' = requests
      /\ creations' \subseteq creations /\ recent' \in Nat
  BY DEF Die, TimePasses, access, ProjectsInv, ProjectsTypeOK
<1>2. ProjectsTypeOK'
  BY <1>1 DEF ProjectsInv, ProjectsTypeOK
<1>3. CreationsOK'
  BY <1>1 DEF ProjectsInv, CreationsOK
<1>4. WholeIfOpen' /\ KeysOK'
  BY <1>1 DEF ProjectsInv, WholeIfOpen, Whole, KeysOK
<1> QED
  BY <1>2, <1>3, <1>4 DEF ProjectsInv

(* A request notes whether the page was public and whether the credential  *)
(* opened the project.                                                     *)
LEMMA AskKeeps ==
    ASSUME ProjectsInv, NEW a \in People, NEW op \in Ops, NEW p \in Ids,
           NEW cred \in Credentials \cup {NoCredential}, Ask(a, op, p, cred)
    PROVE  ProjectsInv'
<1> DEFINE new == [by |-> a, op |-> op, on |-> p, cred |-> cred, shown |-> op = "page" /\ p \in public,
             good |-> cred = Token(p) \/ (cred \in live /\ cred.of = p), granted |-> FALSE]
<1>1. /\ requests' = requests \cup {new}
      /\ kind' = kind /\ stored' = stored /\ public' = public /\ creations' = creations
      /\ begun' = begun /\ recent' = recent
      /\ live' = live /\ minted' = minted /\ know' = know /\ given' = given
  BY DEF Ask, made
<1>2. new \in Request
  BY DEF Request
<1>3. /\ new.by = a /\ new.op = op /\ new.on = p /\ new.cred = cred /\ new.granted = FALSE
      /\ new.shown = (op = "page" /\ p \in public)
      /\ new.good = (cred = Token(p) \/ (cred \in live /\ cred.of = p))
      /\ cred \in know[a] \/ (op = "page" /\ cred = NoCredential)
  BY DEF Ask
<1> HIDE DEF new
<1>4. ProjectsTypeOK' /\ CreationsOK'
  BY <1>1, <1>2 DEF ProjectsInv, ProjectsTypeOK, CreationsOK
<1>5. WholeIfOpen'
  <2>1. \A q : Whole(q)' = Whole(q)
    BY <1>1 DEF Whole
  <2>2. \A q \in requests' : q.shown \/ q.granted => Whole(q.on)
    BY <1>1, <1>3 DEF ProjectsInv, WholeIfOpen
  <2> QED
    BY <1>1, <2>1, <2>2 DEF ProjectsInv, WholeIfOpen
<1>6. KeysOK'
  <2>1. ASSUME NEW q \in requests'
        PROVE  /\ q.cred \in know[q.by] \/ (q.op = "page" /\ q.cred = NoCredential)
               /\ q.cred = Token(q.on) \/ (q.cred \in live /\ q.cred.of = q.on) => q.good
               /\ q.shown => q.op = "page"
               /\ q.granted => (q.good \/ q.shown) /\ (q.op \in OwnerOps => q.cred = Token(q.on))
    <3>1. CASE q = new
      BY <1>3, <3>1
    <3>2. CASE q # new
      BY <1>1, <3>2 DEF ProjectsInv, KeysOK
    <3> QED
      BY <3>1, <3>2
  <2> QED
    BY <1>1, <2>1 DEF ProjectsInv, KeysOK
<1> QED
  BY <1>4, <1>5, <1>6 DEF ProjectsInv

(* What a request is granted, its credential opens at the look-up, or the  *)
(* page was public: either way the project is whole.                       *)
LEMMA LookUpKeeps ==
    ASSUME ProjectsInv, NEW q \in requests, LookUp(q)
    PROVE  ProjectsInv'
<1> DEFINE new == [q EXCEPT !.granted = TRUE]
<1>1. /\ requests' = (requests \ {q}) \cup IF MayDo(q) THEN {new} ELSE {}
      /\ kind' = kind /\ stored' = stored /\ public' = public /\ creations' = creations
      /\ begun' = begun /\ recent' = recent
      /\ live' = live /\ minted' = minted /\ know' = know /\ given' = given
  BY DEF LookUp, made
<1>2. /\ new \in Request /\ q \in Request
      /\ new.by = q.by /\ new.op = q.op /\ new.on = q.on /\ new.cred = q.cred
      /\ new.shown = q.shown /\ new.good = q.good
  BY DEF ProjectsInv, ProjectsTypeOK, Request
<1> HIDE DEF new
<1>3. /\ q.by \in People /\ q.on \in Ids /\ q.cred \in Credentials \cup {NoCredential}
  BY <1>2 DEF Request
<1>4. ASSUME MayDo(q)
      PROVE  /\ Whole(q.on) /\ (q.good \/ q.shown)
             /\ q.op \in OwnerOps => q.cred = Token(q.on)
  <2>1. q.op \in OwnerOps => q.cred = Token(q.on)
    BY <1>4 DEF MayDo
  <2>2. CASE q.shown
    BY <2>1, <2>2 DEF ProjectsInv, WholeIfOpen
  <2>3. CASE ~q.shown
    <3>1. q.cred = Token(q.on) \/ (q.cred \in live /\ q.cred.of = q.on)
      BY <1>4, <2>3 DEF MayDo, Opens
    <3>2. q.good
      BY <3>1 DEF ProjectsInv, KeysOK
    <3>3. q.cred # NoCredential /\ q.cred.of = q.on
      BY <1>3, <3>1, KeyNumbers DEF ProjectsInv, ProjectsTypeOK, Token
    <3>4. q.cred \in know[q.by]
      BY <3>3 DEF ProjectsInv, KeysOK
    <3> QED
      BY <1>3, <2>1, <3>2, <3>3, <3>4 DEF ProjectsInv, WholeIfOpen
  <2> QED
    BY <2>2, <2>3
<1>5. \A r \in requests' : r \in requests \/ (r = new /\ MayDo(q))
  BY <1>1
<1>6. ProjectsTypeOK' /\ CreationsOK'
  <2>1. requests' \subseteq Request
    BY <1>2, <1>5 DEF ProjectsInv, ProjectsTypeOK
  <2> QED
    BY <1>1, <2>1 DEF ProjectsInv, ProjectsTypeOK, CreationsOK
<1>7. WholeIfOpen'
  <2>1. \A r : Whole(r)' = Whole(r)
    BY <1>1 DEF Whole
  <2>2. \A r \in requests' : r.shown \/ r.granted => Whole(r.on)
    BY <1>2, <1>4, <1>5 DEF ProjectsInv, WholeIfOpen
  <2> QED
    BY <1>1, <2>1, <2>2 DEF ProjectsInv, WholeIfOpen
<1>8. KeysOK'
  <2>1. ASSUME NEW r \in requests'
        PROVE  /\ r.cred \in know[r.by] \/ (r.op = "page" /\ r.cred = NoCredential)
               /\ r.cred = Token(r.on) \/ (r.cred \in live /\ r.cred.of = r.on) => r.good
               /\ r.shown => r.op = "page"
               /\ r.granted => (r.good \/ r.shown) /\ (r.op \in OwnerOps => r.cred = Token(r.on))
    <3>1. CASE r \in requests
      BY <3>1 DEF ProjectsInv, KeysOK
    <3>2. CASE r = new /\ MayDo(q)
      <4>1. /\ q.cred \in know[q.by] \/ (q.op = "page" /\ q.cred = NoCredential)
            /\ q.cred = Token(q.on) \/ (q.cred \in live /\ q.cred.of = q.on) => q.good
            /\ q.shown => q.op = "page"
        BY DEF ProjectsInv, KeysOK
      <4> QED
        BY <1>2, <1>4, <3>2, <4>1
    <3> QED
      BY <1>5, <3>1, <3>2
  <2> QED
    BY <1>1, <2>1 DEF ProjectsInv, KeysOK
<1> QED
  BY <1>6, <1>7, <1>8 DEF ProjectsInv

(* A key is minted for a project that is whole, and nobody has asked with  *)
(* it before.                                                              *)
LEMMA MintKeeps ==
    ASSUME ProjectsInv, NEW q \in requests, Mint(q)
    PROVE  ProjectsInv'
<1> DEFINE key == [of |-> q.on, key |-> minted + 1]
<1>1. /\ live' = live \cup {key} /\ minted' = minted + 1 /\ minted < MaxKeys
      /\ requests' = requests \ {q} /\ q.granted
      /\ kind' = kind /\ stored' = stored /\ public' = public /\ creations' = creations
      /\ begun' = begun /\ recent' = recent
  BY DEF Mint, Granted, CreateApiKey, made
<1>2. /\ know' = [know EXCEPT ![q.by] = @ \cup (live' \ live)]
      /\ given' = [given EXCEPT ![q.by] = @ \cup (live' \ live)]
  BY DEF Mint
<1>3. /\ q.by \in People /\ q.on \in Ids /\ minted \in Nat /\ minted <= MaxKeys
  BY KeyNumbers DEF ProjectsInv, ProjectsTypeOK, Request
<1>4. key \in Credentials /\ key.key = minted + 1 /\ key.of = q.on
  BY <1>1, <1>3, KeyNumbers DEF Credentials
<1>5. Whole(q.on)
  BY <1>1 DEF ProjectsInv, WholeIfOpen
<1> HIDE DEF key
<1>6. /\ know' \in [People -> SUBSET Credentials] /\ given' \in [People -> SUBSET Credentials]
      /\ \A a \in People : know[a] \subseteq know'[a] /\ know'[a] \subseteq know[a] \cup {key}
      /\ \A a \in People : know'[a] \subseteq given'[a]
  <2>1. know \in [People -> SUBSET Credentials] /\ given \in [People -> SUBSET Credentials]
        /\ \A a \in People : know[a] \subseteq given[a]
    BY DEF ProjectsInv, ProjectsTypeOK, KeysOK
  <2>2. live' \ live \subseteq {key}
    BY <1>1
  <2> HIDE DEF key
  <2> QED
    BY <1>2, <1>3, <1>4, <2>1, <2>2
<1>7. ProjectsTypeOK' /\ CreationsOK'
  <2>1. minted' \in 0..MaxKeys /\ live' \subseteq Credentials
    BY <1>1, <1>3, <1>4, KeyNumbers DEF ProjectsInv, ProjectsTypeOK
  <2> QED
    BY <1>1, <1>6, <2>1 DEF ProjectsInv, ProjectsTypeOK, CreationsOK
<1>8. WholeIfOpen'
  <2>1. \A r : Whole(r)' = Whole(r)
    BY <1>1 DEF Whole
  <2>2. \A a \in People : \A cred \in know'[a] : Whole(cred.of)
    BY <1>4, <1>5, <1>6 DEF ProjectsInv, WholeIfOpen
  <2>3. \A cred \in live' : Whole(cred.of)
    BY <1>1, <1>4, <1>5 DEF ProjectsInv, WholeIfOpen
  <2> QED
    BY <1>1, <2>1, <2>2, <2>3 DEF ProjectsInv, WholeIfOpen
<1>9. KeysOK'
  <2>1. \A a \in People : \A cred \in know'[a] : cred.key <= minted'
    <3>1. \A a \in People : \A cred \in know[a] : cred.key <= minted /\ cred.key \in Nat
      BY KeyNumbers DEF ProjectsInv, ProjectsTypeOK, KeysOK
    <3> QED
      BY <1>1, <1>3, <1>4, <1>6, <3>1
  <2>2. \A cred \in live' : cred.key <= minted'
    <3>1. \A cred \in live : cred.key <= minted /\ cred.key \in Nat
      BY KeyNumbers DEF ProjectsInv, ProjectsTypeOK, KeysOK
    <3> QED
      BY <1>1, <1>3, <1>4, <3>1
  <2>3. \A r \in requests : r.cred # key
    <3> SUFFICES ASSUME NEW r \in requests PROVE r.cred # key
      OBVIOUS
    <3>1. CASE r.cred = NoCredential
      BY <1>4, <3>1, KeyNumbers
    <3>2. CASE r.cred \in know[r.by]
      <4>1. r.by \in People
        BY DEF ProjectsInv, ProjectsTypeOK, Request
      <4>2. r.cred.key <= minted
        BY <3>2, <4>1 DEF ProjectsInv, KeysOK
      <4> QED
        BY <1>3, <1>4, <4>2
    <3> QED
      BY <3>1, <3>2 DEF ProjectsInv, KeysOK
  <2>4. ASSUME NEW r \in requests'
        PROVE  /\ r.cred \in know'[r.by] \/ (r.op = "page" /\ r.cred = NoCredential)
               /\ r.cred = Token(r.on) \/ (r.cred \in live' /\ r.cred.of = r.on) => r.good
               /\ r.shown => r.op = "page"
               /\ r.granted => (r.good \/ r.shown) /\ (r.op \in OwnerOps => r.cred = Token(r.on))
    <3>1. r \in requests /\ r.by \in People
      BY <1>1 DEF ProjectsInv, ProjectsTypeOK, Request
    <3>2. /\ r.cred \in know[r.by] \/ (r.op = "page" /\ r.cred = NoCredential)
          /\ r.cred = Token(r.on) \/ (r.cred \in live /\ r.cred.of = r.on) => r.good
          /\ r.shown => r.op = "page"
          /\ r.granted => (r.good \/ r.shown) /\ (r.op \in OwnerOps => r.cred = Token(r.on))
      BY <3>1 DEF ProjectsInv, KeysOK
    <3> QED
      BY <1>1, <1>6, <2>3, <3>1, <3>2
  <2> QED
    BY <1>6, <2>1, <2>2, <2>4 DEF KeysOK
<1> QED
  BY <1>7, <1>8, <1>9 DEF ProjectsInv

(* Answering the other requests makes no credential live and tells nobody  *)
(* of any; and what is made public is whole.                               *)
LEMMA OthersKeep ==
    ASSUME ProjectsInv, NEW q \in requests, Revoke(q) \/ Read(q) \/ ReadPage(q) \/ SetVisibility(q)
    PROVE  ProjectsInv'
<1>1. /\ kind' = kind /\ stored' = stored /\ creations' = creations /\ begun' = begun
      /\ recent' = recent /\ minted' = minted /\ know' = know /\ given' = given
      /\ requests' \subseteq requests /\ live' \subseteq live /\ q.granted
      /\ public' \subseteq public \cup {q.on}
  <2>1. CASE Revoke(q)
    BY <2>1 DEF Revoke, Granted, RevokeApiKey, made
  <2>2. CASE Read(q) \/ ReadPage(q)
    BY <2>2 DEF Read, ReadPage, Granted, made
  <2>3. CASE SetVisibility(q)
    BY <2>3 DEF SetVisibility, Granted
  <2> QED
    BY <2>1, <2>2, <2>3
<1>2. q.on \in Ids /\ Whole(q.on)
  BY <1>1 DEF ProjectsInv, ProjectsTypeOK, Request, WholeIfOpen
<1>3. ProjectsTypeOK'
  BY <1>1, <1>2 DEF ProjectsInv, ProjectsTypeOK
<1>4. CreationsOK'
  BY <1>1 DEF ProjectsInv, CreationsOK
<1>5. WholeIfOpen'
  <2>1. \A r : Whole(r)' = Whole(r)
    BY <1>1 DEF Whole
  <2> QED
    BY <1>1, <1>2, <2>1 DEF ProjectsInv, WholeIfOpen
<1>6. KeysOK'
  BY <1>1 DEF ProjectsInv, KeysOK
<1> QED
  BY <1>3, <1>4, <1>5, <1>6 DEF ProjectsInv

(* An owner hands somebody a key the owner has.                            *)
LEMMA HandKeeps ==
    ASSUME ProjectsInv, NEW a \in People, NEW b \in People, NEW cred \in Credentials, Hand(a, b, cred)
    PROVE  ProjectsInv'
<1>1. /\ kind' = kind /\ stored' = stored /\ public' = public /\ creations' = creations
      /\ begun' = begun /\ recent' = recent /\ live' = live /\ minted' = minted
      /\ requests' = requests /\ cred \in know[a]
      /\ know' = [know EXCEPT ![b] = @ \cup {cred}] /\ given' = [given EXCEPT ![b] = @ \cup {cred}]
  BY DEF Hand, made
<1>2. /\ know' \in [People -> SUBSET Credentials] /\ given' \in [People -> SUBSET Credentials]
      /\ \A c \in People : know[c] \subseteq know'[c] /\ know'[c] \subseteq know[c] \cup know[a]
      /\ \A c \in People : know'[c] \subseteq given'[c]
  <2>1. know \in [People -> SUBSET Credentials] /\ given \in [People -> SUBSET Credentials]
        /\ \A c \in People : know[c] \subseteq given[c]
    BY DEF ProjectsInv, ProjectsTypeOK, KeysOK
  <2> QED
    BY <1>1, <2>1
<1>3. ProjectsTypeOK' /\ CreationsOK'
  BY <1>1, <1>2 DEF ProjectsInv, ProjectsTypeOK, CreationsOK
<1>4. WholeIfOpen'
  <2>1. \A r : Whole(r)' = Whole(r)
    BY <1>1 DEF Whole
  <2>2. \A c \in People : \A k \in know'[c] : Whole(k.of)
    BY <1>2 DEF ProjectsInv, WholeIfOpen
  <2> QED
    BY <1>1, <2>1, <2>2 DEF ProjectsInv, WholeIfOpen
<1>5. KeysOK'
  <2>1. \A c \in People : \A k \in know'[c] : k.key <= minted
    BY <1>2 DEF ProjectsInv, KeysOK
  <2>2. \A r \in requests : r.by \in People
    BY DEF ProjectsInv, ProjectsTypeOK, Request
  <2>3. \A r \in requests : r.cred \in know'[r.by] \/ (r.op = "page" /\ r.cred = NoCredential)
    BY <1>2, <2>2 DEF ProjectsInv, KeysOK
  <2> QED
    BY <1>1, <1>2, <2>1, <2>3 DEF ProjectsInv, KeysOK
<1> QED
  BY <1>3, <1>4, <1>5 DEF ProjectsInv

(* A creation, a demo or the example begins.                               *)
LEMMA CreationBegins ==
    ASSUME ProjectsInv, NEW a \in People,
           (\E p \in Ids : CreateProject(a, p) \/ SeedDemo(a, p)) \/ SeedExample(a)
    PROVE  ProjectsInv'
<1>1. recent \in Nat /\ Example \in Ids
  BY ProjectConstants DEF ProjectsInv, ProjectsTypeOK, ProjectConstants
<1>2. ASSUME NEW p \in Ids, CreateProject(a, p) PROVE ProjectsInv'
  <2>1. BeginCreation(a, "created", p) /\ recent' \in Nat /\ "created" \in Kinds
    BY <1>1, <1>2 DEF CreateProject, Kinds
  <2> QED
    BY <2>1, BeginKeeps
<1>3. ASSUME NEW p \in Ids, SeedDemo(a, p) PROVE ProjectsInv'
  <2>1. BeginCreation(a, "demo", p) /\ recent' \in Nat /\ "demo" \in Kinds
    BY <1>1, <1>3 DEF SeedDemo, Kinds
  <2> QED
    BY <2>1, BeginKeeps
<1>4. ASSUME SeedExample(a) PROVE ProjectsInv'
  <2>1. BeginCreation(a, "example", Example) /\ recent' \in Nat /\ "example" \in Kinds
    BY <1>1, <1>4 DEF SeedExample, Kinds
  <2> QED
    BY <1>1, <2>1, BeginKeeps
<1> QED
  BY <1>2, <1>3, <1>4

(* Every step keeps the invariant.                                         *)
LEMMA ProjectsStep == ProjectsInv /\ [ProjectsNext]_projectsVars => ProjectsInv'
<1> SUFFICES ASSUME ProjectsInv, [ProjectsNext]_projectsVars PROVE ProjectsInv'
  OBVIOUS
<1>1. CASE UNCHANGED projectsVars
  BY <1>1 DEF projectsVars, made, access, ProjectsInv, ProjectsTypeOK, CreationsOK, WholeIfOpen, Whole, KeysOK
<1>2. CASE \E a \in People : (\E p \in Ids : CreateProject(a, p) \/ SeedDemo(a, p)) \/ SeedExample(a)
  BY <1>2, CreationBegins
<1>3. CASE \E m \in creations : WriteNext(m)
  BY <1>3, WriteKeeps
<1>4. CASE \E m \in creations : AnswerCreation(m)
  BY <1>4, AnswerKeeps
<1>5. CASE (\E m \in creations : Die(m)) \/ TimePasses
  BY <1>5, CutOffKeeps
<1>6. CASE \E a \in People, op \in Ops, p \in Ids, cred \in Credentials \cup {NoCredential} : Ask(a, op, p, cred)
  BY <1>6, AskKeeps
<1>7. CASE \E q \in requests : LookUp(q)
  BY <1>7, LookUpKeeps
<1>8. CASE \E q \in requests : Mint(q)
  BY <1>8, MintKeeps
<1>9. CASE \E q \in requests : Revoke(q) \/ Read(q) \/ ReadPage(q) \/ SetVisibility(q)
  BY <1>9, OthersKeep
<1>10. CASE \E a, b \in People, cred \in Credentials : Hand(a, b, cred)
  BY <1>10, HandKeeps
<1> QED
  BY <1>1, <1>2, <1>3, <1>4, <1>5, <1>6, <1>7, <1>8, <1>9, <1>10 DEF ProjectsNext

(* The invariant holds always, however many statements a creation has.     *)
THEOREM ProjectsInvariance == ProjectsSpec => []ProjectsInv
<1> QED
  BY InitProjects, ProjectsStep, PTL DEF ProjectsSpec

(* Whatever project anybody can open or see is whole, though any creation  *)
(* may be cut off between two statements, and two of the example may race. *)
THEOREM OpenedWhole == ProjectsSpec => []OpenedIsWhole
<1>1. ProjectsInv => OpenedIsWhole
  <2> SUFFICES ASSUME ProjectsInv, NEW p \in Ids,
                      p \in public \/ \E a \in People : Token(p) \in know[a]
               PROVE  Whole(p)
    BY DEF OpenedIsWhole, Whole
  <2>1. Token(p).of = p
    BY DEF Token
  <2> QED
    BY <2>1 DEF ProjectsInv, WholeIfOpen
<1> QED
  BY <1>1, ProjectsInvariance, PTL

(* People have only the credentials they made or were handed, and what is  *)
(* about to be done for somebody is done on one that opened the project    *)
(* when the request came in, or to see a page that was public then.        *)
THEOREM GuestsKeep == ProjectsSpec => []GuestsKeepToTheirKeys
<1>1. ProjectsInv => GuestsKeepToTheirKeys
  <2> SUFFICES ASSUME ProjectsInv PROVE GuestsKeepToTheirKeys
    OBVIOUS
  <2>1. \A a \in People : know[a] \subseteq given[a]
    BY DEF ProjectsInv, KeysOK
  <2>2. ASSUME NEW q \in requests, q.granted
        PROVE  (q.good \/ q.shown) /\ (q.op \in OwnerOps => Token(q.on) \in given[q.by])
    <3>1. (q.good \/ q.shown) /\ (q.op \in OwnerOps => q.cred = Token(q.on))
      BY <2>2 DEF ProjectsInv, KeysOK
    <3>2. ASSUME q.op \in OwnerOps PROVE q.cred \in know[q.by]
      BY <3>2 DEF ProjectsInv, KeysOK, OwnerOps
    <3>3. q.by \in People
      BY DEF ProjectsInv, ProjectsTypeOK, Request
    <3> QED
      BY <2>1, <3>1, <3>2, <3>3
  <2> QED
    BY <2>1, <2>2 DEF GuestsKeepToTheirKeys
<1> QED
  BY <1>1, ProjectsInvariance, PTL

=============================================================================
