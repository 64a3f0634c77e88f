------------------------- MODULE ClosedRoundsProofs -------------------------
(***************************************************************************)
(* What ClosedRounds promises for every panel, case set, standard and      *)
(* number of runs, with any number of passes and reweightings under way.   *)
(***************************************************************************)
EXTENDS ClosedRounds, SumLemmas

(* Tables of votes stay tables when one vote is replaced or one seat goes. *)
LEMMA OneVoteReplaced ==
    ASSUME NEW V \in Tables, NEW s \in DOMAIN V, NEW vote \in Vote
    PROVE  /\ [V EXCEPT ![s] = vote] \in Tables
           /\ DOMAIN [V EXCEPT ![s] = vote] = DOMAIN V
           /\ \A t \in DOMAIN V : [V EXCEPT ![s] = vote][t] = IF t = s THEN vote ELSE V[t]
BY DEF Tables

(* A table of votes from which one seat is deleted is one.                 *)
LEMMA OneSeatGone ==
    ASSUME NEW V \in Tables, NEW s
    PROVE  [t \in DOMAIN V \ {s} |-> V[t]] \in Tables
<1>1. PICK S \in SUBSET Seats : V \in [S -> Vote]
    BY DEF Tables
<1>2. [t \in S \ {s} |-> V[t]] \in [S \ {s} -> Vote] /\ S \ {s} \in SUBSET Seats /\ DOMAIN V = S
    BY <1>1
<1> QED
    BY <1>2 DEF Tables

(* The votes a round closes with make a table, and all of them are stable. *)
LEMMA FreshTable ==
    ASSUME NEW S \in SUBSET Seats, NEW V \in [S -> {vote \in Vote : vote.stable}]
    PROVE  V \in Tables /\ DOMAIN V = S /\ \A s \in S : V[s].stable
<1>1. V \in [S -> Vote]
    OBVIOUS
<1> QED
    BY <1>1 DEF Tables

(* The seats of a table, its real votes and the verdicts they give are     *)
(* finite sets.                                                            *)
LEMMA TableFacts ==
    ASSUME NEW V \in Tables
    PROVE  /\ DOMAIN V \in SUBSET Seats /\ IsFiniteSet(DOMAIN V)
           /\ \A s \in DOMAIN V : V[s] \in Vote /\ V[s].verdict \in Words /\ V[s].stable \in BOOLEAN
           /\ Real(V) \in SUBSET DOMAIN V /\ IsFiniteSet(Real(V))
           /\ Given(V) \in SUBSET Scale /\ IsFiniteSet(Given(V))
<1>1. PICK S \in SUBSET Seats : V \in [S -> Vote]
    BY DEF Tables
<1>2. DOMAIN V = S /\ \A s \in S : V[s] \in Vote
    BY <1>1
<1>3. \A vote \in Vote : vote.verdict \in Words /\ vote.stable \in BOOLEAN
    BY DEF Vote, Words
<1>4. Real(V) \in SUBSET S /\ IsFiniteSet(S)
    BY <1>2, RunConstants, FS_Subset DEF Real
<1>5. Given(V) \in SUBSET Scale
    BY <1>2, <1>3 DEF Real, Given, Words
<1> QED
    BY <1>2, <1>3, <1>4, <1>5, ReadingConstants, FS_Subset

-----------------------------------------------------------------------------
(* Type correctness: in particular no seat is ever silenced.               *)

LEMMA AgreedPositive ==
    ASSUME NEW agree \in Nat, NEW total \in Nat, total # 0
    PROVE  Agreed(agree, total) \in Nat \ {0}
<1>1. 200 * agree + total \in Nat /\ 2 * total \in Nat /\ 2 * total > 0
    OBVIOUS
<1>2. ASSUME NEW n \in Nat, NEW d \in Nat, d > 0 PROVE n \div d \in Int
    BY <1>2
<1>3. Rounded(agree, total) \in Int
    BY <1>1, <1>2 DEF Rounded
<1> QED
    BY <1>3 DEF Agreed

(* What people start stays within its bound.                               *)
LEMMA WorkType ==
    ASSUME work \in 0..MaxWork, NEW n \in Nat, Works(n)
    PROVE  work' \in 0..MaxWork
<1>1. MaxWork \in Nat
    BY RunConstants
<1> QED
    BY <1>1 DEF Works

(* A project that has no run has the types.                                *)
LEMMA InitType == Init => TypeOK
<1> SUFFICES ASSUME Init PROVE TypeOK
    OBVIOUS
<1>1. NoVotes \in Tables
    BY DEF NoVotes, Tables
<1>2. words \in [Runs -> [Cases -> Seq(Sayings)]]
    BY DEF Init
<1> QED
    BY <1>1, <1>2, RunConstants DEF Init, TypeOK

(* Opening, flagging and closing a run keep the types.                     *)
LEMMA RunType ==
    ASSUME TypeOK, NEW r \in Runs, OpenRun(r) \/ CloseRun(r) \/ PassBegins(r)
    PROVE  TypeOK'
<1> USE DEF TypeOK
<1>1. CASE OpenRun(r)
    <2>1. work' \in 0..MaxWork
        BY <1>1, WorkType DEF OpenRun, CreateRun
    <2> QED
        BY <1>1, <2>1 DEF OpenRun, CreateRun
<1>2. CASE CloseRun(r)
    <2>1. PICK given \in [Cases -> [seated -> {vote \in Vote : vote.stable}]] :
            /\ votes' = [votes EXCEPT ![r] = given]
            /\ settled' = [settled EXCEPT ![r] = [c \in Cases |->
                 IF Cardinality(Given(given[c])) = 1 THEN CHOOSE v \in Given(given[c]) : TRUE
                                                     ELSE NoVerdict]]
        BY <1>2 DEF CloseRun
    <2>2. given \in [Cases -> Tables]
        BY <2>1, FreshTable
    <2>3. \A c \in Cases : Cardinality(Given(given[c])) = 1
            => (CHOOSE v \in Given(given[c]) : TRUE) \in Scale
        <3> SUFFICES ASSUME NEW c \in Cases, Cardinality(Given(given[c])) = 1
                     PROVE  (CHOOSE v \in Given(given[c]) : TRUE) \in Scale
            OBVIOUS
        <3>1. given[c] \in Tables
            BY <2>2
        <3>2. Given(given[c]) \in SUBSET Scale /\ IsFiniteSet(Given(given[c]))
            BY <3>1, TableFacts
        <3>3. \E v : v \in Given(given[c])
            BY <3>2, FS_Singleton
        <3> QED
            BY <3>2, <3>3
    <2>4. votes' \in [Runs -> [Cases -> Tables]]
        BY <2>1, <2>2
    <2>5. settled' \in [Runs -> [Cases -> Scale \cup {NoVerdict}]]
        BY <2>1, <2>3
    <2> QED
        BY <1>2, <2>4, <2>5 DEF CloseRun
<1>3. CASE PassBegins(r)
    <2>1. work' \in 0..MaxWork
        BY <1>3, WorkType DEF PassBegins
    <2> QED
        BY <1>3, <2>1 DEF PassBegins
<1> QED
    BY <1>1, <1>2, <1>3

(* So does an answer to a question that a stability pass asks,             *)
LEMMA PassAsksType ==
    ASSUME TypeOK, NEW q \in todo, PassAsks(q)
    PROVE  /\ TypeOK'
           /\ votes' # votes =>
                /\ q.seat \in DOMAIN votes[q.run][q.case]
                /\ \E vote \in Vote : votes' = [votes EXCEPT ![q.run][q.case][q.seat] = vote]
<1> USE DEF TypeOK
<1>1. q.run \in Runs /\ q.case \in Cases /\ q.seat \in Seats
    BY DEF Questions
<1>2. votes' # votes =>
                /\ q.seat \in DOMAIN votes[q.run][q.case]
                /\ \E vote \in Vote : votes' = [votes EXCEPT ![q.run][q.case][q.seat] = vote]
    BY DEF PassAsks, SetGradeStability, Rechecked
<1>3. votes' \in [Runs -> [Cases -> Tables]]
    <2>1. CASE votes' = votes
        BY <2>1
    <2>2. CASE votes' # votes
        <3>1. PICK vote \in Vote : votes' = [votes EXCEPT ![q.run][q.case][q.seat] = vote]
            BY <1>2, <2>2
        <3>2. [votes[q.run][q.case] EXCEPT ![q.seat] = vote] \in Tables
            BY <1>1, <1>2, <2>2, OneVoteReplaced
        <3> QED
            BY <1>1, <3>1, <3>2
    <2> QED
        BY <2>1, <2>2
<1> QED
    BY <1>2, <1>3 DEF PassAsks, SetGradeStability

(* a word of a person,                                                     *)
LEMMA PersonType ==
    ASSUME TypeOK, NEW r \in Runs, NEW c \in Cases, NEW who \in People, NEW v \in Scale,
           PersonSays(r, c, who, v)
    PROVE  TypeOK'
<1> DEFINE W == words[r][c]
           said == {i \in DOMAIN W : W[i].who = who}
           next == IF said = {} THEN Append(W, [who |-> who, verdict |-> v])
                   ELSE [i \in DOMAIN W |-> IF i \in said THEN [W[i] EXCEPT !.verdict = v] ELSE W[i]]
<1>1. W \in Seq(Sayings)
    BY DEF TypeOK
<1>2. next \in Seq(Sayings)
    <2>1. CASE said = {}
        BY <1>1, <2>1 DEF Sayings
    <2>2. CASE said # {}
        <3>1. DOMAIN W = 1..Len(W) /\ Len(W) \in Nat /\ \A i \in DOMAIN W : W[i] \in Sayings
            <4> HIDE DEF W
            <4> QED
                BY <1>1
        <3>2. \A i \in DOMAIN W : [W[i] EXCEPT !.verdict = v] \in Sayings
            BY <3>1 DEF Sayings
        <3>3. next \in [1..Len(W) -> Sayings]
            BY <2>2, <3>1, <3>2
        <3> HIDE DEF W, next
        <3> QED
            BY <3>1, <3>3
    <2> QED
        BY <2>1, <2>2
<1>3. words' = [words EXCEPT ![r][c] = next]
    BY DEF PersonSays, TypeOK
<1>4. words' \in [Runs -> [Cases -> Seq(Sayings)]]
    BY <1>2, <1>3 DEF TypeOK
<1>5. work' \in 0..MaxWork
    BY WorkType DEF PersonSays, TypeOK
<1> QED
    BY <1>4, <1>5 DEF TypeOK, PersonSays

(* a reading of the alignment,                                             *)
LEMMA ReadAlignmentType ==
    ASSUME TypeOK, NEW r \in Runs, ReadAlignment(r)
    PROVE  TypeOK'
<1> DEFINE checked == {c \in Judged(r) : Unanimous(votes[r][c])}
           false == {c \in checked : FalseSettle(votes[r][c], Word(r, c))}
<1>1. rate' = [rate EXCEPT ![r] = IF checked = {} THEN <<>>
                                  ELSE <<Cardinality(false), Cardinality(checked)>>]
    BY DEF ReadAlignment
<1>2. IsFiniteSet(checked) /\ IsFiniteSet(false)
    BY RunConstants, FS_Subset DEF Judged
<1>3. Cardinality(checked) \in Nat /\ Cardinality(false) \in Nat
    BY <1>2, FS_CardinalityType
<1>4. rate' \in [Runs -> {<<>>} \cup (Nat \X Nat)]
    BY <1>1, <1>3 DEF TypeOK
<1>5. work' \in 0..MaxWork
    BY WorkType DEF ReadAlignment, TypeOK
<1> QED
    BY <1>4, <1>5 DEF TypeOK, ReadAlignment

(* a reweighting and each weight it writes,                                *)
LEMMA ReweightType ==
    ASSUME TypeOK, NEW r \in Runs, Reweight(r)
    PROVE  TypeOK'
<1> DEFINE heard(s) == {c \in Judged(r) : s \in DOMAIN votes[r][c]}
           agree(s) == {c \in heard(s) : votes[r][c][s].verdict = Word(r, c)}
           fit(s) == Agreed(Cardinality(agree(s)), Cardinality(heard(s)))
           due == {t \in seated : heard(t) # {} /\ fit(t) # weight[t]}
<1>1. writes' = writes \cup {<<s, fit(s)>> : s \in due}
    BY DEF Reweight
<1>2. ASSUME NEW s \in due PROVE fit(s) \in Nat \ {0}
    <2>1. IsFiniteSet(heard(s)) /\ IsFiniteSet(agree(s))
        BY RunConstants, FS_Subset DEF Judged
    <2>2. Cardinality(heard(s)) \in Nat /\ Cardinality(agree(s)) \in Nat /\ Cardinality(heard(s)) # 0
        BY <1>2, <2>1, FS_CardinalityType, FS_EmptySet
    <2> QED
        BY <2>2, AgreedPositive
<1>3. writes' \subseteq Seats \X (Nat \ {0})
    <2> HIDE DEF fit
    <2> QED
        BY <1>1, <1>2 DEF TypeOK
<1>4. work' \in 0..MaxWork
    BY WorkType DEF Reweight, TypeOK
<1> QED
    BY <1>3, <1>4 DEF TypeOK, Reweight

(* and a seat deleted.                                                     *)
LEMMA SeatType ==
    ASSUME TypeOK, NEW s \in Seats, DeleteSeat(s) \/ \E r \in Runs : FlagSeat(r, s)
    PROVE  TypeOK'
<1> USE DEF TypeOK
<1>1. CASE DeleteSeat(s)
    <2>1. votes' \in [Runs -> [Cases -> Tables]]
        BY <1>1, OneSeatGone DEF DeleteSeat
    <2> QED
        <3>1. work' \in 0..MaxWork
            BY <1>1, WorkType DEF DeleteSeat
        <3> QED
            BY <1>1, <2>1, <3>1 DEF DeleteSeat
<1>2. ASSUME NEW r \in Runs, FlagSeat(r, s) PROVE TypeOK'
    <2>1. work' \in 0..MaxWork
        BY <1>2, WorkType DEF FlagSeat
    <2>2. <<s, 50>> \in Seats \X (Nat \ {0})
        OBVIOUS
    <2>3. writes' \subseteq Seats \X (Nat \ {0})
        BY <1>2, <2>2 DEF FlagSeat
    <2> QED
        BY <1>2, <2>1, <2>3 DEF FlagSeat
<1> QED
    BY <1>1, <1>2

(* The types are inductive.                                                *)
LEMMA NextType == TypeOK /\ [Next]_vars => TypeOK'
<1> SUFFICES ASSUME TypeOK, [Next]_vars PROVE TypeOK'
    OBVIOUS
<1>1. CASE UNCHANGED vars
    BY <1>1 DEF vars, TypeOK
<1>2. ASSUME NEW r \in Runs,
             OpenRun(r) \/ CloseRun(r) \/ PassBegins(r) \/ ReadAlignment(r) \/ Reweight(r)
      PROVE  TypeOK'
    BY <1>2, RunType, ReadAlignmentType, ReweightType
<1>3. ASSUME NEW r \in Runs, NEW c \in Cases, NEW who \in People, NEW v \in Scale, PersonSays(r, c, who, v)
      PROVE  TypeOK'
    BY <1>3, PersonType
<1>4. ASSUME NEW q \in todo, PassAsks(q) PROVE TypeOK'
    BY <1>4, PassAsksType
<1>5. ASSUME NEW w \in writes, WriteWeight(w) PROVE TypeOK'
    BY <1>5 DEF WriteWeight, TypeOK
<1>6. ASSUME NEW s \in Seats, DeleteSeat(s) \/ \E r \in Runs : FlagSeat(r, s) PROVE TypeOK'
    BY <1>6, SeatType
<1> QED
    BY <1>1, <1>2, <1>3, <1>4, <1>5, <1>6 DEF Next

(* Every state has its types; a seat's weight is never nothing.            *)
THEOREM TypeCorrect == Spec => []TypeOK
<1>1. Init => TypeOK
    BY InitType
<1>2. TypeOK /\ [Next]_vars => TypeOK'
    BY NextType
<1> QED
    BY <1>1, <1>2, PTL DEF Spec

-----------------------------------------------------------------------------
(* The two readers.  With no seat silenced the ensemble counts the stable  *)
(* votes, neither more nor fewer.                                          *)

LEMMA CountedAreStable ==
    ASSUME NEW V \in Tables, NEW w \in [Seats -> Nat \ {0}]
    PROVE  /\ Counted(V, w) = Real(StableVotes(V))
           /\ Given(StableVotes(V)) = {V[s].verdict : s \in Counted(V, w)}
           /\ StableVotes(V) \in Tables
<1>1. DOMAIN V \in SUBSET Seats /\ \A s \in DOMAIN V : V[s] \in Vote
    BY TableFacts
<1>2. DOMAIN StableVotes(V) = {t \in DOMAIN V : V[t].stable}
      /\ \A s \in DOMAIN StableVotes(V) : StableVotes(V)[s] = V[s]
    BY DEF StableVotes
<1>3. \A s \in Seats : w[s] > 0
    OBVIOUS
<1>4. Counted(V, w) = Real(StableVotes(V))
    BY <1>1, <1>2, <1>3 DEF Counted, Real
<1>5. Given(StableVotes(V)) = {V[s].verdict : s \in Counted(V, w)}
    BY <1>2, <1>4 DEF Given, Real
<1>6. StableVotes(V) \in Tables
    <2>1. {t \in DOMAIN V : V[t].stable} \in SUBSET Seats
        BY <1>1
    <2>2. StableVotes(V) \in [{t \in DOMAIN V : V[t].stable} -> Vote]
        BY <1>1 DEF StableVotes
    <2> QED
        BY <2>1, <2>2 DEF Tables
<1> QED
    BY <1>4, <1>5, <1>6

(* Where the stable votes say one thing, two of them at least, that is     *)
(* what the ensemble says.                                                 *)
LEMMA OneWord ==
    ASSUME NEW V \in Tables, NEW w \in [Seats -> Nat \ {0}], NEW v,
           Cardinality(Real(StableVotes(V))) >= 2, Given(StableVotes(V)) = {v}
    PROVE  Ensemble(V, w) = v
<1> DEFINE given == {V[s].verdict : s \in Counted(V, w)}
           beats(a, b) == \/ Behind(V, w, a) > Behind(V, w, b)
                          \/ /\ Behind(V, w, a) = Behind(V, w, b)
                             /\ Rank[a] < Rank[b]
<1>1. given = {v}
    BY CountedAreStable
<1>2. Cardinality(Counted(V, w)) \in Nat /\ ~(Cardinality(Counted(V, w)) < 2)
    <2>1. Counted(V, w) = Real(StableVotes(V)) /\ StableVotes(V) \in Tables
        BY CountedAreStable
    <2>2. IsFiniteSet(Real(StableVotes(V)))
        BY <2>1, TableFacts
    <2> QED
        BY <2>1, <2>2, FS_CardinalityType
<1>3. Ensemble(V, w) = CHOOSE a \in given : \A b \in given \ {a} : beats(a, b)
    BY <1>2 DEF Ensemble
<1>4. \A a \in given : a = v /\ given \ {a} = {}
    BY <1>1
<1> HIDE DEF given, beats
<1>5. (CHOOSE a \in given : \A b \in given \ {a} : beats(a, b)) = v
    BY <1>1, <1>4
<1> QED
    BY <1>3, <1>5

(* Whatever has the types is read alike by the pattern and by the          *)
(* ensemble.                                                               *)
LEMMA TypeAgrees == TypeOK => ReadersAgree
<1> SUFFICES ASSUME TypeOK, NEW r \in Runs, NEW c \in Cases
             PROVE  /\ PatternOf(r, c) = "ungraded" => VerdictOf(r, c) = NoVerdict
                    /\ SaysOneThing(PatternOf(r, c))
                         => VerdictOf(r, c) \in Given(StableVotes(votes[r][c]))
    BY DEF ReadersAgree
<1> DEFINE V == votes[r][c]
<1>1. V \in Tables /\ weight \in [Seats -> Nat \ {0}]
    BY DEF TypeOK
<1> HIDE DEF V
<1>2. StableVotes(V) \in Tables /\ Counted(V, weight) = Real(StableVotes(V))
    BY <1>1, CountedAreStable
<1>3. Cardinality(Real(StableVotes(V))) \in Nat /\ IsFiniteSet(Given(StableVotes(V)))
    BY <1>2, TableFacts, FS_CardinalityType
<1>4. ASSUME Pattern(StableVotes(V)) = "ungraded" PROVE Ensemble(V, weight) = NoVerdict
    <2>1. Cardinality(Real(StableVotes(V))) < 2
        BY <1>4 DEF Pattern
    <2> QED
        BY <1>2, <2>1 DEF Ensemble
<1>5. ASSUME SaysOneThing(Pattern(StableVotes(V))) PROVE Ensemble(V, weight) \in Given(StableVotes(V))
    <2>1. Cardinality(Real(StableVotes(V))) >= 2 /\ Cardinality(Given(StableVotes(V))) = 1
        BY <1>3, <1>5 DEF Pattern, SaysOneThing
    <2>2. PICK v : Given(StableVotes(V)) = {v}
        BY <1>3, <2>1, FS_Singleton
    <2> QED
        BY <1>1, <2>1, <2>2, OneWord
<1> QED
    BY <1>4, <1>5 DEF V, PatternOf, VerdictOf

(* The pattern and the verdict of a case never contradict each other.      *)
THEOREM ReadersAlwaysAgree == Spec => []ReadersAgree
BY TypeCorrect, TypeAgrees, PTL

-----------------------------------------------------------------------------
(* What the seats settled stays: their words are all there is of the case, *)
(* stable, and no pass that is under way asks about it.                    *)

Kept(r, c) == settled[r][c] # NoVerdict =>
    /\ Closed(r)
    /\ \A s \in DOMAIN votes[r][c] :
         votes[r][c][s].stable /\ votes[r][c][s].verdict \in {settled[r][c], Abstain}

SettledInv ==
    /\ TypeOK
    /\ \A r \in Runs, c \in Cases : Kept(r, c)
    /\ \A q \in todo : Closed(q.run) /\ settled[q.run][q.case] = NoVerdict

(* Votes that say one thing, or abstain, are not contested.                *)
LEMMA NotContested ==
    ASSUME NEW V \in Tables, NEW v,
           \A s \in DOMAIN V : V[s].verdict \in {v, Abstain}
    PROVE  Given(V) \in SUBSET {v} /\ ~Contested(V)
<1>1. Given(V) \in SUBSET {v}
    BY DEF Given, Real
<1>2. IsFiniteSet({v}) /\ Cardinality({v}) = 1
    BY FS_Singleton
<1>3. Cardinality(Given(V)) <= 1 /\ Cardinality(Given(V)) \in Nat
    BY <1>1, <1>2, FS_Subset, FS_CardinalityType
<1> QED
    BY <1>1, <1>3 DEF Contested

(* Before any run nothing is settled.                                      *)
LEMMA InitSettled == Init => SettledInv
<1> SUFFICES ASSUME Init PROVE SettledInv
    OBVIOUS
<1>1. TypeOK
    BY InitType
<1>2. \A r \in Runs, c \in Cases : Kept(r, c)
    BY DEF Init, Kept
<1> QED
    BY <1>1, <1>2 DEF SettledInv, Init

(* A run that closes: what is settled is what every seat said.             *)
LEMMA CloseKeeps ==
    ASSUME SettledInv, NEW r \in Runs, CloseRun(r)
    PROVE  SettledInv'
<1>1. TypeOK /\ TypeOK'
    BY RunType DEF SettledInv
<1>2. PICK given \in [Cases -> [seated -> {vote \in Vote : vote.stable}]] :
        /\ votes' = [votes EXCEPT ![r] = given]
        /\ settled' = [settled EXCEPT ![r] = [c \in Cases |->
             IF Cardinality(Given(given[c])) = 1 THEN CHOOSE v \in Given(given[c]) : TRUE
                                                 ELSE NoVerdict]]
    BY DEF CloseRun
<1>3. status[r] = "open" /\ status' = [status EXCEPT ![r] = "closed"] /\ todo' = todo
    BY DEF CloseRun
<1>4. ASSUME NEW c \in Cases PROVE Kept(r, c)'
    <2>1. given[c] \in Tables /\ DOMAIN given[c] = seated /\ \A s \in seated : given[c][s].stable
        BY <1>1, FreshTable DEF TypeOK
    <2>2. votes'[r][c] = given[c] /\ Closed(r)'
        BY <1>1, <1>2, <1>3 DEF TypeOK, Closed
    <2>3. CASE Cardinality(Given(given[c])) # 1
        BY <1>1, <1>2, <2>3 DEF TypeOK, Kept
    <2>4. CASE Cardinality(Given(given[c])) = 1
        <3>1. PICK v : Given(given[c]) = {v}
            BY <2>1, <2>4, TableFacts, FS_Singleton
        <3>2. settled'[r][c] = v
            BY <1>1, <1>2, <2>4, <3>1 DEF TypeOK
        <3>3. \A s \in seated : given[c][s].verdict \in {v, Abstain}
            BY <2>1, <3>1 DEF Given, Real
        <3> QED
            BY <2>1, <2>2, <3>2, <3>3 DEF Kept
    <2> QED
        BY <2>3, <2>4
<1>5. ASSUME NEW p \in Runs, p # r, NEW c \in Cases PROVE Kept(p, c)'
    <2>1. settled'[p] = settled[p] /\ votes'[p] = votes[p] /\ status'[p] = status[p]
        BY <1>1, <1>2, <1>3, <1>5 DEF TypeOK
    <2> QED
        BY <2>1 DEF SettledInv, Kept, Closed
<1>6. ASSUME NEW q \in todo PROVE (Closed(q.run) /\ settled[q.run][q.case] = NoVerdict)'
    <2>1. q.run \in Runs /\ q.run # r
        BY <1>1, <1>3 DEF SettledInv, TypeOK, Questions, Closed
    <2>2. settled'[q.run] = settled[q.run] /\ status'[q.run] = status[q.run]
        BY <1>1, <1>2, <1>3, <2>1 DEF TypeOK
    <2> QED
        BY <2>2 DEF SettledInv, Closed
<1> QED
    BY <1>1, <1>3, <1>4, <1>5, <1>6 DEF SettledInv

(* A pass begins with contested cases only.                                *)
LEMMA PassBeginKeeps ==
    ASSUME SettledInv, NEW r \in Runs, PassBegins(r)
    PROVE  SettledInv'
<1>1. TypeOK /\ TypeOK'
    BY RunType DEF SettledInv
<1>2. \A p \in Runs, c \in Cases : Kept(p, c)'
    BY DEF SettledInv, Kept, Closed, PassBegins
<1>3. ASSUME NEW q \in todo', q \notin todo PROVE (Closed(q.run) /\ settled[q.run][q.case] = NoVerdict)'
    <2>1. q \in Questions /\ q.run = r /\ Contested(votes[r][q.case]) /\ Closed(r)
        BY <1>3 DEF PassBegins, Closed
    <2>2. q.case \in Cases /\ votes[r][q.case] \in Tables
        BY <1>1, <2>1 DEF TypeOK, Questions
    <2>3. settled[r][q.case] = NoVerdict
        BY <2>1, <2>2, NotContested DEF SettledInv, Kept
    <2> QED
        BY <2>1, <2>3 DEF PassBegins, Closed
<1>4. ASSUME NEW q \in todo PROVE (Closed(q.run) /\ settled[q.run][q.case] = NoVerdict)'
    BY DEF SettledInv, PassBegins, Closed
<1> QED
    BY <1>1, <1>2, <1>3, <1>4 DEF SettledInv

(* A pass asks about no case that is settled.                              *)
LEMMA PassAskKeeps ==
    ASSUME SettledInv, NEW q \in todo, PassAsks(q)
    PROVE  SettledInv'
<1>1. TypeOK /\ TypeOK'
    BY PassAsksType DEF SettledInv
<1>2. q.run \in Runs /\ q.case \in Cases /\ settled[q.run][q.case] = NoVerdict
    BY <1>1 DEF SettledInv, TypeOK, Questions
<1>3. settled' = settled /\ status' = status /\ todo' \subseteq todo
    BY DEF PassAsks, SetGradeStability
<1>4. ASSUME NEW p \in Runs, NEW c \in Cases, settled[p][c] # NoVerdict
      PROVE  votes'[p][c] = votes[p][c]
    <2>1. CASE votes' = votes
        BY <2>1
    <2>2. CASE votes' # votes
        <3>1. PICK vote \in Vote : votes' = [votes EXCEPT ![q.run][q.case][q.seat] = vote]
            BY <1>1, <2>2, PassAsksType
        <3>2. p # q.run \/ c # q.case
            BY <1>2, <1>4
        <3> QED
            BY <1>1, <1>2, <3>1, <3>2 DEF TypeOK
    <2> QED
        BY <2>1, <2>2
<1>5. ASSUME NEW p \in Runs, NEW c \in Cases PROVE Kept(p, c)'
    BY <1>3, <1>4 DEF SettledInv, Kept, Closed
<1>6. \A u \in todo' : (Closed(u.run) /\ settled[u.run][u.case] = NoVerdict)'
    BY <1>3 DEF SettledInv, Closed
<1> QED
    BY <1>1, <1>5, <1>6 DEF SettledInv

(* A seat that goes takes its words with it and leaves the others'.        *)
LEMMA DeleteKeeps ==
    ASSUME SettledInv, NEW s \in Seats, DeleteSeat(s)
    PROVE  SettledInv'
<1>1. TypeOK /\ TypeOK'
    BY SeatType DEF SettledInv
<1>2. settled' = settled /\ status' = status /\ todo' = todo
    BY DEF DeleteSeat
<1>3. ASSUME NEW r \in Runs, NEW c \in Cases PROVE Kept(r, c)'
    <2>1. votes'[r][c] = [t \in DOMAIN votes[r][c] \ {s} |-> votes[r][c][t]]
        BY DEF DeleteSeat
    <2> QED
        BY <1>2, <2>1 DEF SettledInv, Kept, Closed
<1> QED
    BY <1>1, <1>2, <1>3 DEF SettledInv, Closed

(* Steps that touch no vote and no question keep what is settled.          *)
LEMMA OtherKeeps ==
    ASSUME SettledInv, TypeOK', UNCHANGED <<votes, settled, todo>>,
           \A r \in Runs : Closed(r) => Closed(r)'
    PROVE  SettledInv'
<1>1. \A r \in Runs, c \in Cases : Kept(r, c)'
    BY DEF SettledInv, Kept, Closed
<1>2. \A q \in todo : q.run \in Runs
    BY DEF SettledInv, TypeOK, Questions
<1> QED
    BY <1>1, <1>2 DEF SettledInv

(* What is settled is kept by every step.                                  *)
LEMMA NextSettled == SettledInv /\ [Next]_vars => SettledInv'
<1> SUFFICES ASSUME SettledInv, [Next]_vars PROVE SettledInv'
    OBVIOUS
<1>1. TypeOK /\ TypeOK'
    BY NextType DEF SettledInv
<1>2. ASSUME UNCHANGED <<votes, settled, todo, status>> PROVE SettledInv'
    BY <1>1, <1>2, OtherKeeps DEF Closed
<1>3. CASE UNCHANGED vars
    BY <1>2, <1>3 DEF vars
<1>4. ASSUME NEW r \in Runs, OpenRun(r) PROVE SettledInv'
    <2>1. \A p \in Runs : Closed(p) => Closed(p)'
        BY <1>1, <1>4 DEF OpenRun, CreateRun, TypeOK, Closed
    <2> QED
        BY <1>1, <1>4, <2>1, OtherKeeps DEF OpenRun, CreateRun
<1>5. ASSUME NEW r \in Runs, CloseRun(r) \/ PassBegins(r) PROVE SettledInv'
    BY <1>5, CloseKeeps, PassBeginKeeps
<1>6. ASSUME NEW r \in Runs, ReadAlignment(r) \/ Reweight(r) PROVE SettledInv'
    BY <1>2, <1>6 DEF ReadAlignment, Reweight
<1>7. ASSUME NEW r \in Runs, NEW s \in Seats, FlagSeat(r, s) PROVE SettledInv'
    BY <1>2, <1>7 DEF FlagSeat
<1>8. ASSUME NEW r \in Runs, NEW c \in Cases, NEW who \in People, NEW v \in Scale, PersonSays(r, c, who, v)
      PROVE  SettledInv'
    BY <1>2, <1>8 DEF PersonSays
<1>9. ASSUME NEW q \in todo, PassAsks(q) PROVE SettledInv'
    BY <1>9, PassAskKeeps
<1>10. ASSUME NEW w \in writes, WriteWeight(w) PROVE SettledInv'
    BY <1>2, <1>10 DEF WriteWeight
<1>11. ASSUME NEW s \in Seats, DeleteSeat(s) PROVE SettledInv'
    BY <1>11, DeleteKeeps
<1> QED
    BY <1>3, <1>4, <1>5, <1>6, <1>7, <1>8, <1>9, <1>10, <1>11 DEF Next

(* It is all that the property says.                                       *)
LEMMA SettledEnough == SettledInv => SettledStays
<1> SUFFICES ASSUME SettledInv, NEW r \in Runs, NEW c \in Cases,
                    settled[r][c] # NoVerdict, Cardinality(Real(votes[r][c])) >= 2
             PROVE  /\ SaysOneThing(PatternOf(r, c)) /\ VerdictOf(r, c) = settled[r][c]
                    /\ Labels(votes[r][c], Word(r, c)) \subseteq {settled[r][c], Abstain}
    BY DEF SettledStays
<1> DEFINE V == votes[r][c]
           v == settled[r][c]
<1>1. V \in Tables /\ weight \in [Seats -> Nat \ {0}]
    BY DEF SettledInv, TypeOK
<1>2. \A s \in DOMAIN V : V[s].stable /\ V[s].verdict \in {v, Abstain}
    BY DEF SettledInv, Kept
<1> HIDE DEF V, v
<1>3. StableVotes(V) = V
    <2>1. {t \in DOMAIN V : V[t].stable} = DOMAIN V
        BY <1>2
    <2>2. V = [s \in DOMAIN V |-> V[s]]
        BY <1>1 DEF Tables
    <2> QED
        BY <2>1, <2>2 DEF StableVotes
<1>4. Cardinality(Real(V)) >= 2 /\ Cardinality(Real(V)) \in Nat
    BY <1>1, TableFacts, FS_CardinalityType DEF V
<1>5. Given(V) = {v}
    <2>1. Given(V) \in SUBSET {v}
        BY <1>1, <1>2, NotContested
    <2>2. Real(V) # {}
        BY <1>4, FS_EmptySet
    <2> QED
        BY <2>1, <2>2 DEF Given
<1>6. SaysOneThing(Pattern(StableVotes(V)))
    <2>1. Cardinality(Given(V)) = 1
        BY <1>5, FS_Singleton
    <2> QED
        BY <1>3, <1>4, <2>1 DEF Pattern, SaysOneThing
<1>7. Ensemble(V, weight) = v
    BY <1>1, <1>3, <1>4, <1>5, OneWord
<1>8. Labels(V, Word(r, c)) \subseteq {v, Abstain}
    BY <1>2 DEF Labels, Outcomes
<1> QED
    BY <1>6, <1>7, <1>8 DEF V, v, PatternOf, VerdictOf

(* What the whole panel settled is read the same by every reader, whatever *)
(* passes, reweightings and deletions follow.                              *)
THEOREM SettledForGood == Spec => []SettledStays
<1>1. Init => SettledInv
    BY InitSettled
<1>2. SettledInv /\ [Next]_vars => SettledInv'
    BY NextSettled
<1>3. SettledInv => SettledStays
    BY SettledEnough
<1> QED
    BY <1>1, <1>2, <1>3, PTL DEF Spec

-----------------------------------------------------------------------------
(* What is chosen exists: the ensemble's verdict, the best verdict of the  *)
(* scale and the people's word are words that were said.                   *)

(* What the seats that count say is on the scale, and their weights add up.*)
LEMMA CountedFacts ==
    ASSUME NEW V \in Tables, NEW w \in [Seats -> Nat \ {0}]
    PROVE  /\ IsFiniteSet(Counted(V, w)) /\ Cardinality(Counted(V, w)) \in Nat
           /\ Counted(V, w) \subseteq Real(V)
           /\ {V[s].verdict : s \in Counted(V, w)} \subseteq Given(V)
           /\ \A v : Behind(V, w, v) \in Nat
<1>1. Counted(V, w) \subseteq Real(V)
    BY DEF Counted
<1>2. IsFiniteSet(Counted(V, w)) /\ Cardinality(Counted(V, w)) \in Nat
    BY <1>1, TableFacts, FS_Subset, FS_CardinalityType
<1>3. ASSUME NEW v PROVE Behind(V, w, v) \in Nat
    <2> DEFINE S == {s \in Counted(V, w) : V[s].verdict = v}
    <2>1. IsFiniteSet(S)
        BY <1>2, FS_Subset
    <2>2. \A s \in S : w[s] \in Nat
        BY <1>1, TableFacts
    <2>3. Behind(V, w, v) = Sum(w, S)
        BY DEF Behind, Sum
    <2> HIDE DEF S
    <2> QED
        BY <2>1, <2>2, <2>3, SumIsNat
<1> QED
    BY <1>1, <1>2, <1>3 DEF Given

(* Two votes that count have a verdict, which one of them gave: the weight *)
(* behind it, and in a tie the rank, puts one verdict before the others.   *)
LEMMA VerdictIsGiven ==
    ASSUME NEW V \in Tables, NEW w \in [Seats -> Nat \ {0}]
    PROVE  IF Cardinality(Counted(V, w)) < 2 THEN Ensemble(V, w) = NoVerdict
           ELSE Ensemble(V, w) \in {V[s].verdict : s \in Counted(V, w)}
<1> DEFINE given == {V[s].verdict : s \in Counted(V, w)}
           beats(a, b) == \/ Behind(V, w, a) > Behind(V, w, b)
                          \/ /\ Behind(V, w, a) = Behind(V, w, b)
                             /\ Rank[a] < Rank[b]
           R == {pair \in given \X given : beats(pair[1], pair[2])}
<1>1. CASE Cardinality(Counted(V, w)) < 2
    BY <1>1 DEF Ensemble
<1>2. CASE ~(Cardinality(Counted(V, w)) < 2)
    <2>1. Ensemble(V, w) = CHOOSE a \in given : \A b \in given \ {a} : beats(a, b)
        BY <1>2 DEF Ensemble
    <2>2. given \subseteq Scale /\ IsFiniteSet(given)
        BY CountedFacts, TableFacts, FS_Subset
    <2>3. given # {}
        <3>1. Counted(V, w) # {}
            BY <1>2, FS_EmptySet
        <3> QED
            BY <3>1
    <2>4. \A a \in given : Behind(V, w, a) \in Nat /\ Rank[a] \in Nat
        BY <2>2, CountedFacts, ReadingConstants
    <2>5. \A a, b \in given : Rank[a] = Rank[b] => a = b
        BY <2>2, ReadingConstants
    <2> HIDE DEF given
    <2>6. \A a \in given : <<a, a>> \notin R
        BY <2>4
    <2>7. \A a, b \in given : a # b => <<a, b>> \in R \/ <<b, a>> \in R
        BY <2>4, <2>5
    <2>8. \A a, b, c \in given : <<a, b>> \in R /\ <<b, c>> \in R => <<a, c>> \in R
        BY <2>4
    <2>9. \A a, b : <<a, b>> \in R => beats(a, b)
        OBVIOUS
    <2> HIDE DEF R
    <2>10. \E a \in given : \A b \in given \ {a} : <<a, b>> \in R
        BY <2>2, <2>3, <2>6, <2>7, <2>8, FirstOfAll
    <2> HIDE DEF beats
    <2>11. \E a \in given : \A b \in given \ {a} : beats(a, b)
        BY <2>9, <2>10
    <2> QED
        BY <1>2, <2>1, <2>11 DEF given
<1> QED
    BY <1>1, <1>2

(* A case has a verdict if and only if its pattern is not "ungraded".      *)
LEMMA DecidedIsGraded ==
    ASSUME NEW V \in Tables, NEW w \in [Seats -> Nat \ {0}]
    PROVE  /\ Ensemble(V, w) \in Scale \cup {NoVerdict}
           /\ Ensemble(V, w) = NoVerdict <=> Pattern(StableVotes(V)) = "ungraded"
<1>1. Counted(V, w) = Real(StableVotes(V)) /\ {V[s].verdict : s \in Counted(V, w)} \subseteq Scale
    BY CountedAreStable, CountedFacts, TableFacts
<1>2. Pattern(StableVotes(V)) = "ungraded" <=> Cardinality(Real(StableVotes(V))) < 2
    BY DEF Pattern
<1>3. NoVerdict \notin Scale
    BY ReadingConstants
<1> QED
    BY <1>1, <1>2, <1>3, VerdictIsGiven

(* A finite set of numbers has a smallest and a largest.                   *)
LEMMA Extremes ==
    \A S \in SUBSET Nat : IsFiniteSet(S) /\ S # {} =>
        /\ Min(S) \in S /\ \A x \in S : Min(S) <= x
        /\ Max(S) \in S /\ \A x \in S : Max(S) >= x
<1>1. SUFFICES ASSUME NEW S, S \subseteq Nat, IsFiniteSet(S), S # {}
               PROVE  /\ \E x \in S : \A y \in S : x =< y
                      /\ \E x \in S : \A y \in S : x >= y
    BY DEF Min, Max
<1> DEFINE Up == {pair \in S \X S : pair[1] < pair[2]}
           Down == {pair \in S \X S : pair[1] > pair[2]}
<1>2. /\ \A u, v \in S : <<u, v>> \in Up <=> u < v
      /\ \A u, v \in S : <<u, v>> \in Down <=> u > v
    OBVIOUS
<1> HIDE DEF Up, Down
<1>3. /\ \A u \in S : <<u, u>> \notin Up /\ <<u, u>> \notin Down
      /\ \A u, v \in S : u # v => <<u, v>> \in Up \/ <<v, u>> \in Up
      /\ \A u, v \in S : u # v => <<u, v>> \in Down \/ <<v, u>> \in Down
    BY <1>1, <1>2
<1>4. /\ \A u, v, w \in S : <<u, v>> \in Up /\ <<v, w>> \in Up => <<u, w>> \in Up
      /\ \A u, v, w \in S : <<u, v>> \in Down /\ <<v, w>> \in Down => <<u, w>> \in Down
    BY <1>1, <1>2
<1>5. IsFiniteSet(S) /\ S # {}
    BY <1>1
<1>6. \E x \in S : \A y \in S : x =< y
    <2>1. PICK x \in S : \A y \in S \ {x} : <<x, y>> \in Up
        BY <1>3, <1>4, <1>5, FirstOfAll
    <2>2. \A y \in S : y # x => x < y
        BY <1>2, <2>1
    <2> QED
        BY <1>1, <2>2
<1>7. \E x \in S : \A y \in S : x >= y
    <2>1. PICK x \in S : \A y \in S \ {x} : <<x, y>> \in Down
        BY <1>3, <1>4, <1>5, FirstOfAll
    <2>2. \A y \in S : y # x => x > y
        BY <1>2, <2>1
    <2> QED
        BY <1>1, <2>2
<1> QED
    BY <1>6, <1>7

(* Where each person spoke once, the people's word is what one of them     *)
(* said: how many say it, then the owner, then who was first puts one word *)
(* before the others.                                                      *)
LEMMA WordIsSaid ==
    ASSUME NEW W \in Seq(Sayings), NEW owner, W # <<>>,
           \A i, j \in DOMAIN W : W[i].who = W[j].who => i = j
    PROVE  Consensus(W, owner) \in {W[i].verdict : i \in DOMAIN W}
<1> DEFINE said == {W[i].verdict : i \in DOMAIN W}
           owners(v) == \E i \in Sayers(W, v) : W[i].who = owner
           beats(u, v) ==
               \/ Cardinality(Sayers(W, u)) > Cardinality(Sayers(W, v))
               \/ /\ Cardinality(Sayers(W, u)) = Cardinality(Sayers(W, v))
                  /\ \/ owners(u)
                     \/ ~owners(v) /\ Min(Sayers(W, u)) < Min(Sayers(W, v))
           count == [v \in said |-> Cardinality(Sayers(W, v))]
           first == [v \in said |-> Min(Sayers(W, v))]
           mine == {v \in said : owners(v)}
           R == {pair \in said \X said :
                   /\ pair[1] # pair[2]
                   /\ \/ count[pair[1]] > count[pair[2]]
                      \/ /\ count[pair[1]] = count[pair[2]]
                         /\ \/ pair[1] \in mine
                            \/ pair[2] \notin mine /\ first[pair[1]] < first[pair[2]]}
<1>1. Consensus(W, owner) = CHOOSE v \in said : \A u \in said \ {v} : beats(v, u)
    BY DEF Consensus
<1>2. DOMAIN W = 1..Len(W) /\ Len(W) \in Nat /\ Len(W) # 0
    OBVIOUS
<1>3. IsFiniteSet(DOMAIN W) /\ DOMAIN W \subseteq Nat /\ DOMAIN W # {}
    <2>1. IsFiniteSet(1..Len(W)) /\ 1 \in 1..Len(W) /\ 1..Len(W) \subseteq Nat
        BY <1>2, FS_Interval
    <2> QED
        BY <1>2, <2>1
<1>4. IsFiniteSet(said) /\ said # {}
    <2> DEFINE f == [i \in DOMAIN W |-> W[i].verdict]
    <2>1. f \in [DOMAIN W -> said] /\ \A v \in said : \E i \in DOMAIN W : f[i] = v
        OBVIOUS
    <2>2. f \in Surjection(DOMAIN W, said)
        BY <2>1 DEF Surjection
    <2>3. IsFiniteSet(said)
        BY <1>3, <2>2, FS_Surjection
    <2> QED
        BY <1>3, <2>3
<1>5. ASSUME NEW v \in said
      PROVE  /\ Cardinality(Sayers(W, v)) \in Nat /\ Min(Sayers(W, v)) \in Sayers(W, v)
             /\ Min(Sayers(W, v)) \in Nat /\ W[Min(Sayers(W, v))].verdict = v
    <2>1. Sayers(W, v) \subseteq DOMAIN W /\ Sayers(W, v) # {}
        BY <1>5 DEF Sayers
    <2>2. IsFiniteSet(Sayers(W, v)) /\ Sayers(W, v) \in SUBSET Nat
        BY <1>3, <2>1, FS_Subset
    <2>3. Min(Sayers(W, v)) \in Sayers(W, v)
        BY <2>1, <2>2, Extremes
    <2> QED
        BY <2>2, <2>3, FS_CardinalityType DEF Sayers
<1>6. \A u, v \in said : owners(u) /\ owners(v) => u = v
    BY DEF Sayers
<1>7. /\ \A v \in said : count[v] = Cardinality(Sayers(W, v)) /\ first[v] = Min(Sayers(W, v))
      /\ \A v \in said : v \in mine <=> owners(v)
    OBVIOUS
<1> HIDE DEF said, owners, count, first, mine
<1>8. /\ \A v \in said : count[v] \in Nat /\ first[v] \in Nat
      /\ \A u, v \in said : first[u] = first[v] => u = v
      /\ \A u, v \in said : u \in mine /\ v \in mine => u = v
    BY <1>5, <1>6, <1>7
<1>9. \A u, v \in said : <<u, v>> \in R <=>
        /\ u # v
        /\ \/ count[u] > count[v]
           \/ count[u] = count[v] /\ (u \in mine \/ (v \notin mine /\ first[u] < first[v]))
    OBVIOUS
<1> HIDE DEF R
<1>10. \A v \in said : <<v, v>> \notin R
    BY <1>9
<1>11. \A u, v \in said : u # v => <<u, v>> \in R \/ <<v, u>> \in R
    BY <1>8, <1>9
<1>12. \A u, v, w \in said : <<u, v>> \in R /\ <<v, w>> \in R => <<u, w>> \in R
    BY <1>8, <1>9
<1>13. PICK v \in said : \A u \in said \ {v} : <<v, u>> \in R
    BY <1>4, <1>10, <1>11, <1>12, FirstOfAll
<1>14. \A u \in said \ {v} : beats(v, u)
    <2> SUFFICES ASSUME NEW u \in said, u # v PROVE beats(v, u)
        OBVIOUS
    <2>1. /\ v \in said /\ <<v, u>> \in R
        BY <1>13
    <2>2. \/ count[v] > count[u]
          \/ count[v] = count[u] /\ (v \in mine \/ (u \notin mine /\ first[v] < first[u]))
        BY <1>9, <2>1
    <2>3. \/ count[v] > count[u]
          \/ count[v] = count[u] /\ (owners(v) \/ (~owners(u) /\ first[v] < first[u]))
        BY <1>7, <2>1, <2>2
    <2>4. /\ count[v] = Cardinality(Sayers(W, v)) /\ first[v] = Min(Sayers(W, v))
          /\ count[u] = Cardinality(Sayers(W, u)) /\ first[u] = Min(Sayers(W, u))
        BY <1>7, <2>1
    <2> QED
        BY <2>3, <2>4
<1> HIDE DEF beats
<1>15. Consensus(W, owner) \in said
    BY <1>1, <1>14
<1> QED
    BY <1>15 DEF said

-----------------------------------------------------------------------------
(* People speak once on a case, and may change their mind.                 *)

SpokenOnce ==
    \A r \in Runs, c \in Cases : \A i, j \in DOMAIN words[r][c] :
        words[r][c][i].who = words[r][c][j].who => i = j

(* Who speaks again has their word replaced.                               *)
LEMMA SpeaksOnce ==
    ASSUME TypeOK, SpokenOnce, NEW r \in Runs, NEW c \in Cases, NEW who \in People, NEW v \in Scale,
           PersonSays(r, c, who, v)
    PROVE  SpokenOnce'
<1> DEFINE W == words[r][c]
           said == {i \in DOMAIN W : W[i].who = who}
           next == IF said = {} THEN Append(W, [who |-> who, verdict |-> v])
                   ELSE [i \in DOMAIN W |-> IF i \in said THEN [W[i] EXCEPT !.verdict = v] ELSE W[i]]
<1>1. W \in Seq(Sayings) /\ \A i, j \in DOMAIN W : W[i].who = W[j].who => i = j
    BY DEF TypeOK, SpokenOnce
<1>2. words' = [words EXCEPT ![r][c] = next]
    BY DEF PersonSays, TypeOK
<1>3. \A i, j \in DOMAIN next : next[i].who = next[j].who => i = j
    <2>1. DOMAIN W = 1..Len(W) /\ Len(W) \in Nat /\ \A i \in DOMAIN W : W[i] \in Sayings
        <3> HIDE DEF W
        <3> QED
            BY <1>1
    <2>2. CASE said = {}
        <3>1. next = Append(W, [who |-> who, verdict |-> v])
            BY <2>2
        <3>2. /\ DOMAIN next = 1..(Len(W) + 1) /\ next[Len(W) + 1].who = who
              /\ \A i \in DOMAIN W : next[i] = W[i] /\ W[i].who # who
            <4>1. \A i \in DOMAIN W : W[i].who # who
                BY <2>2
            <4> HIDE DEF W, said, next
            <4> QED
                BY <1>1, <2>1, <3>1, <4>1
        <3> HIDE DEF W, said, next
        <3> QED
            BY <1>1, <2>1, <3>2
    <2>3. CASE said # {}
        <3>1. DOMAIN next = DOMAIN W /\ \A i \in DOMAIN W : next[i].who = W[i].who
            BY <2>1, <2>3 DEF Sayings
        <3> QED
            BY <1>1, <3>1
    <2> QED
        BY <2>2, <2>3
<1> HIDE DEF next
<1> QED
    BY <1>2, <1>3 DEF SpokenOnce, TypeOK

(* Nobody has two words in a case.                                         *)
LEMMA Spoken == Spec => [](TypeOK /\ SpokenOnce)
<1>1. Init => TypeOK /\ SpokenOnce
    BY InitType DEF Init, SpokenOnce
<1>2. ASSUME TypeOK, SpokenOnce, [Next]_vars PROVE SpokenOnce'
    <2>1. ASSUME words' = words PROVE SpokenOnce'
        BY <1>2, <2>1 DEF SpokenOnce
    <2>2. CASE UNCHANGED vars
        BY <2>1, <2>2 DEF vars
    <2>3. CASE \E r \in Runs : OpenRun(r) \/ CloseRun(r) \/ PassBegins(r) \/ ReadAlignment(r) \/ Reweight(r)
        BY <2>1, <2>3 DEF OpenRun, CloseRun, PassBegins, ReadAlignment, Reweight
    <2>4. CASE \E r \in Runs, s \in Seats : FlagSeat(r, s)
        BY <2>1, <2>4 DEF FlagSeat
    <2>5. CASE \E r \in Runs, c \in Cases, who \in People, v \in Scale : PersonSays(r, c, who, v)
        BY <1>2, <2>5, SpeaksOnce
    <2>6. CASE \E q \in todo : PassAsks(q)
        BY <2>1, <2>6 DEF PassAsks
    <2>7. CASE \E w \in writes : WriteWeight(w)
        BY <2>1, <2>7 DEF WriteWeight
    <2>8. CASE \E s \in Seats : DeleteSeat(s)
        BY <2>1, <2>8 DEF DeleteSeat
    <2> QED
        BY <1>2, <2>2, <2>3, <2>4, <2>5, <2>6, <2>7, <2>8 DEF Next
<1>3. TypeOK /\ [Next]_vars => TypeOK'
    BY NextType
<1> QED
    BY <1>1, <1>2, <1>3, PTL DEF Spec

-----------------------------------------------------------------------------
(* The readers of one case.                                                *)

Patterns == {"ungraded", "settled", "blind-spot", "persona-driven", "contested"}

(* The stable votes are some of the votes, and what they say some of it.   *)
LEMMA StableAreSome ==
    ASSUME NEW V \in Tables
    PROVE  /\ StableVotes(V) \in Tables
           /\ Real(StableVotes(V)) \subseteq Real(V) /\ Given(StableVotes(V)) \subseteq Given(V)
           /\ Cardinality(Real(StableVotes(V))) \in Nat /\ Cardinality(Given(StableVotes(V))) \in Nat
           /\ Cardinality(Real(V)) \in Nat /\ Cardinality(Given(V)) \in Nat
           /\ Cardinality(Real(StableVotes(V))) <= Cardinality(Real(V))
           /\ Cardinality(Given(StableVotes(V))) <= Cardinality(Given(V))
           /\ Cardinality(Real(V)) >= 2 => Cardinality(Given(V)) >= 1
<1>1. StableVotes(V) \in Tables
    <2>1. PICK S \in SUBSET Seats : V \in [S -> Vote]
        BY DEF Tables
    <2>2. StableVotes(V) \in [{t \in S : V[t].stable} -> Vote]
        BY <2>1 DEF StableVotes
    <2> QED
        BY <2>1, <2>2 DEF Tables
<1>2. Real(StableVotes(V)) \subseteq Real(V)
    BY DEF StableVotes, Real
<1>3. Given(StableVotes(V)) \subseteq Given(V)
    BY DEF StableVotes, Real, Given
<1>4. /\ IsFiniteSet(Real(V)) /\ IsFiniteSet(Given(V))
      /\ IsFiniteSet(Real(StableVotes(V))) /\ IsFiniteSet(Given(StableVotes(V)))
    BY <1>1, TableFacts
<1>5. Cardinality(Real(V)) >= 2 => Given(V) # {}
    <2>1. Cardinality(Real(V)) >= 2 => Real(V) # {}
        BY FS_EmptySet
    <2> QED
        BY <2>1 DEF Given
<1>6. Given(V) # {} => Cardinality(Given(V)) >= 1
    <2>1. Given(V) # {} => Cardinality(Given(V)) # 0 /\ Cardinality(Given(V)) \in Nat
        BY <1>4, FS_EmptySet, FS_CardinalityType
    <2> QED
        BY <2>1
<1> QED
    BY <1>1, <1>2, <1>3, <1>4, <1>5, <1>6, FS_Subset, FS_CardinalityType

(* The patterns, by what the votes say.                                    *)
LEMMA PatternFacts ==
    ASSUME NEW V \in Tables
    PROVE  /\ Pattern(V) \in Patterns
           /\ Pattern(V) = "ungraded" <=> Cardinality(Real(V)) < 2
           /\ IsSplit(Pattern(V)) <=> Cardinality(Real(V)) >= 2 /\ Cardinality(Given(V)) # 1
           /\ SaysOneThing(Pattern(V)) <=> Cardinality(Real(V)) >= 2 /\ Cardinality(Given(V)) = 1
<1>1. Cardinality(Real(V)) \in Nat
    BY StableAreSome
<1>2. CASE Cardinality(Real(V)) < 2
    BY <1>1, <1>2 DEF Pattern, Patterns, IsSplit, SaysOneThing
<1>3. CASE Cardinality(Real(V)) >= 2 /\ Cardinality(Given(V)) = 1
    <2>1. Pattern(V) \in {"blind-spot", "settled"}
        BY <1>1, <1>3 DEF Pattern
    <2> QED
        BY <1>1, <1>3, <2>1 DEF Patterns, IsSplit, SaysOneThing
<1>4. CASE Cardinality(Real(V)) >= 2 /\ Cardinality(Given(V)) # 1
    <2>1. Pattern(V) \in {"persona-driven", "contested"}
        BY <1>1, <1>4 DEF Pattern
    <2> QED
        BY <1>1, <1>4, <2>1 DEF Patterns, IsSplit, SaysOneThing
<1> QED
    BY <1>1, <1>2, <1>3, <1>4

(* A run's cases are read from tables of votes and weights of seats.       *)
LEMMA CaseFacts ==
    ASSUME TypeOK, NEW r \in Runs, NEW c \in Cases
    PROVE  /\ votes[r][c] \in Tables /\ StableVotes(votes[r][c]) \in Tables
           /\ PatternOf(r, c) \in Patterns /\ VerdictOf(r, c) \in Scale \cup {NoVerdict}
           /\ c \in Decided(r) <=> PatternOf(r, c) # "ungraded"
<1>1. votes[r][c] \in Tables /\ weight \in [Seats -> Nat \ {0}]
    BY DEF TypeOK
<1>2. StableVotes(votes[r][c]) \in Tables
    BY <1>1, StableAreSome
<1>3. VerdictOf(r, c) \in Scale \cup {NoVerdict}
      /\ (VerdictOf(r, c) = NoVerdict <=> PatternOf(r, c) = "ungraded")
    BY <1>1, DecidedIsGraded DEF PatternOf, VerdictOf
<1> QED
    BY <1>1, <1>2, <1>3, PatternFacts DEF PatternOf, Decided

-----------------------------------------------------------------------------
(* The reports of a run add up.                                            *)

(* Coverage counts as the report does.                                     *)
LEMMA CoverageIsReport ==
    ASSUME TypeOK, NEW r \in Runs
    PROVE  Covered(r) = [graded |-> Decided(r), splits |-> Splits(r), decided |-> Decided(r)]
<1> DEFINE graded == {c \in Cases : CoverageReading(r, c).pattern # "ungraded"}
<1>1. \A c \in Cases : /\ CoverageReading(r, c).pattern = PatternOf(r, c)
                       /\ CoverageReading(r, c).verdict = VerdictOf(r, c)
    BY DEF CoverageReading
<1>2. graded = Decided(r)
    BY <1>1, CaseFacts DEF Decided
<1>3. {c \in graded : IsSplit(CoverageReading(r, c).pattern)} = Splits(r)
    BY <1>1 DEF Splits, IsSplit
<1>4. {c \in graded : CoverageReading(r, c).verdict # NoVerdict} = Decided(r)
    BY <1>1, <1>2 DEF Decided
<1> QED
    BY <1>2, <1>3, <1>4 DEF Covered

(* The map's four counts add up to the decided cases.                      *)
LEMMA CountsAddUp ==
    ASSUME TypeOK, NEW r \in Runs
    PROVE  MapCount(r, "settled") + MapCount(r, "blind-spot")
             + MapCount(r, "persona-driven") + MapCount(r, "contested") = Cardinality(Decided(r))
<1> DEFINE Of(p) == {c \in Cases : PatternOf(r, c) = p}
           A == Of("settled")
           B == Of("blind-spot")
           C == Of("persona-driven")
           D == Of("contested")
<1>1. IsFiniteSet(A) /\ IsFiniteSet(B) /\ IsFiniteSet(C) /\ IsFiniteSet(D)
    BY RunConstants, FS_Subset
<1>2. A \cap B = {} /\ (A \cup B) \cap C = {} /\ (A \cup B \cup C) \cap D = {}
    OBVIOUS
<1>3. Decided(r) = A \cup B \cup C \cup D
    <2>1. \A c \in Cases : c \in Decided(r) <=> PatternOf(r, c) \in Patterns \ {"ungraded"}
        BY CaseFacts
    <2>2. Decided(r) \subseteq Cases
        BY DEF Decided
    <2> QED
        BY <2>1, <2>2 DEF Patterns
<1>4. /\ MapCount(r, "settled") = Cardinality(A) /\ MapCount(r, "blind-spot") = Cardinality(B)
      /\ MapCount(r, "persona-driven") = Cardinality(C) /\ MapCount(r, "contested") = Cardinality(D)
    BY DEF MapCount
<1> HIDE DEF A, B, C, D
<1>5. ASSUME NEW S, NEW T, IsFiniteSet(S), IsFiniteSet(T), S \cap T = {}
      PROVE  /\ IsFiniteSet(S \cup T) /\ Cardinality(S) \in Nat /\ Cardinality(T) \in Nat
             /\ Cardinality(S \cup T) = Cardinality(S) + Cardinality(T)
    BY <1>5, FS_Union, FS_CardinalityType, FS_EmptySet
<1>6. IsFiniteSet(A \cup B) /\ Cardinality(A \cup B) = Cardinality(A) + Cardinality(B)
    BY <1>1, <1>2, <1>5
<1>7. IsFiniteSet(A \cup B \cup C) /\ Cardinality(A \cup B \cup C) = Cardinality(A \cup B) + Cardinality(C)
    BY <1>1, <1>2, <1>5, <1>6
<1>8. Cardinality(A \cup B \cup C \cup D) = Cardinality(A \cup B \cup C) + Cardinality(D)
    BY <1>1, <1>2, <1>5, <1>7
<1> QED
    BY <1>3, <1>4, <1>6, <1>7, <1>8

(* Whatever is picked of something is some of it, and not nothing.         *)
LEMMA PicksFacts ==
    ASSUME NEW from, IsFiniteSet(from), NEW n \in Nat \ {0}, NEW S \in Picks(from, n)
    PROVE  S \subseteq from /\ (from # {} => S # {})
<1>1. S \subseteq from /\ Cardinality(S) = IF Cardinality(from) < n THEN Cardinality(from) ELSE n
    BY DEF Picks
<1>2. ASSUME from # {} PROVE Cardinality(from) \in Nat /\ Cardinality(from) # 0
    BY <1>2, FS_CardinalityType, FS_EmptySet
<1>3. from # {} => Cardinality(S) # 0
    BY <1>1, <1>2
<1> QED
    BY <1>1, <1>3, FS_EmptySet

(* The ten to check are graded cases, some wherever there is a verdict.    *)
LEMMA TensAreGraded ==
    ASSUME TypeOK, NEW r \in Runs, NEW picked \in Tens(r)
    PROVE  /\ \A c \in picked : Cardinality(Real(votes[r][c])) >= 2
           /\ Decided(r) # {} => picked # {}
<1> DEFINE divided == {c \in Cases : Pattern(votes[r][c]) \in {"contested", "persona-driven"}}
           agreed == {c \in Cases : Pattern(votes[r][c]) \in {"settled"}}
           rest == {c \in Cases :
                      Pattern(votes[r][c]) \in {"blind-spot", "settled", "contested", "persona-driven"}}
           Ten == {A \cup B : A \in Picks(divided, 4), B \in Picks(agreed, 4)}
<1>1. PICK S \in Ten : picked \in {S \cup T : T \in Picks(rest \ S, 2)}
    <2>1. Tens(r) = UNION {{S \cup T : T \in Picks(rest \ S, 2)} : S \in Ten}
        BY DEF Tens
    <2> HIDE DEF Ten, divided, agreed, rest
    <2> QED
        BY <2>1
<1>2. /\ divided \subseteq Cases /\ agreed \subseteq Cases /\ rest \subseteq Cases
      /\ divided \subseteq rest /\ agreed \subseteq rest
    OBVIOUS
<1>3. \A c \in Cases : /\ votes[r][c] \in Tables /\ Cardinality(Real(votes[r][c])) \in Nat
                       /\ c \in rest <=> Cardinality(Real(votes[r][c])) >= 2
    <2> SUFFICES ASSUME NEW c \in Cases
                 PROVE  /\ votes[r][c] \in Tables /\ Cardinality(Real(votes[r][c])) \in Nat
                        /\ c \in rest <=> Cardinality(Real(votes[r][c])) >= 2
        OBVIOUS
    <2>1. votes[r][c] \in Tables
        BY CaseFacts
    <2>2. /\ Pattern(votes[r][c]) \in Patterns /\ Cardinality(Real(votes[r][c])) \in Nat
          /\ Pattern(votes[r][c]) = "ungraded" <=> Cardinality(Real(votes[r][c])) < 2
        BY <2>1, PatternFacts, StableAreSome
    <2> QED
        BY <2>1, <2>2 DEF Patterns
<1> HIDE DEF divided, agreed, rest
<1>5. PICK A, B, T : /\ A \in Picks(divided, 4) /\ B \in Picks(agreed, 4) /\ S = A \cup B
                     /\ T \in Picks(rest \ S, 2) /\ picked = S \cup T
    <2>1. \E A, B : A \in Picks(divided, 4) /\ B \in Picks(agreed, 4) /\ S = A \cup B
        OBVIOUS
    <2> DEFINE picks == Picks(rest \ S, 2)
    <2> HIDE DEF Ten
    <2>2. picked \in {S \cup T : T \in picks}
        BY <1>1
    <2> HIDE DEF picks
    <2>3. \E T : T \in picks /\ picked = S \cup T
        BY <2>2
    <2> QED
        BY <2>1, <2>3 DEF picks
<1>6. picked \subseteq rest /\ (rest # {} => picked # {})
    <2>1. /\ IsFiniteSet(divided) /\ IsFiniteSet(agreed) /\ IsFiniteSet(rest) /\ IsFiniteSet(rest \ S)
        BY <1>2, RunConstants, FS_Subset
    <2>2. A \subseteq divided /\ B \subseteq agreed
        BY <1>5, <2>1, PicksFacts
    <2>3. T \subseteq rest \ S /\ (rest \ S # {} => T # {})
        BY <1>5, <2>1, PicksFacts
    <2> QED
        BY <1>2, <1>5, <2>2, <2>3
<1>7. \A c \in picked : Cardinality(Real(votes[r][c])) >= 2
    <2>1. picked \subseteq rest
        BY <1>6
    <2> SUFFICES ASSUME NEW c \in picked PROVE Cardinality(Real(votes[r][c])) >= 2
        OBVIOUS
    <2>2. c \in rest
        BY <2>1
    <2>3. c \in Cases
        BY <1>2, <2>2
    <2> QED
        BY <1>3, <2>2, <2>3
<1>8. ASSUME NEW c \in Decided(r) PROVE picked # {}
    <2>1. c \in Cases /\ PatternOf(r, c) # "ungraded" /\ votes[r][c] \in Tables
        BY CaseFacts DEF Decided
    <2>2. ~(Cardinality(Real(StableVotes(votes[r][c]))) < 2)
        BY <2>1, StableAreSome, PatternFacts DEF PatternOf
    <2>3. c \in rest
        BY <1>3, <2>1, <2>2, StableAreSome
    <2> QED
        BY <1>6, <2>3
<1> QED
    BY <1>7, <1>8

(* A split divides the votes too, and is no agreement.                     *)
LEMMA SplitsEverywhere ==
    ASSUME TypeOK, NEW r \in Runs
    PROVE  /\ Splits(r) \subseteq PageSplits(r) \ ObservedAlike(r)
           /\ {c \in Cases : SaysOneThing(PatternOf(r, c))} \subseteq ObservedAlike(r)
<1> SUFFICES ASSUME NEW c \in Cases
             PROVE  /\ IsSplit(PatternOf(r, c)) => c \in PageSplits(r) /\ c \notin ObservedAlike(r)
                    /\ SaysOneThing(PatternOf(r, c)) => c \in ObservedAlike(r)
    BY DEF Splits
<1> DEFINE V == votes[r][c]
           U == StableVotes(V)
<1>1. V \in Tables /\ U \in Tables
    BY CaseFacts
<1>2. PatternOf(r, c) = Pattern(U)
    BY DEF PatternOf
<1>3. /\ c \in PageSplits(r) <=> Pattern(V) \notin {"settled", "ungraded"}
      /\ c \in ObservedAlike(r) <=> Cardinality(Given(U)) = 1
    BY DEF PageSplits, ObservedAlike
<1> HIDE DEF V
<1>4. /\ Cardinality(Real(U)) \in Nat /\ Cardinality(Given(U)) \in Nat
      /\ Cardinality(Real(V)) \in Nat /\ Cardinality(Given(V)) \in Nat
      /\ Cardinality(Real(U)) <= Cardinality(Real(V)) /\ Cardinality(Given(U)) <= Cardinality(Given(V))
      /\ Cardinality(Real(U)) >= 2 => Cardinality(Given(U)) >= 1
    BY <1>1, StableAreSome
<1> HIDE DEF U
<1>5. ASSUME IsSplit(Pattern(U)) PROVE IsSplit(Pattern(V)) /\ Cardinality(Given(U)) # 1
    <2>1. Cardinality(Real(U)) >= 2 /\ Cardinality(Given(U)) # 1
        BY <1>1, <1>5, PatternFacts
    <2>2. Cardinality(Real(V)) >= 2 /\ Cardinality(Given(V)) # 1
        BY <1>4, <2>1
    <2> QED
        BY <1>1, <2>1, <2>2, PatternFacts
<1>6. SaysOneThing(Pattern(U)) => Cardinality(Given(U)) = 1
    BY <1>1, PatternFacts
<1>7. IsSplit(Pattern(V)) => Pattern(V) \notin {"settled", "ungraded"}
    BY DEF IsSplit
<1> QED
    BY <1>2, <1>3, <1>5, <1>6, <1>7

(* A set of two values has two elements.                                   *)
LEMMA TwoAreTwo ==
    ASSUME NEW a, NEW b, a # b
    PROVE  IsFiniteSet({a, b}) /\ Cardinality({a, b}) = 2
<1>1. IsFiniteSet({b}) /\ Cardinality({b}) = 1
    BY FS_Singleton
<1>2. IsFiniteSet({b} \cup {a}) /\ Cardinality({b} \cup {a}) = IF a \in {b} THEN Cardinality({b}) ELSE Cardinality({b}) + 1
    BY ONLY <1>1, FS_AddElement
<1>3. {b} \cup {a} = {a, b}
    OBVIOUS
<1> QED
    BY <1>1, <1>2, <1>3

(* Who differs from the people's word differs from somebody.               *)
LEMMA DissentIsListed ==
    ASSUME TypeOK, SpokenOnce, NEW r \in Runs, NEW who \in People
    PROVE  SaidBy(r, who) \ AgreedWithConsensus(r, who) \subseteq Disagreements(r)
<1> SUFFICES ASSUME NEW c \in SaidBy(r, who), WordOf(r, c, who) # Word(r, c)
             PROVE  c \in Disagreements(r)
    BY DEF AgreedWithConsensus
<1> DEFINE W == words[r][c]
           said == {W[i].verdict : i \in DOMAIN W}
<1>1. c \in Cases /\ \E i \in DOMAIN W : W[i].who = who
    BY DEF SaidBy
<1>2. W \in Seq(Sayings) /\ \A i, j \in DOMAIN W : W[i].who = W[j].who => i = j
    BY <1>1 DEF TypeOK, SpokenOnce
<1>3. WordOf(r, c, who) \in said
    BY <1>1 DEF WordOf
<1>4. Word(r, c) \in said
    <2>1. Word(r, c) = Consensus(W, Owner)
        BY DEF Word
    <2>2. W # <<>>
        BY <1>1
    <2> HIDE DEF W
    <2> QED
        BY <1>2, <2>1, <2>2, WordIsSaid
<1>5. IsFiniteSet(said)
    <2>1. \A i \in DOMAIN W : W[i].verdict \in Scale
        <3>1. \A i \in DOMAIN W : W[i] \in Sayings
            <4> HIDE DEF W
            <4> QED
                BY <1>2
        <3> QED
            BY <3>1 DEF Sayings
    <2>2. said \subseteq Scale
        BY <2>1
    <2> QED
        BY <2>2, ReadingConstants, FS_Subset
<1> HIDE DEF said
<1>6. Cardinality(said) > 1
    <2>1. /\ IsFiniteSet({WordOf(r, c, who), Word(r, c)}) /\ {WordOf(r, c, who), Word(r, c)} \subseteq said
          /\ Cardinality({WordOf(r, c, who), Word(r, c)}) = 2
        <3>1. {WordOf(r, c, who), Word(r, c)} \subseteq said
            BY <1>3, <1>4
        <3> QED
            BY <3>1, TwoAreTwo
    <2> QED
        BY <1>5, <2>1, FS_Subset, FS_CardinalityType
<1> QED
    BY <1>1, <1>6 DEF Disagreements, said

(* server/app.ts:2645: whoever reads a round again, the map, coverage, the *)
(* report, the page, the ten to check, counts the same.                    *)
THEOREM ReportsAlwaysAddUp == Spec => []ReportsAddUp
<1>1. TypeOK /\ SpokenOnce => ReportsAddUp
    BY CoverageIsReport, CountsAddUp, TensAreGraded, SplitsEverywhere, DissentIsListed DEF ReportsAddUp
<1> QED
    BY <1>1, Spoken, PTL

-----------------------------------------------------------------------------
(* Where the votes are one word, so is the verdict, if there is one.       *)
LEMMA OneWordAtMost ==
    ASSUME NEW V \in Tables, NEW w \in [Seats -> Nat \ {0}], NEW v, Given(V) \subseteq {v}
    PROVE  Ensemble(V, w) \in {v, NoVerdict}
BY VerdictIsGiven, CountedFacts

(* Seats that are unanimous on a word of the scale gave no other.          *)
LEMMA OutcomeFacts ==
    ASSUME NEW V \in Tables
    PROVE  /\ Outcome(V) \in Scale => Given(V) = {Outcome(V)}
           /\ \A v \in Outcomes(V) : Outcome(V) \in {v, NoVerdict}
<1>1. CASE ~Unanimous(V)
    BY <1>1, ReadingConstants DEF Outcome
<1>2. CASE Unanimous(V)
    <2>1. Outcome(V) = CHOOSE v \in Outcomes(V) : TRUE
        BY <1>2 DEF Outcome
    <2>2. IsFiniteSet(Outcomes(V))
        <3>1. Outcomes(V) \subseteq Words
            BY TableFacts DEF Outcomes
        <3>2. IsFiniteSet(Words)
            BY ReadingConstants, FS_AddElement DEF Words
        <3> QED
            BY <3>1, <3>2, FS_Subset
    <2>3. PICK o : Outcomes(V) = {o}
        BY <1>2, <2>2, FS_Singleton DEF Unanimous
    <2>4. Outcome(V) = o
        BY <2>1, <2>3
    <2>5. ASSUME o \in Scale PROVE Given(V) = {o}
        <3>1. o # Abstain
            BY <2>5, ReadingConstants
        <3>2. \A s \in DOMAIN V : V[s].verdict = o
            BY <2>3 DEF Outcomes
        <3>3. \E s \in DOMAIN V : V[s].verdict = o
            BY <2>3 DEF Outcomes
        <3> QED
            BY <3>1, <3>2, <3>3 DEF Given, Real
    <2> QED
        BY <2>3, <2>4, <2>5
<1> QED
    BY <1>1, <1>2

(* The run before is one run, an earlier one that closed.                  *)
LEMMA PreviousFacts ==
    ASSUME NEW r \in Runs, NEW q \in Previous(r), Closed(r)
    PROVE  /\ Previous(r) = {q} /\ q \in Runs /\ q < r
           /\ q \in Series(r) /\ r \in Series(r)
<1>1. /\ q \in Runs /\ q < r /\ version[q] = version[r] /\ Closed(q)
      /\ \A p \in Earlier(r) : p <= q
    BY DEF Previous, Earlier
<1>2. Runs \subseteq Nat /\ r \in Nat /\ MaxRuns \in Nat
    BY RunConstants DEF Runs
<1>3. ASSUME NEW p \in Previous(r) PROVE p = q
    <2>1. p \in Earlier(r) /\ \A x \in Earlier(r) : x <= p
        BY DEF Previous
    <2>2. q \in Earlier(r) /\ p \in Runs
        BY <2>1 DEF Previous, Earlier
    <2> QED
        BY <1>1, <1>2, <2>1, <2>2
<1>4. q \in Finished(r) /\ r \in Finished(r)
    BY <1>1, <1>2 DEF Finished, Runs
<1>5. {p \in Finished(r) : p > q} \subseteq {r}
    <2> SUFFICES ASSUME NEW p \in Finished(r), p > q PROVE p = r
        OBVIOUS
    <2>1. p \in 1..r /\ Closed(p) /\ version[p] = version[r]
        BY DEF Finished
    <2>2. p \in Runs
        BY <1>2, <2>1 DEF Runs
    <2>3. p < r => p \in Earlier(r)
        BY <2>1, <2>2 DEF Earlier, Closed
    <2> QED
        BY <1>1, <1>2, <2>1, <2>2, <2>3
<1>6. {p \in Finished(r) : p > r} \subseteq {r}
    BY <1>2 DEF Finished
<1>7. WINDOW \in Nat /\ WINDOW >= 2
    BY RunConstants
<1>8. ASSUME NEW S, S \subseteq {r} PROVE Cardinality(S) < WINDOW
    <2>1. IsFiniteSet({r}) /\ Cardinality({r}) = 1
        BY FS_Singleton
    <2>2. Cardinality(S) <= 1 /\ Cardinality(S) \in Nat
        BY <1>8, <2>1, FS_Subset, FS_CardinalityType
    <2> QED
        BY <1>7, <2>2
<1>9. q \in Series(r) /\ r \in Series(r)
    BY <1>4, <1>5, <1>6, <1>8 DEF Series
<1> QED
    BY <1>1, <1>3, <1>9

(* The oldest run of a series is one of it.                                *)
LEMMA BaselineInSeries ==
    ASSUME NEW r \in Runs, r \in Series(r)
    PROVE  Baseline(r) \in Series(r)
<1>1. r \in Nat
    BY RunConstants DEF Runs
<1>2. Series(r) \subseteq 1..r /\ IsFiniteSet(1..r) /\ 1..r \subseteq Nat
    BY <1>1, FS_Interval DEF Series, Finished
<1>3. IsFiniteSet(Series(r)) /\ Series(r) \in SUBSET Nat /\ Series(r) # {}
    BY <1>2, FS_Subset
<1> QED
    BY <1>3, Extremes DEF Baseline

(* Two runs that read alike have the same cases decided, passed and split. *)
LEMMA AlikeSets ==
    ASSUME NEW q, NEW r, SameReading(q, r)
    PROVE  Decided(q) = Decided(r) /\ Passed(q) = Passed(r) /\ Splits(q) = Splits(r)
BY DEF SameReading, Decided, Passed, Splits

(* Then nothing is new since the one before, and nothing flipped.          *)
LEMMA NothingNew ==
    ASSUME NEW r \in Runs, NEW q \in Previous(r), Closed(r), SameReading(q, r)
    PROVE  NewSplits(r) = {} /\ Flipped(r) = {}
<1>1. Previous(r) = {q} /\ Splits(q) = Splits(r)
    BY PreviousFacts, AlikeSets
<1>2. NewSplits(r) = {}
    BY <1>1 DEF NewSplits
<1>3. Flipped(r) = {}
    BY <1>1 DEF Flipped, SameReading
<1> QED
    BY <1>2, <1>3

(* A gate one run passes is passed by a later one that reads the same.     *)
LEMMA GatePassedAgain ==
    ASSUME NEW r \in Runs, NEW q \in Previous(r), Closed(r), SameReading(q, r),
           NEW gate \in Gates, Passes(q, gate)
    PROVE  Passes(r, gate)
<1>1. Decided(q) = Decided(r) /\ Passed(q) = Passed(r) /\ NewSplits(r) = {}
    BY AlikeSets, NothingNew
<1>2. gate.max_new_splits \in Nat /\ Cardinality({}) = 0
    BY RunConstants, FS_EmptySet DEF GateSpecs
<1>3. Cardinality(NewSplits(r)) <= gate.max_new_splits
    BY <1>1, <1>2
<1> QED
    BY <1>1, <1>3 DEF Passes

(* A series that reads the same throughout has not drifted.                *)
LEMMA NoDrift ==
    ASSUME NEW r \in Runs, NEW q \in Previous(r), Closed(r), \A p \in Series(r) : SameReading(p, r)
    PROVE  ~Drifted(r)
<1>1. SameReading(q, r)
    BY PreviousFacts
<1>2. NewSplits(r) = {} /\ Flipped(r) = {}
    BY <1>1, NothingNew
<1>3. SameReading(Baseline(r), r)
    BY PreviousFacts, BaselineInSeries
<1>4. Decided(Baseline(r)) = Decided(r) /\ Passed(Baseline(r)) = Passed(r)
    BY <1>3, AlikeSets
<1>5. Cardinality(Passed(r)) \in Nat /\ Cardinality(Decided(r)) \in Nat
    BY RunConstants, FS_Subset, FS_CardinalityType DEF Passed, Decided
<1>6. ~PassRateFell(Baseline(r), r)
    <2> DEFINE n == Cardinality(Passed(r)) * Cardinality(Decided(r))
    <2>1. n \in Nat
        BY <1>5
    <2>2. PassRateFell(Baseline(r), r) => n > n
        BY <1>4 DEF PassRateFell
    <2> HIDE DEF n
    <2> QED
        BY <2>1, <2>2
<1> QED
    BY <1>2, <1>6 DEF Drifted

(* A flip between two verdicts that the comparison sees, the report sees.  *)
LEMMA FlipsAreFlips ==
    ASSUME TypeOK, NEW r \in Runs, NEW q \in Previous(r), Closed(r), NEW c \in CompareFlips(q, r),
           {OutcomeOf(q, c), OutcomeOf(r, c)} \subseteq Scale, c \in Decided(q) \cup Decided(r)
    PROVE  c \in Flipped(r)
<1>1. c \in Cases /\ OutcomeOf(q, c) # OutcomeOf(r, c) /\ q \in Runs
    BY PreviousFacts DEF CompareFlips
<1>2. votes[q][c] \in Tables /\ votes[r][c] \in Tables /\ weight \in [Seats -> Nat \ {0}]
    BY <1>1 DEF TypeOK
<1>3. /\ Given(votes[q][c]) = {OutcomeOf(q, c)} /\ Given(votes[r][c]) = {OutcomeOf(r, c)}
    BY <1>2, OutcomeFacts DEF OutcomeOf
<1>4. /\ VerdictOf(q, c) \in {OutcomeOf(q, c), NoVerdict}
      /\ VerdictOf(r, c) \in {OutcomeOf(r, c), NoVerdict}
    BY <1>2, <1>3, OneWordAtMost DEF VerdictOf
<1>5. VerdictOf(q, c) # NoVerdict \/ VerdictOf(r, c) # NoVerdict
    BY DEF Decided
<1>6. NoVerdict \notin {OutcomeOf(q, c), OutcomeOf(r, c)}
    BY ReadingConstants
<1>7. VerdictOf(q, c) # VerdictOf(r, c)
    BY <1>1, <1>4, <1>5, <1>6
<1> QED
    BY <1>1, <1>7 DEF Flipped

(* server/app.ts:2725: what is read as before passes as before and has not *)
(* drifted; and what the comparison of two rounds calls a flip of verdicts *)
(* is one in the report.                                                   *)
THEOREM SameReadingsPass == Spec => []SameReadingsSameWord
<1>1. ASSUME TypeOK PROVE SameReadingsSameWord
    <2> SUFFICES ASSUME NEW r \in Runs, NEW q \in Previous(r), Closed(r)
                 PROVE  /\ SameReading(q, r) => \A gate \in Gates : Passes(q, gate) => Passes(r, gate)
                        /\ SameReading(q, r) => Point(r) = [Point(q) EXCEPT !.newSplits = {}, !.flipped = {}]
                        /\ (\A p \in Series(r) : SameReading(p, r)) => ~Drifted(r)
                        /\ \A c \in CompareFlips(q, r) :
                             /\ {OutcomeOf(q, c), OutcomeOf(r, c)} \subseteq Scale
                             /\ c \in Decided(q) \cup Decided(r)
                             => c \in Flipped(r)
        BY DEF SameReadingsSameWord
    <2>1. SameReading(q, r) => \A gate \in Gates : Passes(q, gate) => Passes(r, gate)
        BY GatePassedAgain
    <2>2. SameReading(q, r) => Point(r) = [Point(q) EXCEPT !.newSplits = {}, !.flipped = {}]
        <3> SUFFICES ASSUME SameReading(q, r)
                     PROVE  Point(r) = [Point(q) EXCEPT !.newSplits = {}, !.flipped = {}]
            OBVIOUS
        <3>1. /\ Decided(q) = Decided(r) /\ Passed(q) = Passed(r) /\ Splits(q) = Splits(r)
              /\ NewSplits(r) = {} /\ Flipped(r) = {}
            BY AlikeSets, NothingNew
        <3> DEFINE point == [decided |-> Decided(r), passed |-> Passed(r), splits |-> Splits(r),
                             newSplits |-> {}, flipped |-> {}]
        <3>2. Point(r) = point
            BY <3>1 DEF Point
        <3> DEFINE old == [decided |-> Decided(r), passed |-> Passed(r), splits |-> Splits(r),
                           newSplits |-> NewSplits(q), flipped |-> Flipped(q)]
        <3>3. Point(q) = old
            BY <3>1 DEF Point
        <3>4. [old EXCEPT !.newSplits = {}, !.flipped = {}] = point
            <4> DEFINE half == [old EXCEPT !.newSplits = {}]
            <4>1. half = [decided |-> Decided(r), passed |-> Passed(r), splits |-> Splits(r),
                          newSplits |-> {}, flipped |-> Flipped(q)]
                OBVIOUS
            <4>2. [old EXCEPT !.newSplits = {}, !.flipped = {}] = [half EXCEPT !.flipped = {}]
                <5> HIDE DEF old
                <5> QED
                    OBVIOUS
            <4> HIDE DEF half
            <4>3. [half EXCEPT !.flipped = {}] = point
                BY <4>1
            <4> QED
                BY <4>2, <4>3
        <3> HIDE DEF point, old
        <3> QED
            BY <3>2, <3>3, <3>4
    <2>3. (\A p \in Series(r) : SameReading(p, r)) => ~Drifted(r)
        BY NoDrift
    <2>4. \A c \in CompareFlips(q, r) :
             /\ {OutcomeOf(q, c), OutcomeOf(r, c)} \subseteq Scale
             /\ c \in Decided(q) \cup Decided(r)
             => c \in Flipped(r)
        BY <1>1, FlipsAreFlips
    <2> QED
        BY <2>1, <2>2, <2>3, <2>4
<1> QED
    BY <1>1, TypeCorrect, PTL

-----------------------------------------------------------------------------
(* What is exported.                                                       *)

(* Of a case that teaches a verdict every vote counted is that verdict.    *)
LEMMA TaughtFacts ==
    ASSUME NEW V \in Tables, NEW w \in [Seats -> Nat \ {0}], NEW word, NEW v \in Scale, v \in Labels(V, word)
    PROVE  /\ Given(V) = {v} /\ Outcomes(V) \subseteq {v, Abstain} /\ v \in Outcomes(V)
           /\ word \in {v, NoVerdict}
           /\ Ensemble(V, w) \in {v, NoVerdict} /\ Outcome(V) \in {v, NoVerdict}
           /\ Level(V, w, word) \in {v, NoVerdict}
           /\ ~FalseSettle(V, word) /\ ~UnstableDissent(V)
           /\ \A s \in Seats : ~Disputed(StableVotes(V), s)
<1>1. Pattern(V) = "settled" /\ v \in Outcomes(V) /\ word \in {v, NoVerdict}
    BY DEF Labels
<1>2. Cardinality(Given(V)) = 1
    BY <1>1, PatternFacts DEF SaysOneThing
<1>3. v # Abstain
    BY ReadingConstants
<1>4. Given(V) = {v}
    <2>1. PICK u : Given(V) = {u}
        BY <1>2, TableFacts, FS_Singleton
    <2>2. v \in Given(V)
        BY <1>1, <1>3 DEF Outcomes, Given, Real
    <2> QED
        BY <2>1, <2>2
<1>5. Outcomes(V) \subseteq {v, Abstain}
    BY <1>4 DEF Outcomes, Given, Real
<1>6. Ensemble(V, w) \in {v, NoVerdict}
    BY <1>4, OneWordAtMost
<1>7. Outcome(V) \in {v, NoVerdict}
    BY <1>1, OutcomeFacts
<1>8. Level(V, w, word) \in {v, NoVerdict}
    BY <1>1, <1>6 DEF Level
<1>9. ~FalseSettle(V, word)
    BY <1>1 DEF FalseSettle
<1>10. ~UnstableDissent(V)
    BY <1>2 DEF UnstableDissent
<1>11. ~IsSplit(Pattern(StableVotes(V)))
    <2> DEFINE U == StableVotes(V)
    <2>1. /\ U \in Tables /\ Cardinality(Given(U)) \in Nat /\ Cardinality(Real(U)) \in Nat
          /\ Cardinality(Given(U)) <= 1
        BY <1>2, StableAreSome
    <2> HIDE DEF U
    <2>2. Cardinality(Real(U)) >= 2 => Cardinality(Given(U)) >= 1
        BY <2>1, StableAreSome
    <2>3. ~IsSplit(Pattern(U))
        BY <2>1, <2>2, PatternFacts
    <2> QED
        BY <2>3 DEF U
<1>12. \A s \in Seats : ~Disputed(StableVotes(V), s)
    BY <1>11 DEF Disputed
<1> QED
    BY <1>1, <1>4, <1>5, <1>6, <1>7, <1>8, <1>9, <1>10, <1>12

(* A verdict scores in full if and only if it is the best of the scale.    *)
LEMMA TopScoresFull ==
    ASSUME NEW v \in Scale
    PROVE  ScoreOf(v).num = ScoreOf(v).den <=> v = Top
<1> DEFINE ranks == {Rank[u] : u \in Scale}
<1>1. ranks \in SUBSET Nat /\ ranks # {} /\ Rank[v] \in ranks
    BY ReadingConstants
<1>2. IsFiniteSet(ranks)
    <2>1. Rank \in Surjection(Scale, ranks)
        BY ReadingConstants DEF Surjection
    <2> QED
        BY <2>1, ReadingConstants, FS_Surjection
<1> HIDE DEF ranks
<1>3. /\ Min(ranks) \in ranks /\ Max(ranks) \in ranks
      /\ \A x \in ranks : Min(ranks) <= x /\ Max(ranks) >= x
    BY <1>1, <1>2, Extremes
<1>4. Rank[v] \in Nat /\ Min(ranks) \in Nat /\ Max(ranks) \in Nat
      /\ Min(ranks) <= Rank[v] /\ Rank[v] <= Max(ranks)
    BY <1>1, <1>3
<1>5. Top \in Scale /\ \A u \in Scale : Rank[u] <= Rank[Top]
    <2>1. PICK t \in Scale : Rank[t] = Max(ranks)
        BY <1>3 DEF ranks
    <2>2. \A u \in Scale : Rank[u] <= Rank[t]
        <3>1. \A u \in Scale : Rank[u] \in ranks /\ Rank[u] \in Nat
            BY ReadingConstants DEF ranks
        <3> QED
            BY <1>3, <1>4, <2>1, <3>1
    <2> QED
        BY <2>1, <2>2 DEF Top
<1>6. Rank[Top] = Max(ranks)
    <2>1. PICK t \in Scale : Rank[t] = Max(ranks)
        BY <1>3 DEF ranks
    <2>2. Rank[Top] \in ranks /\ Rank[Top] \in Nat
        BY <1>1, <1>5 DEF ranks
    <2>3. Rank[t] <= Rank[Top] /\ Rank[Top] <= Max(ranks)
        BY <1>3, <1>5, <2>1, <2>2
    <2> QED
        BY <1>4, <2>1, <2>2, <2>3
<1>7. Rank[v] = Max(ranks) <=> v = Top
    BY <1>5, <1>6, ReadingConstants
<1>8. ScoreOf(v) = IF Min(ranks) = Max(ranks) THEN [num |-> 1, den |-> 1]
                   ELSE [num |-> Rank[v] - Min(ranks), den |-> Max(ranks) - Min(ranks)]
    BY DEF ScoreOf, ranks
<1>9. CASE Min(ranks) = Max(ranks)
    BY <1>4, <1>7, <1>8, <1>9
<1>10. CASE Min(ranks) # Max(ranks)
    <2>1. ScoreOf(v).num = Rank[v] - Min(ranks) /\ ScoreOf(v).den = Max(ranks) - Min(ranks)
        BY <1>8, <1>10
    <2> QED
        BY <1>4, <1>7, <2>1
<1> QED
    BY <1>9, <1>10

(* The examples teach what the golden set expects.                         *)
LEMMA TaughtIsGolden ==
    ASSUME TypeOK, NEW r \in Runs
    PROVE  /\ {<<row.case, row.label>> : row \in Examples(r)} = {<<row.case, row.expected>> : row \in Golden(r)}
           /\ \A c \in Cases, v \in Scale : <<c, v>> \in {<<row.case, row.label>> : row \in Examples(r)}
                => v \in Labels(votes[r][c], Word(r, c))
<1>1. ASSUME NEW row \in Examples(r)
      PROVE  /\ [case |-> row.case, expected |-> row.label] \in Golden(r)
             /\ row.label \in Labels(votes[r][row.case], Word(r, row.case))
    BY DEF Examples, ExampleRows, Golden
<1>2. ASSUME NEW row \in Golden(r)
      PROVE  [case |-> row.case, label |-> row.expected, checked |-> row.case \in Judged(r)] \in Examples(r)
    <2> DEFINE example == [case |-> row.case, label |-> row.expected, checked |-> row.case \in Judged(r)]
    <2>1. /\ row.case \in Cases /\ row.expected \in Words
          /\ row.expected \in Labels(votes[r][row.case], Word(r, row.case))
        BY DEF Golden
    <2>2. example \in ExampleRows
        BY <2>1 DEF ExampleRows
    <2> QED
        BY <2>1, <2>2 DEF Examples
<1>3. {<<row.case, row.label>> : row \in Examples(r)} \subseteq {<<row.case, row.expected>> : row \in Golden(r)}
    <2> SUFFICES ASSUME NEW row \in Examples(r)
                 PROVE  \E other \in Golden(r) : <<row.case, row.label>> = <<other.case, other.expected>>
        OBVIOUS
    <2> DEFINE other == [case |-> row.case, expected |-> row.label]
    <2>1. other \in Golden(r)
        BY <1>1
    <2>2. <<row.case, row.label>> = <<other.case, other.expected>>
        OBVIOUS
    <2> QED
        BY <2>1, <2>2
<1>4. {<<row.case, row.expected>> : row \in Golden(r)} \subseteq {<<row.case, row.label>> : row \in Examples(r)}
    <2> SUFFICES ASSUME NEW row \in Golden(r)
                 PROVE  \E other \in Examples(r) : <<row.case, row.expected>> = <<other.case, other.label>>
        OBVIOUS
    <2> DEFINE other == [case |-> row.case, label |-> row.expected, checked |-> row.case \in Judged(r)]
    <2>1. other \in Examples(r)
        BY <1>2
    <2>2. <<row.case, row.expected>> = <<other.case, other.label>>
        OBVIOUS
    <2> QED
        BY <2>1, <2>2
<1>5. \A c \in Cases, v \in Scale : <<c, v>> \in {<<row.case, row.label>> : row \in Examples(r)}
        => v \in Labels(votes[r][c], Word(r, c))
    <2> SUFFICES ASSUME NEW c \in Cases, NEW v \in Scale, NEW row \in Examples(r),
                        <<c, v>> = <<row.case, row.label>>
                 PROVE  v \in Labels(votes[r][c], Word(r, c))
        OBVIOUS
    <2>1. c = row.case /\ v = row.label
        OBVIOUS
    <2> QED
        BY <1>1, <2>1
<1> QED
    BY <1>3, <1>4, <1>5

(* Everything that is exported of a case that teaches a verdict says it.   *)
LEMMA OneStory ==
    ASSUME TypeOK, NEW r \in Runs, NEW c \in Cases, NEW v \in Scale, v \in Labels(votes[r][c], Word(r, c))
    PROVE  LET silent == {v, NoVerdict}
           IN /\ {VerdictOf(r, c), OutcomeOf(r, c), Word(r, c), LevelOf(r, c)} \subseteq silent
              /\ ~FalseSettle(votes[r][c], Word(r, c)) /\ ~UnstableDissent(votes[r][c])
              /\ \A s \in Seats : ~Disputed(StableVotes(votes[r][c]), s)
              /\ \A row \in Rewards(r) : row.case = c => row.verdict = v
              /\ \A row \in Gold(r) : row.case = c => row.label = v /\ row.panel \in {v, Abstain}
<1> DEFINE V == votes[r][c]
           word == Word(r, c)
<1>1. V \in Tables /\ weight \in [Seats -> Nat \ {0}] /\ v \in Labels(V, word)
    BY DEF TypeOK
<1> HIDE DEF V, word
<1>2. /\ Given(V) = {v} /\ Outcomes(V) \subseteq {v, Abstain}
      /\ word \in {v, NoVerdict}
      /\ Ensemble(V, weight) \in {v, NoVerdict} /\ Outcome(V) \in {v, NoVerdict}
      /\ Level(V, weight, word) \in {v, NoVerdict}
      /\ ~FalseSettle(V, word) /\ ~UnstableDissent(V)
      /\ \A s \in Seats : ~Disputed(StableVotes(V), s)
    BY <1>1, TaughtFacts
<1>3. Pattern(V) = "settled"
    BY <1>1 DEF Labels
<1>4. {VerdictOf(r, c), OutcomeOf(r, c), Word(r, c), LevelOf(r, c)} \subseteq {v, NoVerdict}
    BY <1>2 DEF VerdictOf, OutcomeOf, LevelOf, V, word
<1>5. ASSUME NEW row \in Rewards(r), row.case = c PROVE row.verdict = v
    <2>1. row.seat \in Backers(V, row.verdict)
        BY <1>5 DEF Rewards, V
    <2>2. row.verdict \in Given(V)
        BY <2>1 DEF Backers, Given
    <2> QED
        BY <1>2, <2>2
<1>6. ASSUME NEW row \in Gold(r), row.case = c PROVE row.label = v /\ row.panel \in {v, Abstain}
    <2>1. row.label = word /\ row.label \in Scale /\ row.panel \in Outcomes(V)
        BY <1>3, <1>6 DEF Gold, GoldRows, V, word
    <2>2. row.label # NoVerdict
        BY <2>1, ReadingConstants
    <2> QED
        BY <1>2, <2>1, <2>2
<1> QED
    BY <1>2, <1>4, <1>5, <1>6 DEF V, word

(* server/training.ts:281: the five files that are made of a closed round, *)
(* and the reports of it, tell one story.                                  *)
THEOREM ExportsAgree == Spec => []ExportsTellOneStory
<1>1. ASSUME TypeOK, NEW r \in DOMAIN Training
      PROVE  LET taught == {<<row.case, row.label>> : row \in Training[r].examples}
                 Taught(c) == {v \in Scale : <<c, v>> \in taught}
                 found == ExpectedMatch(r, [c \in Cases |->
                              IF Taught(c) = {} THEN NoVerdict ELSE CHOOSE v \in Taught(c) : TRUE])
             IN /\ taught = {<<row.case, row.expected>> : row \in Bundle(r).golden}
                /\ found.agreed = found.compared
                /\ \A row \in Training[r].rewards : row.score.num = row.score.den <=> row.verdict = Top
                /\ \A c \in Cases : \A v \in Taught(c) :
                     LET silent == {v, NoVerdict}
                     IN /\ {VerdictOf(r, c), OutcomeOf(r, c), Word(r, c), Training[r].levels[c]} \subseteq silent
                        /\ ~FalseSettle(votes[r][c], Word(r, c)) /\ ~UnstableDissent(votes[r][c])
                        /\ \A s \in Seats : ~Disputed(StableVotes(votes[r][c]), s)
                        /\ \A row \in Training[r].rewards : row.case = c => row.verdict = v
                        /\ \A row \in Training[r].gold : row.case = c =>
                             row.label = v /\ row.panel \in {v, Abstain}
    <2> DEFINE taught == {<<row.case, row.label>> : row \in Examples(r)}
               Taught(c) == {v \in Scale : <<c, v>> \in taught}
               expected == [c \in Cases |-> IF Taught(c) = {} THEN NoVerdict ELSE CHOOSE v \in Taught(c) : TRUE]
               found == ExpectedMatch(r, expected)
    <2>1. r \in Runs
        BY <1>1 DEF Training
    <2>2. /\ Training[r].examples = Examples(r) /\ Training[r].gold = Gold(r) /\ Training[r].rewards = Rewards(r)
          /\ \A c \in Cases : Training[r].levels[c] = LevelOf(r, c)
        BY <1>1 DEF Training, TrainingExport
    <2>3. Bundle(r).golden = Golden(r)
        BY DEF Bundle
    <2>4. taught = {<<row.case, row.expected>> : row \in Golden(r)}
        BY <1>1, <2>1, TaughtIsGolden
    <2>5. ASSUME NEW c \in Cases, NEW v \in Taught(c) PROVE v \in Scale /\ v \in Labels(votes[r][c], Word(r, c))
        BY <1>1, <2>1, <2>5, TaughtIsGolden
    <2>6. found.agreed = found.compared
        <3>1. /\ found.compared = {c \in Cases : expected[c] # NoVerdict} \cap Decided(r)
              /\ found.agreed = {c \in found.compared : VerdictOf(r, c) = expected[c]}
            BY DEF ExpectedMatch
        <3>2. ASSUME NEW c \in Cases, expected[c] # NoVerdict, c \in Decided(r)
              PROVE  VerdictOf(r, c) = expected[c]
            <4>1. expected[c] \in Taught(c)
                <5>1. Taught(c) # {}
                    BY <3>2
                <5> HIDE DEF Taught
                <5> QED
                    BY <5>1
            <4> HIDE DEF expected
            <4>2. VerdictOf(r, c) \in {expected[c], NoVerdict}
                BY <1>1, <2>1, <2>5, <4>1, OneStory
            <4> QED
                BY <3>2, <4>2 DEF Decided
        <3> HIDE DEF found, expected
        <3> QED
            BY <3>1, <3>2
    <2>7. \A row \in Rewards(r) : row.score.num = row.score.den <=> row.verdict = Top
        BY TopScoresFull DEF Rewards, RewardRows
    <2>8. ASSUME NEW c \in Cases, NEW v \in Taught(c)
          PROVE  /\ {VerdictOf(r, c), OutcomeOf(r, c), Word(r, c), LevelOf(r, c)} \subseteq {v, NoVerdict}
                 /\ ~FalseSettle(votes[r][c], Word(r, c)) /\ ~UnstableDissent(votes[r][c])
                 /\ \A s \in Seats : ~Disputed(StableVotes(votes[r][c]), s)
                 /\ \A row \in Rewards(r) : row.case = c => row.verdict = v
                 /\ \A row \in Gold(r) : row.case = c => row.label = v /\ row.panel \in {v, Abstain}
        BY <1>1, <2>1, <2>5, <2>8, OneStory
    <2> QED
        BY <2>2, <2>3, <2>4, <2>6, <2>7, <2>8
<1>2. TypeOK => ExportsTellOneStory
    BY <1>1 DEF ExportsTellOneStory
<1> QED
    BY <1>2, TypeCorrect, PTL

=============================================================================
