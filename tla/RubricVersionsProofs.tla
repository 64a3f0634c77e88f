------------------------ MODULE RubricVersionsProofs ------------------------
(***************************************************************************)
(* What RubricVersions promises for every set of rounds, sentences,        *)
(* clauses and edits, with any number of requests in flight.               *)
(***************************************************************************)
EXTENDS RubricVersions, FiniteSetTheorems, TLAPS

(* What a request's locals may say of the versions vs and the patches ps.  *)
Sane(q, vs, ps) ==
    /\ q \in Locals
    /\ q.base \in 0..Len(vs)
    /\ q.number \in 0..Len(vs) + 1
    /\ q.rows \subseteq 1..Len(ps)
    /\ q.at \in {"editing", "rereading", "updating", "numbering", "inserting", "shipping", "opening"} => q.base >= 1
    /\ q.at = "inserting" => q.number >= 1
    /\ q.at = "writing" => q.clauses # <<>>
    /\ q.at = "settling" => q.clauses = <<>>
    /\ q.at \in {"writing", "settling"} => q.made \in 1..Len(vs) /\ q.rows \subseteq vs[q.made].for
    /\ q.at \in {"mining", "shipping", "opening"} => q.of \in Rounds

Tables ==
    /\ versions \in Seq(VersionRows) /\ Len(versions) >= 1
    /\ patches \in Seq(PatchRows)
    /\ round \in [Rounds -> [status: {"none", "open", "closed"}, pins: Nat]]
    /\ resolutions \in [Rounds -> SUBSET Clauses]
    /\ begun \in Nat

PinsExist == \A r \in Rounds : round[r].status # "none" => round[r].pins \in 1..Len(versions)

(* A round is opened by one request, and once.                             *)
OpensOnce ==
    \A s \in Slots : req[s].at = "opening" =>
        /\ round[req[s].of].status = "none"
        /\ \A t \in Slots : t # s /\ req[t].at = "opening" => req[t].of # req[s].of

RequestsSane ==
    /\ req \in [Slots -> Locals]
    /\ \A s \in Slots : Sane(req[s], versions, patches)

(* The inductive invariant.                                                *)
IInv == Tables /\ VersionsInOrder /\ AcceptedHasItsVersion /\ PinsExist /\ OpensOnce /\ RequestsSane

-----------------------------------------------------------------------------
(* The largest of 0..n is n.                                               *)
LEMMA MaxOfInterval == ASSUME NEW n \in Nat PROVE Max(0..n) = n
<1>1. n \in 0..n /\ \A y \in 0..n : n >= y
    OBVIOUS
<1>2. ASSUME NEW x \in 0..n, \A y \in 0..n : x >= y
      PROVE  x = n
    BY <1>1, <1>2
<1> QED
    BY <1>1, <1>2 DEF Max

(* Under the order of the versions, MAX(version) is how many there are,    *)
(* and the last one stored is the current one.                             *)
LEMMA LastIsLen == ASSUME Tables, VersionsInOrder PROVE LastNumber = Len(versions)
<1>1. DOMAIN versions = 1..Len(versions) /\ Len(versions) \in Nat
    BY DEF Tables
<1>2. {0} \cup {versions[i].number : i \in DOMAIN versions} = 0..Len(versions)
    BY <1>1 DEF VersionsInOrder
<1> QED
    BY <1>1, <1>2, MaxOfInterval DEF LastNumber

(* The current version is a stored one.                                    *)
LEMMA CurrentExists == ASSUME Tables, VersionsInOrder PROVE Current \in 1..Len(versions)
<1>1. DOMAIN versions = 1..Len(versions) /\ Len(versions) \in Nat /\ Len(versions) >= 1
    BY DEF Tables
<1>2. \E i \in DOMAIN versions : \A j \in DOMAIN versions : versions[j].number <= versions[i].number
    <2>1. \A j \in DOMAIN versions : versions[j].number <= versions[Len(versions)].number
        BY <1>1 DEF VersionsInOrder
    <2> QED
        BY <1>1, <2>1
<1> QED
    BY <1>1, <1>2 DEF Current

(* Locals stay sane while rows are only added to the tables.               *)
LEMMA SaneGrows ==
    ASSUME NEW q, NEW vs, NEW us, NEW ps, NEW os, Sane(q, vs, ps),
           Len(vs) \in Nat, Len(us) \in Nat, Len(ps) \in Nat, Len(os) \in Nat,
           Len(vs) <= Len(us), Len(ps) <= Len(os),
           \A i \in 1..Len(vs) : us[i].for = vs[i].for
    PROVE  Sane(q, us, os)
BY DEF Sane

(* A free slot remembers nothing that could be wrong.                      *)
LEMMA IdleIsSane ==
    ASSUME NEW vs \in Seq(VersionRows), NEW ps \in Seq(PatchRows)
    PROVE  Idle \in Locals /\ Sane(Idle, vs, ps)
BY DEF Idle, Locals, Sane, Steps, Kinds

(* The standards begin with their first version and no request.            *)
LEMMA InitInv == Init => IInv
<1> SUFFICES ASSUME Init PROVE IInv
    OBVIOUS
<1>1. Tables /\ versions[1].number = 1 /\ Len(versions) = 1 /\ versions[1].parent = 0 /\ patches = <<>>
    BY DEF Init, Tables, VersionRows, Kinds
<1>2. VersionsInOrder /\ AcceptedHasItsVersion /\ PinsExist
    BY <1>1 DEF Init, VersionsInOrder, AcceptedHasItsVersion, PinsExist, Tables
<1>3. RequestsSane
    BY <1>1, IdleIsSane DEF Init, RequestsSane, Tables
<1>4. OpensOnce
    BY DEF Init, OpensOnce, Idle
<1> QED
    BY <1>1, <1>2, <1>3, <1>4 DEF IInv

-----------------------------------------------------------------------------
(* A step that changes one request and no table.                           *)
LEMMA RequestsStep ==
    ASSUME Tables, Tables', RequestsSane, NEW s \in Slots, NEW l, req' = [req EXCEPT ![s] = l],
           Sane(l, versions', patches'), Len(versions) <= Len(versions'), Len(patches) <= Len(patches'),
           \A i \in 1..Len(versions) : versions'[i].for = versions[i].for
    PROVE  RequestsSane'
<1>1. \A t \in Slots : Sane(req[t], versions', patches')
    <2>1. Len(versions) \in Nat /\ Len(versions') \in Nat /\ Len(patches) \in Nat /\ Len(patches') \in Nat
        BY DEF Tables
    <2> QED
        BY <2>1, SaneGrows DEF RequestsSane
<1>2. l \in Locals
    BY DEF Sane
<1> QED
    BY <1>1, <1>2 DEF RequestsSane

(* A request that does not open a round leaves the openings as they are.   *)
LEMMA OpensStep ==
    ASSUME OpensOnce, RequestsSane, NEW s \in Slots, NEW l, req' = [req EXCEPT ![s] = l],
           l.at # "opening", round' = round
    PROVE  OpensOnce'
BY DEF OpensOnce, RequestsSane

(* A step that moves one request, and no table, keeps the invariant if     *)
(* what the request remembers is true.                                     *)
LEMMA RequestOnly ==
    ASSUME IInv, NEW s \in Slots, NEW l, req' = [req EXCEPT ![s] = l], Sane(l, versions, patches),
           l.at # "opening", UNCHANGED <<versions, patches, round, resolutions>>, begun' \in Nat
    PROVE  IInv'
<1>1. Tables' /\ VersionsInOrder' /\ AcceptedHasItsVersion' /\ PinsExist'
    BY DEF IInv, Tables, VersionsInOrder, AcceptedHasItsVersion, PinsExist
<1>2. /\ Len(versions) <= Len(versions') /\ Len(patches) <= Len(patches')
      /\ \A i \in 1..Len(versions) : versions'[i].for = versions[i].for
    BY DEF IInv, Tables
<1>5. Sane(l, versions', patches')
    OBVIOUS
<1>3. RequestsSane'
    BY <1>1, <1>2, <1>5, RequestsStep DEF IInv
<1>4. OpensOnce'
    BY OpensStep DEF IInv
<1> QED
    BY <1>1, <1>3, <1>4 DEF IInv

(* A request that ends keeps it.                                           *)
LEMMA EndKeeps ==
    ASSUME IInv, NEW s \in Slots, End(s), UNCHANGED <<versions, patches, round, resolutions, begun>>
    PROVE  IInv'
<1>1. Sane(Idle, versions, patches)
    BY IdleIsSane DEF IInv, Tables
<1>2. Idle.at # "opening" /\ begun' \in Nat
    BY DEF Idle, IInv, Tables
<1> QED
    BY <1>1, <1>2, RequestOnly DEF End, Goto

(* After an insert of createRubricVersion the request goes on sanely.      *)
LEMMA AfterVersionSane ==
    ASSUME NEW vs \in Seq(VersionRows), NEW ps \in Seq(PatchRows), NEW q \in Locals,
           q.base \in 0..Len(vs), q.number \in 0..Len(vs) + 1, q.rows \subseteq 1..Len(ps),
           q.made \in 1..Len(vs), q.rows \subseteq vs[q.made].for
    PROVE  Sane(AfterVersion(q), vs, ps) /\ AfterVersion(q).at # "opening"
<1>1. CASE q.clauses # <<>>
    BY <1>1 DEF AfterVersion, Sane, Locals, Steps
<1>2. CASE q.clauses = <<>> /\ q.rows # {}
    BY <1>2 DEF AfterVersion, Sane, Locals, Steps
<1>3. CASE q.clauses = <<>> /\ q.rows = {}
    <2>1. AfterVersion(q) = Idle /\ Idle.at # "opening"
        BY <1>3 DEF AfterVersion, Idle
    <2> QED
        BY <2>1, IdleIsSane
<1> QED
    BY <1>1, <1>2, <1>3

-----------------------------------------------------------------------------
(* createRubricVersion.                                                    *)

LEMMA NumberInv == ASSUME IInv, NEW s \in Slots, NumberVersion(s) PROVE IInv'
<1> DEFINE l == [req[s] EXCEPT !.at = "inserting", !.number = LastNumber + 1]
<1>1. req[s] \in Locals /\ Sane(req[s], versions, patches) /\ Len(versions) \in Nat
    BY DEF IInv, RequestsSane, Tables
<1>2. LastNumber = Len(versions)
    BY LastIsLen DEF IInv
<1>3. req[s].at = "numbering" /\ req' = [req EXCEPT ![s] = l] /\ begun' = begun
    BY DEF NumberVersion, At, Goto
<1>4. Sane(l, versions, patches) /\ l.at # "opening"
    <2>1. LastNumber + 1 \in 1..Len(versions) + 1 /\ LastNumber + 1 \in Nat
        BY <1>1, <1>2
    <2> HIDE DEF l
    <2>2. ASSUME NEW n \in Nat, l = [req[s] EXCEPT !.at = "inserting", !.number = n]
          PROVE  /\ l \in Locals /\ l.at = "inserting" /\ l.number = n
                 /\ l.base = req[s].base /\ l.rows = req[s].rows
        BY <1>1, <2>2 DEF Locals, Steps
    <2>3. /\ l \in Locals /\ l.at = "inserting" /\ l.number = LastNumber + 1
          /\ l.base = req[s].base /\ l.rows = req[s].rows
        BY <2>1, <2>2 DEF l
    <2> QED
        BY <1>1, <1>3, <2>1, <2>3 DEF Sane
<1> QED
    BY <1>3, <1>4, RequestOnly DEF NumberVersion, IInv, Tables

(* A row stored under a free number keeps it,                              *)
LEMMA StoreInv ==
    ASSUME IInv, NEW s \in Slots, req[s].at = "inserting", Store(s), ~NumberTaken(req[s].number),
           UNCHANGED <<patches, round, resolutions, begun>>
    PROVE  IInv'
<1> DEFINE q == req[s]
           v == [number |-> q.number, parent |-> q.base, criteria |-> q.criteria, clauses |-> <<>>,
                 by |-> q.kind, for |-> q.rows, from |-> q.of]
           l == [q EXCEPT !.made = Len(versions) + 1]
<1>1. q \in Locals /\ Sane(q, versions, patches) /\ Len(versions) \in Nat /\ Len(patches) \in Nat
    BY DEF IInv, RequestsSane, Tables
<1>2. versions \in Seq(VersionRows) /\ versions' = Append(versions, v) /\ req' = [req EXCEPT ![s] = AfterVersion(l)]
    BY DEF IInv, Tables, Store, Goto
<1>3. v \in VersionRows
    BY <1>1 DEF Locals, VersionRows
<1>4. /\ Len(versions') = Len(versions) + 1 /\ versions'[Len(versions) + 1] = v
      /\ \A i \in 1..Len(versions) : versions'[i] = versions[i]
      /\ versions' \in Seq(VersionRows)
    BY <1>1, <1>2, <1>3
<1>5. Tables'
    BY <1>4 DEF IInv, Tables
<1>6. q.number = Len(versions) + 1 /\ q.base < Len(versions) + 1
    <2>1. \A i \in 1..Len(versions) : i # q.number
        BY <1>2 DEF NumberTaken, IInv, VersionsInOrder
    <2>2. q.number \in 1..Len(versions) + 1 /\ q.base \in 0..Len(versions)
        BY <1>1 DEF Sane
    <2> QED
        BY <1>1, <2>1, <2>2
<1>7. VersionsInOrder'
    <2>1. DOMAIN versions = 1..Len(versions) /\ DOMAIN versions' = 1..Len(versions) + 1
        BY <1>2, <1>4
    <2>2. ASSUME NEW i \in 1..Len(versions) + 1
          PROVE  versions'[i].number = i /\ versions'[i].parent < i
        <3>1. CASE i = Len(versions) + 1
            BY <3>1, <1>4, <1>6
        <3>2. CASE i \in 1..Len(versions)
            BY <3>2, <2>1, <1>4 DEF IInv, VersionsInOrder
        <3> QED
            BY <3>1, <3>2, <1>1
    <2> QED
        BY <2>1, <2>2 DEF VersionsInOrder
<1>8. AcceptedHasItsVersion' /\ PinsExist'
    BY <1>1, <1>2, <1>4 DEF IInv, AcceptedHasItsVersion, PinsExist
<1>9. Sane(AfterVersion(l), versions', patches') /\ AfterVersion(l).at # "opening"
    <2>4. q.base \in 0..Len(versions) /\ q.number \in 0..Len(versions) + 1 /\ Len(versions) + 1 \in Nat
        BY <1>1 DEF Sane
    <2>5. l \in Locals /\ l.base = q.base /\ l.number = q.number
        BY <1>1, <2>4 DEF Locals
    <2>1. l.base \in 0..Len(versions') /\ l.number \in 0..Len(versions') + 1
        BY <1>1, <1>4, <2>4, <2>5
    <2>2. l.made = Len(versions) + 1 /\ l.rows = q.rows /\ q.rows \subseteq 1..Len(patches')
        BY <1>1 DEF Sane, Locals
    <2>3. l.made \in 1..Len(versions') /\ l.rows \subseteq versions'[l.made].for
        BY <1>1, <1>4, <2>2
    <2> QED
        BY <1>4, <1>5, <2>5, <2>1, <2>2, <2>3, AfterVersionSane DEF Tables
<1>10. RequestsSane' /\ OpensOnce'
    <2>1. Len(versions) <= Len(versions') /\ Len(patches) <= Len(patches')
        BY <1>1, <1>4
    <2> QED
        BY <1>2, <1>4, <1>5, <1>9, <2>1, RequestsStep, OpensStep DEF IInv
<1> QED
    BY <1>5, <1>7, <1>8, <1>10 DEF IInv

(* whether the table takes the row or refuses its number.                  *)
LEMMA InsertInv == ASSUME IInv, NEW s \in Slots, InsertVersion(s) PROVE IInv'
<1>1. CASE NumberTaken(req[s].number)
    BY <1>1, EndKeeps DEF InsertVersion, At
<1>2. CASE ~NumberTaken(req[s].number)
    BY <1>2, StoreInv DEF InsertVersion, At
<1> QED
    BY <1>1, <1>2

(* A clause is added to a row that is there: no other field changes.       *)
LEMMA ClauseInv == ASSUME IInv, NEW s \in Slots, InsertClause(s) PROVE IInv'
<1> DEFINE q == req[s]
           l == [q EXCEPT !.clauses = Tail(@)]
<1>1. /\ q \in Locals /\ Sane(q, versions, patches) /\ q.at = "writing"
      /\ versions \in Seq(VersionRows) /\ Len(versions) \in Nat /\ Len(patches) \in Nat
    BY DEF IInv, RequestsSane, Tables, InsertClause, At
<1>2. q.made \in 1..Len(versions) /\ q.clauses \in Seq(Clauses) /\ q.clauses # <<>> /\ q.rows \subseteq versions[q.made].for
    BY <1>1 DEF Sane, Locals
<1>3. Head(q.clauses) \in Clauses /\ Tail(q.clauses) \in Seq(Clauses)
    BY <1>2
<1>4. versions' = [versions EXCEPT ![q.made].clauses = Append(@, Head(q.clauses))]
    BY DEF InsertClause
<1>5. [versions[q.made] EXCEPT !.clauses = Append(@, Head(q.clauses))] \in VersionRows
    <2>1. versions[q.made] \in VersionRows
        BY <1>1, <1>2
    <2>2. Append(versions[q.made].clauses, Head(q.clauses)) \in Seq(Clauses)
        BY <2>1, <1>3 DEF VersionRows
    <2> QED
        BY <2>1, <2>2 DEF VersionRows
<1>6. versions' \in Seq(VersionRows) /\ Len(versions') = Len(versions) /\ DOMAIN versions' = DOMAIN versions
    BY <1>1, <1>2, <1>4, <1>5
<1>7. \A i \in 1..Len(versions) :
        /\ versions'[i].for = versions[i].for
        /\ versions'[i].number = versions[i].number
        /\ versions'[i].parent = versions[i].parent
    <2> SUFFICES ASSUME NEW i \in 1..Len(versions)
                 PROVE  /\ versions'[i].for = versions[i].for
                        /\ versions'[i].number = versions[i].number
                        /\ versions'[i].parent = versions[i].parent
        OBVIOUS
    <2>1. i \in DOMAIN versions /\ versions[i] \in VersionRows
        BY <1>1
    <2>2. CASE i = q.made
        <3>1. versions'[i] = [versions[i] EXCEPT !.clauses = Append(@, Head(q.clauses))]
            BY <2>1, <2>2, <1>4
        <3> QED
            BY <3>1, <2>1 DEF VersionRows
    <2>3. CASE i # q.made
        BY <2>1, <2>3, <1>4
    <2> QED
        BY <2>2, <2>3
<1>8. UNCHANGED <<patches, round, resolutions, begun>>
    BY DEF InsertClause, At
<1>9. Tables'
    BY <1>6, <1>8 DEF IInv, Tables
<1>10. VersionsInOrder'
    BY <1>1, <1>6, <1>7 DEF IInv, VersionsInOrder
<1>11. AcceptedHasItsVersion' /\ PinsExist'
    BY <1>1, <1>6, <1>7, <1>8 DEF IInv, AcceptedHasItsVersion, PinsExist
<1>12. Sane(AfterVersion(l), versions', patches') /\ AfterVersion(l).at # "opening"
    <2>1. l \in Locals /\ l.base = q.base /\ l.number = q.number /\ l.made = q.made /\ l.rows = q.rows
        BY <1>1, <1>3 DEF Locals
    <2>2. q.base \in 0..Len(versions') /\ q.number \in 0..Len(versions') + 1 /\ q.rows \subseteq 1..Len(patches')
        BY <1>1, <1>6, <1>8 DEF Sane
    <2>3. q.made \in 1..Len(versions') /\ q.rows \subseteq versions'[q.made].for
        BY <1>2, <1>6, <1>7
    <2>4. versions' \in Seq(VersionRows) /\ patches' \in Seq(PatchRows)
        BY <1>9 DEF Tables
    <2> QED
        BY <2>1, <2>2, <2>3, <2>4, AfterVersionSane
<1>13. RequestsSane' /\ OpensOnce'
    <2>1. req' = [req EXCEPT ![s] = AfterVersion(l)]
        BY DEF InsertClause, Goto
    <2>2. Len(versions) <= Len(versions') /\ Len(patches) <= Len(patches')
        BY <1>1, <1>6, <1>8
    <2> QED
        BY <2>1, <2>2, <1>7, <1>8, <1>9, <1>12, RequestsStep, OpensStep DEF IInv
<1> QED
    BY <1>9, <1>10, <1>11, <1>13 DEF IInv

(* A patch's row takes another status and version: nothing else changes.   *)
LEMMA PatchSet ==
    ASSUME Tables, NEW p \in 1..Len(patches), NEW status \in {"accepted", "rejected"}, NEW version \in Nat,
           patches' = [patches EXCEPT ![p].status = status, ![p].resolved = version],
           UNCHANGED <<versions, round, resolutions, begun>>
    PROVE  /\ Tables' /\ Len(patches') = Len(patches) /\ DOMAIN patches' = DOMAIN patches
           /\ patches'[p].status = status /\ patches'[p].resolved = version
           /\ \A o \in DOMAIN patches : o # p => patches'[o] = patches[o]
<1>1. patches \in Seq(PatchRows) /\ patches[p] \in PatchRows
    BY DEF Tables
<1>2. [patches[p] EXCEPT !.status = status, !.resolved = version] \in PatchRows
    BY <1>1 DEF PatchRows
<1>3. patches' = [patches EXCEPT ![p] = [patches[p] EXCEPT !.status = status, !.resolved = version]]
    BY <1>1
<1>4. patches' \in Seq(PatchRows) /\ Len(patches') = Len(patches) /\ DOMAIN patches' = DOMAIN patches
    BY <1>1, <1>2, <1>3
<1>5. patches'[p].status = status /\ patches'[p].resolved = version
    BY <1>1, <1>3 DEF PatchRows
<1>6. \A o \in DOMAIN patches : o # p => patches'[o] = patches[o]
    BY <1>1, <1>3
<1> QED
    BY <1>4, <1>5, <1>6 DEF Tables

(* Marking a patch as accepted keeps it, as the version is the request's   *)
(* own.                                                                    *)
LEMMA SettleInv == ASSUME IInv, NEW s \in Slots, Settle(s) PROVE IInv'
<1> DEFINE q == req[s]
<1>1. PICK p \in q.rows :
        /\ patches' = [patches EXCEPT ![p].status = "accepted", ![p].resolved = q.made]
        /\ req' = [req EXCEPT ![s] = AfterVersion([q EXCEPT !.rows = @ \ {p}])]
    BY DEF Settle, Goto
<1> DEFINE l == [q EXCEPT !.rows = @ \ {p}]
<1>2. /\ q \in Locals /\ Sane(q, versions, patches) /\ q.at = "settling"
      /\ Len(versions) \in Nat /\ Len(patches) \in Nat /\ DOMAIN versions = 1..Len(versions)
    BY DEF IInv, RequestsSane, Tables, Settle, At
<1>3. p \in 1..Len(patches) /\ q.made \in 1..Len(versions) /\ q.rows \subseteq versions[q.made].for /\ q.made \in Nat
    BY <1>1, <1>2 DEF Sane
<1>4. UNCHANGED <<versions, round, resolutions, begun>>
    BY DEF Settle, At
<1>5. /\ Tables' /\ Len(patches') = Len(patches) /\ DOMAIN patches' = DOMAIN patches
      /\ patches'[p].status = "accepted" /\ patches'[p].resolved = q.made
      /\ \A o \in DOMAIN patches : o # p => patches'[o] = patches[o]
    BY <1>1, <1>3, <1>4, PatchSet DEF IInv
<1>6. VersionsInOrder' /\ PinsExist'
    BY <1>4 DEF IInv, VersionsInOrder, PinsExist
<1>7. AcceptedHasItsVersion'
    BY <1>1, <1>2, <1>3, <1>4, <1>5 DEF IInv, AcceptedHasItsVersion
<1>8. Sane(AfterVersion(l), versions', patches') /\ AfterVersion(l).at # "opening"
    <2>1. l \in Locals /\ l.base = q.base /\ l.number = q.number /\ l.made = q.made /\ l.rows = q.rows \ {p}
        BY <1>2 DEF Locals
    <2>2. q.base \in 0..Len(versions') /\ q.number \in 0..Len(versions') + 1 /\ l.rows \subseteq 1..Len(patches')
        BY <1>2, <1>4, <1>5, <2>1 DEF Sane
    <2>3. l.made \in 1..Len(versions') /\ l.rows \subseteq versions'[l.made].for
        BY <1>3, <1>4, <2>1
    <2>4. versions' \in Seq(VersionRows) /\ patches' \in Seq(PatchRows)
        BY <1>5 DEF Tables
    <2> QED
        BY <2>1, <2>2, <2>3, <2>4, AfterVersionSane
<1>9. RequestsSane' /\ OpensOnce'
    <2>1. /\ Len(versions) <= Len(versions') /\ Len(patches) <= Len(patches')
          /\ \A i \in 1..Len(versions) : versions'[i].for = versions[i].for
        BY <1>2, <1>4, <1>5
    <2> QED
        BY <1>1, <1>4, <1>5, <1>8, <2>1, RequestsStep, OpensStep DEF IInv
<1> QED
    BY <1>5, <1>6, <1>7, <1>9 DEF IInv

-----------------------------------------------------------------------------
(* Requests that begin, and steps that change only their request.          *)

LEMMA VersionAt ==
    ASSUME Tables, NEW i \in 1..Len(versions)
    PROVE  versions[i].criteria \in SUBSET Sentences /\ versions[i].clauses \in Seq(Clauses)
<1>1. versions[i] \in VersionRows
    BY DEF Tables
<1> QED
    BY <1>1 DEF VersionRows

(* What a free slot holds.                                                 *)
LEMMA IdleFields == Idle \in Locals /\ Idle.base = 0 /\ Idle.rows = {} /\ Idle.number = 0
BY DEF Idle, Locals, Steps, Kinds

(* A stored patch has its sentence and its round.                          *)
LEMMA PatchAt ==
    ASSUME Tables, NEW p \in 1..Len(patches)
    PROVE  patches[p].text \in Sentences /\ patches[p].of \in Rounds
<1>1. patches[p] \in PatchRows
    BY DEF Tables
<1> QED
    BY <1>1 DEF PatchRows

(* A request that begins keeps the invariant.                              *)
LEMMA BeginInv ==
    ASSUME IInv, NEW s \in Slots, NEW l, Begin(s, l), Sane(l, versions, patches), l.at # "opening",
           UNCHANGED <<versions, patches, round, resolutions>>
    PROVE  IInv'
<1>1. begun' \in Nat /\ req' = [req EXCEPT ![s] = l]
    BY DEF Begin, IInv, Tables
<1> QED
    BY <1>1, RequestOnly

(* An edit that reads the current version keeps it,                        *)
LEMMA EditBeginInv == ASSUME IInv, NEW s \in Slots, EditBegin(s) PROVE IInv'
<1>1. PICK body \in Bodies \cup {Keep} :
        Begin(s, [Idle EXCEPT !.at = "editing", !.kind = "edit", !.body = body, !.base = Current,
                    !.criteria = versions[Current].criteria, !.clauses = versions[Current].clauses])
    BY DEF EditBegin
<1> DEFINE l == [Idle EXCEPT !.at = "editing", !.kind = "edit", !.body = body, !.base = Current,
                   !.criteria = versions[Current].criteria, !.clauses = versions[Current].clauses]
<1>2. versions \in Seq(VersionRows) /\ Len(versions) \in Nat /\ Current \in 1..Len(versions)
    BY CurrentExists DEF IInv, Tables
<1>3. Current \in Nat /\ versions[Current].criteria \in SUBSET Sentences /\ versions[Current].clauses \in Seq(Clauses)
    BY <1>2, VersionAt DEF IInv
<1>4. /\ l \in Locals /\ l.at = "editing" /\ l.base = Current /\ l.rows = {} /\ l.number = 0
    BY <1>3 DEF Idle, Locals, Steps, Kinds
<1>5. Sane(l, versions, patches)
    BY <1>2, <1>4 DEF Sane
<1> QED
    BY <1>1, <1>4, <1>5, BeginInv DEF EditBegin

(* so does its test for a pin,                                             *)
LEMMA EditTestInv == ASSUME IInv, NEW s \in Slots, EditTest(s) PROVE IInv'
<1> DEFINE q == req[s]
           fork == [q EXCEPT !.at = "numbering", !.criteria = Edited(q.body, @)]
           stay == [q EXCEPT !.at = "rereading", !.clauses = <<>>]
<1>1. q \in Locals /\ Sane(q, versions, patches) /\ q.at = "editing" /\ begun' \in Nat
    BY DEF IInv, RequestsSane, Tables, EditTest, TestAndBranch, At
<1>2. Edited(q.body, q.criteria) \in SUBSET Sentences
    BY <1>1, RubricConstants DEF Edited, Locals
<1>3. fork \in Locals /\ fork.at = "numbering" /\ fork.base = q.base /\ fork.rows = q.rows /\ fork.number = q.number
    BY <1>1, <1>2 DEF Locals, Steps
<1>7. stay \in Locals /\ stay.at = "rereading" /\ stay.base = q.base /\ stay.rows = q.rows /\ stay.number = q.number
    <2>1. ASSUME NEW none \in Seq(Clauses), NEW m, m = [q EXCEPT !.at = "rereading", !.clauses = none]
          PROVE  m \in Locals /\ m.at = "rereading" /\ m.base = q.base /\ m.rows = q.rows /\ m.number = q.number
        BY <1>1, <2>1 DEF Locals, Steps
    <2>2. <<>> \in Seq(Clauses)
        OBVIOUS
    <2> QED
        BY <2>1, <2>2
<1>4. Sane(fork, versions, patches) /\ Sane(stay, versions, patches)
    BY <1>1, <1>3, <1>7 DEF Sane
<1>5. req' = [req EXCEPT ![s] = fork] \/ req' = [req EXCEPT ![s] = stay]
    BY DEF EditTest, TestAndBranch, Goto
<1>6. UNCHANGED <<versions, patches, round, resolutions>>
    BY DEF EditTest, TestAndBranch
<1> QED
    BY <1>1, <1>3, <1>4, <1>5, <1>6, <1>7, RequestOnly

(* and its second reading.                                                 *)
LEMMA EditRereadInv == ASSUME IInv, NEW s \in Slots, EditReread(s) PROVE IInv'
<1> DEFINE q == req[s]
           l == [q EXCEPT !.at = "updating", !.criteria = Edited(q.body, versions[q.base].criteria)]
<1>1. /\ q \in Locals /\ Sane(q, versions, patches) /\ q.at = "rereading" /\ begun' \in Nat
      /\ versions \in Seq(VersionRows) /\ Len(versions) \in Nat
    BY DEF IInv, RequestsSane, Tables, EditReread, At
<1>2. q.base \in 1..Len(versions)
    BY <1>1 DEF Sane
<1>3. versions[q.base].criteria \in SUBSET Sentences
    BY <1>2, VersionAt DEF IInv
<1>4. Edited(q.body, versions[q.base].criteria) \in SUBSET Sentences
    BY <1>1, <1>3, RubricConstants DEF Edited, Locals
<1>5. l \in Locals /\ l.at = "updating" /\ l.base = q.base /\ l.rows = q.rows /\ l.number = q.number
    BY <1>1, <1>4 DEF Locals, Steps
<1>6. Sane(l, versions, patches)
    BY <1>1, <1>5 DEF Sane
<1> QED
    BY <1>1, <1>5, <1>6, RequestOnly DEF EditReread, Goto

(* Taking up a patch to decide on keeps the invariant.                     *)
LEMMA TakeInv ==
    ASSUME IInv, NEW s \in Slots, NEW p \in DOMAIN patches, NEW kind \in Kinds, NEW step \in {"accepting", "rejecting"},
           Take(s, p, kind, step)
    PROVE  IInv'
<1> DEFINE l == [Idle EXCEPT !.at = step, !.kind = kind, !.of = patches[p].of, !.rows = {p}]
<1>4. patches \in Seq(PatchRows) /\ Len(patches) \in Nat /\ p \in 1..Len(patches) /\ p \in Nat
    BY DEF IInv, Tables
<1>1. patches[p].of \in Rounds
    BY <1>4, PatchAt DEF IInv
<1>5. step \in Steps /\ {p} \in SUBSET Nat /\ patches[p].of \in Rounds \cup {NoRound}
    BY <1>1, <1>4 DEF Steps
<1>2. l \in Locals /\ l.at = step /\ l.base = 0 /\ l.rows = {p} /\ l.number = 0
    BY <1>5, IdleFields DEF Locals
<1>3. Sane(l, versions, patches)
    BY <1>4, <1>2 DEF Sane, IInv, Tables
<1> QED
    BY <1>2, <1>3, BeginInv DEF Take

(* Drafting a version from patches keeps it.                               *)
LEMMA DraftInv ==
    ASSUME IInv, NEW s \in Slots, req[s].at \in {"accepting", "reading"}, DraftFromPatches(s), UNCHANGED begun
    PROVE  IInv'
<1> DEFINE q == req[s]
           written == versions[Current].criteria \cup {patches[p].text : p \in q.rows}
           l == [q EXCEPT !.at = "numbering", !.base = Current, !.criteria = written]
<1>1. /\ q \in Locals /\ Sane(q, versions, patches) /\ begun' \in Nat
      /\ versions \in Seq(VersionRows) /\ Len(versions) \in Nat /\ patches \in Seq(PatchRows)
    BY DEF IInv, RequestsSane, Tables
<1>2. Current \in 1..Len(versions) /\ Current \in Nat
    BY <1>1, CurrentExists DEF IInv
<1>3. versions[Current].criteria \in SUBSET Sentences
    BY <1>2, VersionAt DEF IInv
<1>4. \A p \in q.rows : patches[p].text \in Sentences
    BY <1>1, PatchAt DEF Sane, IInv
<1>5. written \in SUBSET Sentences
    BY <1>3, <1>4
<1> HIDE DEF written
<1>6. l \in Locals /\ l.at = "numbering" /\ l.base = Current /\ l.rows = q.rows /\ l.number = q.number
    BY <1>1, <1>2, <1>5 DEF Locals, Steps
<1>7. Sane(l, versions, patches)
    BY <1>1, <1>2, <1>6 DEF Sane
<1>8. req' = [req EXCEPT ![s] = l] /\ UNCHANGED <<versions, patches, round, resolutions>>
    BY DEF DraftFromPatches, Goto, written
<1> QED
    BY <1>1, <1>6, <1>7, <1>8, RequestOnly

(* A request that mines remembers nothing but the sentences of its round.  *)
LEMMA MineSane ==
    ASSUME IInv, NEW r \in Rounds, NEW kind \in {"patches", "standards"}, NEW texts \in SUBSET Splits[r]
    PROVE  LET l == [Idle EXCEPT !.at = "mining", !.kind = kind, !.of = r, !.texts = texts]
           IN  Sane(l, versions, patches) /\ l.at # "opening"
<1> DEFINE l == [Idle EXCEPT !.at = "mining", !.kind = kind, !.of = r, !.texts = texts]
<1>1. texts \in SUBSET Sentences
    BY RubricConstants
<1>2. l \in Locals /\ l.at = "mining" /\ l.of = r /\ l.base = 0 /\ l.rows = {} /\ l.number = 0
    BY <1>1, IdleFields DEF Locals, Steps, Kinds
<1>3. Sane(l, versions, patches)
    BY <1>2 DEF Sane, IInv, Tables
<1> QED
    BY <1>2, <1>3

(* Mining a round keeps the invariant,                                     *)
LEMMA MineInv ==
    ASSUME IInv, NEW s \in Slots, NEW r \in Rounds, NEW kind \in {"patches", "standards"}, Mine(s, r, kind),
           UNCHANGED <<versions, patches, round, resolutions>>
    PROVE  IInv'
<1>1. PICK texts \in SUBSET Splits[r] :
        Begin(s, [Idle EXCEPT !.at = "mining", !.kind = kind, !.of = r, !.texts = texts])
    BY DEF Mine
<1> QED
    BY <1>1, MineSane, BeginInv

(* so does writing all of its patches into a version,                      *)
LEMMA WriteAllInv ==
    ASSUME IInv, NEW s \in Slots, NEW r \in Rounds, NEW rows \in SUBSET DOMAIN patches, WriteAll(s, r, rows),
           UNCHANGED <<versions, patches, round, resolutions>>
    PROVE  IInv'
<1> DEFINE l == [Idle EXCEPT !.at = "reading", !.kind = "standards", !.of = r, !.rows = rows]
<1>1. Len(versions) \in Nat /\ Len(patches) \in Nat /\ rows \subseteq 1..Len(patches) /\ rows \in SUBSET Nat
    BY DEF IInv, Tables
<1>2. l \in Locals /\ l.at = "reading" /\ l.base = 0 /\ l.rows = rows /\ l.number = 0
    BY <1>1, IdleFields DEF Locals, Steps, Kinds
<1>3. Sane(l, versions, patches)
    BY <1>1, <1>2 DEF Sane
<1> QED
    BY <1>2, <1>3, BeginInv DEF WriteAll

(* so does the route that does the one or the other,                       *)
LEMMA StandardsInv == ASSUME IInv, NEW s \in Slots, NEW r \in Rounds, StandardsBegin(s, r) PROVE IInv'
<1>1. CASE Mine(s, r, "standards")
    BY <1>1, MineInv DEF StandardsBegin
<1>2. CASE WriteAll(s, r, {p \in PatchesOf(r) : patches[p].status = "proposed"})
    <2>1. {p \in PatchesOf(r) : patches[p].status = "proposed"} \in SUBSET DOMAIN patches
        BY DEF PatchesOf
    <2> QED
        BY <1>2, <2>1, WriteAllInv DEF StandardsBegin
<1> QED
    BY <1>1, <1>2 DEF StandardsBegin

(* A patch is proposed: a row is added.                                    *)
LEMMA ProposalAdded ==
    ASSUME Tables, AcceptedHasItsVersion, NEW r \in Rounds, NEW text \in Sentences,
           patches' = Append(patches, Proposal(r, text)), UNCHANGED <<versions, round, resolutions, begun>>
    PROVE  Tables' /\ AcceptedHasItsVersion' /\ Len(patches') = Len(patches) + 1
<1>1. patches \in Seq(PatchRows) /\ Len(patches) \in Nat
    BY DEF Tables
<1>2. Proposal(r, text) \in PatchRows
    BY DEF Proposal, PatchRows
<1>3. patches' \in Seq(PatchRows) /\ Len(patches') = Len(patches) + 1
    BY <1>1, <1>2
<1>4. patches'[Len(patches) + 1] = Proposal(r, text) /\ \A p \in 1..Len(patches) : patches'[p] = patches[p]
    BY <1>1, <1>2
<1>5. ASSUME NEW p \in 1..Len(patches) + 1
      PROVE  IF patches'[p].status = "accepted"
               THEN patches'[p].resolved \in DOMAIN versions /\ p \in versions[patches'[p].resolved].for
               ELSE patches'[p].resolved = 0
    <2>1. CASE p = Len(patches) + 1
        BY <2>1, <1>4 DEF Proposal
    <2>2. CASE p \in 1..Len(patches)
        BY <2>2, <1>1, <1>4 DEF AcceptedHasItsVersion
    <2> QED
        BY <2>1, <2>2, <1>1
<1>6. DOMAIN patches' = 1..Len(patches) + 1
    BY <1>1, <1>3
<1>7. AcceptedHasItsVersion'
    BY <1>5, <1>6 DEF AcceptedHasItsVersion
<1> QED
    BY <1>3, <1>7 DEF Tables

(* and every patch the miner stores.                                       *)
LEMMA MineInsertInv == ASSUME IInv, NEW s \in Slots, MineInsert(s) PROVE IInv'
<1> DEFINE q == req[s]
<1>1. PICK text \in q.texts :
        /\ patches' = Append(patches, Proposal(q.of, text))
        /\ req' = [req EXCEPT ![s] = AfterMining([q EXCEPT !.texts = @ \ {text}, !.rows = @ \cup {Len(patches) + 1}])]
    BY DEF MineInsert, Goto
<1> DEFINE l == [q EXCEPT !.texts = @ \ {text}, !.rows = @ \cup {Len(patches) + 1}]
<1>2. /\ q \in Locals /\ Sane(q, versions, patches) /\ q.at = "mining" /\ Len(versions) \in Nat /\ Len(patches) \in Nat
      /\ UNCHANGED <<versions, round, resolutions, begun>>
    BY DEF IInv, RequestsSane, Tables, MineInsert, At
<1>3. q.of \in Rounds /\ text \in Sentences /\ q.texts \ {text} \in SUBSET Sentences
    BY <1>1, <1>2 DEF Sane, Locals
<1>4. Tables' /\ AcceptedHasItsVersion' /\ Len(patches') = Len(patches) + 1
    BY <1>1, <1>2, <1>3, ProposalAdded DEF IInv
<1>5. VersionsInOrder' /\ PinsExist'
    BY <1>2 DEF IInv, VersionsInOrder, PinsExist
<1>6. q.rows \cup {Len(patches) + 1} \in SUBSET (1..Len(patches')) /\ q.rows \cup {Len(patches) + 1} \in SUBSET Nat
    BY <1>2, <1>4 DEF Sane
<1>7. /\ l \in Locals /\ l.at = "mining" /\ l.of = q.of /\ l.base = q.base /\ l.number = q.number
      /\ l.rows = q.rows \cup {Len(patches) + 1}
    BY <1>2, <1>3, <1>6 DEF Locals
<1>8. Sane(AfterMining(l), versions', patches') /\ AfterMining(l).at # "opening"
    <2>1. CASE l.texts # {}
        BY <2>1, <1>2, <1>6, <1>7 DEF AfterMining, Sane
    <2>2. CASE l.texts = {} /\ l.kind = "standards"
        <3> DEFINE m == [l EXCEPT !.at = "reading"]
        <3> HIDE DEF l
        <3>1. m \in Locals /\ m.at = "reading" /\ m.base = l.base /\ m.number = l.number /\ m.rows = l.rows
            BY <1>7 DEF Locals, Steps
        <3>2. AfterMining(l) = m
            BY <2>2 DEF AfterMining
        <3> QED
            BY <3>1, <3>2, <1>2, <1>6, <1>7 DEF Sane
    <2>3. CASE l.texts = {} /\ l.kind # "standards"
        <3>1. AfterMining(l) = Idle /\ Idle.at # "opening"
            BY <2>3 DEF AfterMining, Idle
        <3> QED
            BY <3>1, <1>4, IdleIsSane DEF Tables
    <2> QED
        BY <2>1, <2>2, <2>3
<1>9. RequestsSane' /\ OpensOnce'
    <2>1. /\ Len(versions) <= Len(versions') /\ Len(patches) <= Len(patches')
          /\ \A i \in 1..Len(versions) : versions'[i].for = versions[i].for
        BY <1>2, <1>4
    <2> QED
        BY <1>1, <1>2, <1>4, <1>8, <2>1, RequestsStep, OpensStep DEF IInv
<1> QED
    BY <1>4, <1>5, <1>9 DEF IInv

(* A ship that begins keeps the invariant.                                 *)
LEMMA ShipBeginInv == ASSUME IInv, NEW s \in Slots, NEW r \in Rounds, ShipBegin(s, r) PROVE IInv'
<1> DEFINE base == round[r].pins
           l == [Idle EXCEPT !.at = "shipping", !.kind = "ship", !.of = r, !.base = base,
                   !.criteria = versions[base].criteria, !.clauses = versions[base].clauses]
<1>1. base \in 1..Len(versions) /\ base \in Nat /\ Len(versions) \in Nat
    BY DEF IInv, PinsExist, ShipBegin, Closed, Tables
<1>2. versions[base].criteria \in SUBSET Sentences /\ versions[base].clauses \in Seq(Clauses)
    BY <1>1, VersionAt DEF IInv
<1>3. l \in Locals /\ l.at = "shipping" /\ l.of = r /\ l.base = base /\ l.rows = {} /\ l.number = 0
    <2> HIDE DEF base
    <2> QED
        BY <1>1, <1>2, IdleFields DEF Locals, Steps, Kinds
<1>4. Sane(l, versions, patches)
    BY <1>1, <1>3 DEF Sane, IInv, Tables
<1> QED
    BY <1>3, <1>4, BeginInv DEF ShipBegin

(* A set of clauses is added as a sequence of them.                        *)
LEMMA AdditionsAreClauses ==
    ASSUME NEW S \in SUBSET Clauses, NEW f \in SetToSeqs(S)
    PROVE  f \in Seq(Clauses)
<1>1. Cardinality(S) \in Nat
    BY RubricConstants, FS_Subset, FS_CardinalityType
<1>2. f \in [1..Cardinality(S) -> S]
    BY DEF SetToSeqs
<1> QED
    BY <1>1, <1>2

(* A ship that reads the version to build on keeps the invariant.          *)
LEMMA ShipReadInv == ASSUME IInv, NEW s \in Slots, ShipRead(s) PROVE IInv'
<1> DEFINE q == req[s]
           settled == resolutions[q.of]
<1>1. /\ q \in Locals /\ Sane(q, versions, patches) /\ q.at = "shipping" /\ begun' = begun /\ begun' \in Nat
      /\ UNCHANGED <<versions, patches, round, resolutions>>
    BY DEF IInv, RequestsSane, Tables, ShipRead, At
<1>2. CASE settled = {}
    BY <1>1, <1>2, EndKeeps DEF ShipRead
<1>3. CASE settled # {}
    <2>1. PICK additions \in SetToSeqs(settled \ Range(q.clauses)) :
            req' = [req EXCEPT ![s] = [q EXCEPT !.at = "numbering", !.clauses = @ \o additions]]
        BY <1>3 DEF ShipRead, Goto
    <2> DEFINE l == [q EXCEPT !.at = "numbering", !.clauses = @ \o additions]
    <2>2. settled \ Range(q.clauses) \in SUBSET Clauses
        BY <1>1 DEF Sane, IInv, Tables
    <2>3. additions \in Seq(Clauses) /\ q.clauses \in Seq(Clauses)
        BY <1>1, <2>2, AdditionsAreClauses DEF Locals
    <2>4. q.clauses \o additions \in Seq(Clauses)
        BY <2>3
    <2>5. l \in Locals /\ l.at = "numbering" /\ l.base = q.base /\ l.rows = q.rows /\ l.number = q.number
        BY <1>1, <2>4 DEF Locals, Steps
    <2>6. Sane(l, versions, patches)
        BY <1>1, <2>5 DEF Sane
    <2> QED
        BY <1>1, <2>1, <2>5, <2>6, RequestOnly
<1> QED
    BY <1>2, <1>3

(* A request that is about to open a round keeps it,                       *)
LEMMA OpenBeginInv == ASSUME IInv, NEW s \in Slots, NEW r \in Rounds, OpenBegin(s, r) PROVE IInv'
<1>1. PICK i \in DOMAIN versions : Begin(s, [Idle EXCEPT !.at = "opening", !.kind = "open", !.of = r, !.base = i])
    BY DEF OpenBegin
<1> DEFINE l == [Idle EXCEPT !.at = "opening", !.kind = "open", !.of = r, !.base = i]
<1>2. /\ Len(versions) \in Nat /\ Len(patches) \in Nat /\ i \in 1..Len(versions) /\ i \in Nat
      /\ req' = [req EXCEPT ![s] = l] /\ begun' \in Nat
      /\ UNCHANGED <<versions, patches, round, resolutions>>
    <2>1. Len(versions) \in Nat /\ Len(patches) \in Nat /\ DOMAIN versions = 1..Len(versions) /\ begun \in Nat
        BY DEF IInv, Tables
    <2>2. i \in 1..Len(versions) /\ i \in Nat
        BY <2>1
    <2>3. req' = [req EXCEPT ![s] = l] /\ begun' \in Nat
        BY <1>1, <2>1 DEF Begin
    <2> QED
        BY <2>1, <2>2, <2>3 DEF OpenBegin
<1>3. l \in Locals /\ l.at = "opening" /\ l.of = r /\ l.base = i /\ l.rows = {} /\ l.number = 0
    BY <1>2, IdleFields DEF Locals, Steps, Kinds
<1>4. Sane(l, versions, patches)
    BY <1>2, <1>3 DEF Sane
<1>5. Tables' /\ VersionsInOrder' /\ AcceptedHasItsVersion' /\ PinsExist'
    BY <1>2 DEF IInv, Tables, VersionsInOrder, AcceptedHasItsVersion, PinsExist
<1>6. RequestsSane'
    <2>1. /\ Len(versions) <= Len(versions') /\ Len(patches) <= Len(patches')
          /\ \A j \in 1..Len(versions) : versions'[j].for = versions[j].for
        BY <1>2
    <2>2. Sane(l, versions', patches')
        BY <1>2, <1>4
    <2> QED
        BY <1>2, <1>5, <2>1, <2>2, RequestsStep DEF IInv
<1>7. OpensOnce'
    <2>1. round[r].status = "none" /\ \A t \in Slots : req[t].at = "opening" => req[t].of # r
        BY DEF OpenBegin
    <2>2. req \in [Slots -> Locals] /\ OpensOnce
        BY DEF IInv, RequestsSane
    <2>3. ASSUME NEW t \in Slots, req'[t].at = "opening"
          PROVE  /\ round'[req'[t].of].status = "none"
                 /\ \A u \in Slots : u # t /\ req'[u].at = "opening" => req'[u].of # req'[t].of
        <3>1. req'[s].of = r /\ \A u \in Slots : u # s => req'[u] = req[u]
            BY <1>2, <1>3, <2>2
        <3>2. CASE t = s
            BY <3>1, <3>2, <2>1, <1>2
        <3>3. CASE t # s
            BY <3>1, <3>3, <2>1, <2>2, <2>3, <1>2 DEF OpensOnce
        <3> QED
            BY <3>2, <3>3
    <2> QED
        BY <2>3 DEF OpensOnce
<1> QED
    BY <1>5, <1>6, <1>7 DEF IInv

-----------------------------------------------------------------------------
(* The other steps that change a table.                                    *)

LEMMA UpdateInv == ASSUME IInv, NEW s \in Slots, EditUpdate(s) PROVE IInv'
<1> DEFINE q == req[s]
<1>1. /\ q \in Locals /\ Sane(q, versions, patches) /\ q.at = "updating"
      /\ versions \in Seq(VersionRows) /\ Len(versions) \in Nat /\ Len(patches) \in Nat
      /\ UNCHANGED <<patches, round, resolutions, begun>>
    BY DEF IInv, RequestsSane, Tables, EditUpdate, At
<1>2. q.base \in 1..Len(versions) /\ q.criteria \in SUBSET Sentences
    BY <1>1 DEF Sane, Locals
<1>3. versions[q.base] \in VersionRows
    BY <1>1, <1>2
<1>4. [versions[q.base] EXCEPT !.criteria = q.criteria] \in VersionRows
    BY <1>2, <1>3 DEF VersionRows
<1>5. versions' = [versions EXCEPT ![q.base] = [versions[q.base] EXCEPT !.criteria = q.criteria]]
    BY DEF EditUpdate
<1>6. versions' \in Seq(VersionRows) /\ Len(versions') = Len(versions) /\ DOMAIN versions' = DOMAIN versions
    BY <1>1, <1>2, <1>4, <1>5
<1>7. ASSUME NEW i \in 1..Len(versions)
      PROVE  /\ versions'[i].for = versions[i].for
             /\ versions'[i].number = versions[i].number
             /\ versions'[i].parent = versions[i].parent
    <2>1. i \in DOMAIN versions /\ versions[i] \in VersionRows
        BY <1>1
    <2>2. CASE i = q.base
        <3>1. versions'[i] = [versions[i] EXCEPT !.criteria = q.criteria]
            BY <2>1, <2>2, <1>5
        <3> QED
            BY <3>1, <2>1 DEF VersionRows
    <2>3. CASE i # q.base
        BY <2>1, <2>3, <1>5
    <2> QED
        BY <2>2, <2>3
<1>8. Tables'
    BY <1>1, <1>6 DEF IInv, Tables
<1>9. VersionsInOrder'
    BY <1>1, <1>6, <1>7 DEF IInv, VersionsInOrder
<1>10. AcceptedHasItsVersion' /\ PinsExist'
    BY <1>1, <1>6, <1>7 DEF IInv, AcceptedHasItsVersion, PinsExist
<1>11. RequestsSane' /\ OpensOnce'
    <2>1. req' = [req EXCEPT ![s] = Idle] /\ Idle.at # "opening"
        BY DEF EditUpdate, End, Goto, Idle
    <2>2. Sane(Idle, versions', patches')
        BY <1>8, IdleIsSane DEF Tables
    <2>3. Len(versions) <= Len(versions') /\ Len(patches) <= Len(patches')
        BY <1>1, <1>6
    <2> QED
        BY <2>1, <2>2, <2>3, <1>1, <1>7, <1>8, RequestsStep, OpensStep DEF IInv
<1> QED
    BY <1>8, <1>9, <1>10, <1>11 DEF IInv

(* so does a patch rejected,                                               *)
LEMMA RejectInv == ASSUME IInv, NEW s \in Slots, Reject(s) PROVE IInv'
<1>1. PICK p \in req[s].rows : patches' = [patches EXCEPT ![p].status = "rejected", ![p].resolved = 0]
    BY DEF Reject
<1>2. /\ Sane(req[s], versions, patches) /\ Len(versions) \in Nat /\ Len(patches) \in Nat
      /\ UNCHANGED <<versions, round, resolutions, begun>>
    BY DEF IInv, RequestsSane, Tables, Reject, At
<1>3. p \in 1..Len(patches)
    BY <1>1, <1>2 DEF Sane
<1>4. /\ Tables' /\ Len(patches') = Len(patches) /\ DOMAIN patches' = DOMAIN patches
      /\ patches'[p].status = "rejected" /\ patches'[p].resolved = 0
      /\ \A o \in DOMAIN patches : o # p => patches'[o] = patches[o]
    BY <1>1, <1>2, <1>3, PatchSet DEF IInv
<1>5. VersionsInOrder' /\ PinsExist' /\ AcceptedHasItsVersion'
    BY <1>2, <1>4 DEF IInv, VersionsInOrder, PinsExist, AcceptedHasItsVersion
<1>6. RequestsSane' /\ OpensOnce'
    <2>1. req' = [req EXCEPT ![s] = Idle] /\ Idle.at # "opening"
        BY DEF Reject, End, Goto, Idle
    <2>2. Sane(Idle, versions', patches')
        BY <1>4, IdleIsSane DEF Tables
    <2>3. /\ Len(versions) <= Len(versions') /\ Len(patches) <= Len(patches')
          /\ \A i \in 1..Len(versions) : versions'[i].for = versions[i].for
        BY <1>2, <1>4
    <2> QED
        BY <2>1, <2>2, <2>3, <1>2, <1>4, RequestsStep, OpensStep DEF IInv
<1> QED
    BY <1>4, <1>5, <1>6 DEF IInv

(* a round that pins the version read for it,                              *)
LEMMA OpenInv == ASSUME IInv, NEW s \in Slots, Open(s) PROVE IInv'
<1> DEFINE q == req[s]
<1>1. /\ q \in Locals /\ Sane(q, versions, patches) /\ q.at = "opening" /\ Len(versions) \in Nat /\ Len(patches) \in Nat
      /\ UNCHANGED <<versions, patches, resolutions, begun>>
      /\ round' = [round EXCEPT ![q.of] = [status |-> "open", pins |-> q.base]]
    BY DEF IInv, RequestsSane, Tables, Open, At
<1>2. q.of \in Rounds /\ q.base \in 1..Len(versions) /\ q.base \in Nat
    BY <1>1 DEF Sane
<1>3. req' = [req EXCEPT ![s] = Idle] /\ Idle.at # "opening"
    BY DEF Open, End, Goto, Idle
<1>4. Tables' /\ VersionsInOrder' /\ AcceptedHasItsVersion' /\ PinsExist'
    BY <1>1, <1>2 DEF IInv, Tables, VersionsInOrder, AcceptedHasItsVersion, PinsExist
<1>5. RequestsSane'
    <2>1. Sane(Idle, versions', patches')
        BY <1>4, IdleIsSane DEF Tables
    <2>2. /\ Len(versions) <= Len(versions') /\ Len(patches) <= Len(patches')
          /\ \A i \in 1..Len(versions) : versions'[i].for = versions[i].for
        BY <1>1
    <2> QED
        BY <1>3, <1>4, <2>1, <2>2, RequestsStep DEF IInv
<1>6. OpensOnce'
    BY <1>1, <1>2, <1>3 DEF IInv, OpensOnce, Tables, RequestsSane
<1> QED
    BY <1>4, <1>5, <1>6 DEF IInv

(* and what people do in one step.                                         *)
LEMMA OwnerInv == ASSUME IInv, Owner PROVE IInv'
<1> SUFFICES ASSUME NEW r \in Rounds, FalseSettle(r) \/ Resolve(r) \/ Withdraw(r) \/ Close(r) PROVE IInv'
    BY DEF Owner
<1>0. Len(versions) \in Nat /\ Len(patches) \in Nat
    BY DEF IInv, Tables
<1>1. CASE FalseSettle(r)
    <2>1. PICK text \in OwnReasons : patches' = Append(patches, Proposal(r, text))
        BY <1>1 DEF FalseSettle
    <2>2. text \in Sentences /\ UNCHANGED <<versions, round, resolutions, req, begun>>
        BY <1>1 DEF Sentences, FalseSettle
    <2>3. Tables' /\ AcceptedHasItsVersion' /\ Len(patches') = Len(patches) + 1
        BY <2>1, <2>2, ProposalAdded DEF IInv
    <2>4. \A s \in Slots : Sane(req[s], versions, patches')
        BY <1>0, <2>3, SaneGrows DEF IInv, RequestsSane
    <2> QED
        BY <2>2, <2>3, <2>4 DEF IInv, VersionsInOrder, PinsExist, OpensOnce, RequestsSane
<1>2. CASE Resolve(r) \/ Withdraw(r)
    <2>1. UNCHANGED <<versions, patches, round, req, begun>> /\ resolutions' \in [Rounds -> SUBSET Clauses]
        BY <1>2 DEF Resolve, Withdraw, IInv, Tables
    <2> QED
        BY <2>1 DEF IInv, Tables, VersionsInOrder, AcceptedHasItsVersion, PinsExist, OpensOnce, RequestsSane
<1>3. CASE Close(r)
    <2>1. /\ UNCHANGED <<versions, patches, resolutions, req, begun>>
          /\ round' = [round EXCEPT ![r].status = "closed"] /\ round[r].status = "open"
        BY <1>3 DEF Close
    <2>2. /\ round' \in [Rounds -> [status: {"none", "open", "closed"}, pins: Nat]]
          /\ \A o \in Rounds : round'[o].pins = round[o].pins /\ (round'[o].status = "none" <=> round[o].status = "none")
        BY <2>1 DEF IInv, Tables
    <2>3. Tables' /\ VersionsInOrder' /\ AcceptedHasItsVersion' /\ PinsExist' /\ RequestsSane'
        BY <2>1, <2>2 DEF IInv, Tables, VersionsInOrder, AcceptedHasItsVersion, PinsExist, RequestsSane
    <2>4. OpensOnce'
        BY <2>1, <2>2 DEF IInv, OpensOnce, RequestsSane, Sane
    <2> QED
        BY <2>3, <2>4 DEF IInv
<1> QED
    BY <1>1, <1>2, <1>3

(* The invariant is inductive.                                             *)
LEMMA NextInv == IInv /\ [Next]_vars => IInv'
<1> SUFFICES ASSUME IInv, [Next]_vars PROVE IInv'
    OBVIOUS
<1>1. CASE UNCHANGED vars
    BY <1>1 DEF vars, IInv, Tables, VersionsInOrder, AcceptedHasItsVersion, PinsExist, OpensOnce, RequestsSane
<1>2. CASE Owner
    BY <1>2, OwnerInv
<1>3. ASSUME NEW s \in Slots, Creating(s) PROVE IInv'
    BY <1>3, NumberInv, InsertInv, ClauseInv, SettleInv DEF Creating
<1>4. ASSUME NEW s \in Slots, Editing(s) PROVE IInv'
    BY <1>4, EditBeginInv, EditTestInv, EditRereadInv, UpdateInv DEF Editing
<1>5. ASSUME NEW s \in Slots, Deciding(s) PROVE IInv'
    <2>1. CASE \E p \in DOMAIN patches : AcceptBegin(s, p) \/ RejectBegin(s, p)
        <3>1. "accept" \in Kinds /\ "reject" \in Kinds
            BY DEF Kinds
        <3> QED
            BY <2>1, <3>1, TakeInv DEF AcceptBegin, RejectBegin
    <2>2. CASE AcceptBase(s)
        BY <2>2, DraftInv DEF AcceptBase, At
    <2>3. CASE Reject(s)
        BY <2>3, RejectInv
    <2> QED
        BY <1>5, <2>1, <2>2, <2>3 DEF Deciding
<1>6. ASSUME NEW s \in Slots, Writing(s) PROVE IInv'
    <2>1. CASE \E r \in Rounds : MineBegin(s, r) \/ StandardsBegin(s, r)
        BY <2>1, MineInv, StandardsInv DEF MineBegin
    <2>2. CASE MineInsert(s)
        BY <2>2, MineInsertInv
    <2>3. CASE StandardsBase(s)
        BY <2>3, DraftInv DEF StandardsBase, At
    <2> QED
        BY <1>6, <2>1, <2>2, <2>3 DEF Writing
<1>7. ASSUME NEW s \in Slots, Shipping(s) PROVE IInv'
    BY <1>7, ShipBeginInv, ShipReadInv DEF Shipping
<1>8. ASSUME NEW s \in Slots, Opening(s) PROVE IInv'
    BY <1>8, OpenBeginInv, OpenInv DEF Opening
<1>9. ASSUME NEW s \in Slots, Die(s) PROVE IInv'
    BY <1>9, EndKeeps DEF Die
<1> QED
    BY <1>1, <1>2, <1>3, <1>4, <1>5, <1>6, <1>7, <1>8, <1>9 DEF Next

(* The inductive invariant holds in every reachable state, however many    *)
(* requests there are and wherever they die.                               *)
THEOREM Invariance == Spec => []IInv
<1> QED
    BY InitInv, NextInv, PTL DEF Spec

(* In every reachable state rows and locals have their types.              *)
THEOREM TypeCorrect == Spec => []TypeOK
<1>1. IInv => TypeOK
    BY DEF IInv, Tables, RequestsSane, TypeOK
<1> QED
    BY <1>1, Invariance, PTL

(* Whichever writers read the same last number, the versions are numbered  *)
(* 1, 2, 3 and each was made from an older one (createRubricVersion).      *)
THEOREM Ordering == Spec => []VersionsInOrder
<1>1. IInv => VersionsInOrder
    BY DEF IInv
<1> QED
    BY <1>1, Invariance, PTL

(* An accepted patch names a version that was stored, and for it (accept   *)
(* and standards routes).                                                  *)
THEOREM Acceptance == Spec => []AcceptedHasItsVersion
<1>1. IInv => AcceptedHasItsVersion
    BY DEF IInv
<1> QED
    BY <1>1, Invariance, PTL

-----------------------------------------------------------------------------
(* What a request's next locals l inherit from its locals q: only the test *)
(* for a pin leads to an update in place, clauses are only added to a row  *)
(* of one's own, and only proposed patches are taken up.                   *)
Follows(l, q) ==
    /\ l.at \in {"rereading", "updating"} => ~Pinned(l.base) \/ (q.at = "rereading" /\ l.base = q.base)
    /\ l.at = "writing" => l.made = Len(versions) + 1 \/ (q.at = "writing" /\ l.made = q.made)
    /\ \A p \in l.rows : p \in q.rows \/ p = Len(patches) + 1 \/ (p \in DOMAIN patches /\ patches[p].status = "proposed")

Follow(s) == \E l : req' = [req EXCEPT ![s] = l] /\ Follows(l, req[s])

(* A request that ends inherits nothing.                                   *)
LEMMA EndFollows == ASSUME NEW s \in Slots, End(s) PROVE Follow(s)
<1>1. Follows(Idle, req[s])
    BY DEF Follows, Idle
<1> QED
    BY <1>1 DEF End, Goto, Follow

(* Steps on the way to no update in place, that take up only patches       *)
(* proposed or just stored, inherit as they should;                        *)
LEMMA QuietFollows ==
    ASSUME NEW s \in Slots, NEW l, req' = [req EXCEPT ![s] = l],
           l.at \notin {"rereading", "updating", "writing"},
           \A p \in l.rows : p \in req[s].rows \/ p = Len(patches) + 1 \/ (p \in DOMAIN patches /\ patches[p].status = "proposed")
    PROVE  Follow(s)
BY DEF Follow, Follows

(* so do those that go on from a version stored,                           *)
LEMMA AfterVersionFollows ==
    ASSUME NEW s \in Slots, NEW q \in Locals, req' = [req EXCEPT ![s] = AfterVersion(q)],
           q.rows \subseteq req[s].rows,
           q.clauses # <<>> => q.made = Len(versions) + 1 \/ (req[s].at = "writing" /\ q.made = req[s].made)
    PROVE  Follow(s)
<1>1. CASE q.clauses # <<>>
    <2>1. AfterVersion(q) = [q EXCEPT !.at = "writing"]
        BY <1>1 DEF AfterVersion
    <2>2. [q EXCEPT !.at = "writing"].at = "writing" /\ [q EXCEPT !.at = "writing"].rows = q.rows
          /\ [q EXCEPT !.at = "writing"].made = q.made
        BY DEF Locals
    <2>3. Follows([q EXCEPT !.at = "writing"], req[s])
        BY <1>1, <2>2 DEF Follows
    <2> QED
        BY <2>1, <2>3 DEF Follow
<1>2. CASE q.clauses = <<>> /\ q.rows # {}
    <2>1. AfterVersion(q) = [q EXCEPT !.at = "settling"]
        BY <1>2 DEF AfterVersion
    <2>2. [q EXCEPT !.at = "settling"].at = "settling" /\ [q EXCEPT !.at = "settling"].rows = q.rows
        BY DEF Locals
    <2> QED
        BY <2>1, <2>2, QuietFollows
<1>3. CASE q.clauses = <<>> /\ q.rows = {}
    BY <1>3, EndFollows DEF AfterVersion, End, Goto
<1> QED
    BY <1>1, <1>2, <1>3

(* hence all that create versions,                                         *)
LEMMA CreatingFollows == ASSUME IInv, NEW s \in Slots, Creating(s) PROVE Follow(s)
<1> DEFINE q == req[s]
<1>1. q \in Locals /\ Sane(q, versions, patches) /\ Len(versions) \in Nat
    BY DEF IInv, RequestsSane, Tables
<1>2. CASE NumberVersion(s)
    <2> DEFINE l == [q EXCEPT !.at = "inserting", !.number = LastNumber + 1]
    <2>1. l.at = "inserting" /\ l.rows = q.rows
        BY <1>1 DEF Locals
    <2> QED
        BY <1>2, <2>1, QuietFollows DEF NumberVersion, Goto
<1>3. CASE InsertVersion(s)
    <2> DEFINE l == [q EXCEPT !.made = Len(versions) + 1]
    <2>1. l \in Locals /\ l.rows = q.rows /\ l.made = Len(versions) + 1
        <3>1. Len(versions) + 1 \in Nat
            BY <1>1
        <3> QED
            BY <1>1, <3>1 DEF Locals
    <2>2. End(s) \/ req' = [req EXCEPT ![s] = AfterVersion(l)]
        BY <1>3 DEF InsertVersion, Store, Goto
    <2> HIDE DEF l
    <2> QED
        BY <2>1, <2>2, EndFollows, AfterVersionFollows
<1>4. CASE InsertClause(s)
    <2> DEFINE l == [q EXCEPT !.clauses = Tail(@)]
    <2>1. q.clauses \in Seq(Clauses) /\ q.clauses # <<>> /\ q.at = "writing"
        BY <1>1, <1>4 DEF Sane, Locals, InsertClause, At
    <2>2. Tail(q.clauses) \in Seq(Clauses)
        BY <2>1
    <2>3. l \in Locals /\ l.rows = q.rows /\ l.made = q.made
        BY <1>1, <2>2 DEF Locals
    <2>4. req' = [req EXCEPT ![s] = AfterVersion(l)]
        BY <1>4 DEF InsertClause, Goto
    <2> HIDE DEF l
    <2> QED
        BY <2>1, <2>3, <2>4, AfterVersionFollows
<1>5. CASE Settle(s)
    <2>1. PICK p \in q.rows : req' = [req EXCEPT ![s] = AfterVersion([q EXCEPT !.rows = @ \ {p}])]
        BY <1>5 DEF Settle, Goto
    <2> DEFINE l == [q EXCEPT !.rows = @ \ {p}]
    <2>2. l \in Locals /\ l.rows = q.rows \ {p} /\ l.made = q.made /\ l.clauses = q.clauses
        BY <1>1 DEF Locals
    <2>3. q.clauses = <<>>
        BY <1>1, <1>5 DEF Sane, Settle, At
    <2> HIDE DEF l
    <2> QED
        BY <2>1, <2>2, <2>3, AfterVersionFollows DEF l
<1> QED
    BY <1>2, <1>3, <1>4, <1>5 DEF Creating

(* all requests that begin,                                                *)
LEMMA BeginFollows ==
    ASSUME NEW s \in Slots, NEW l, Begin(s, l), l.at \notin {"rereading", "updating", "writing"},
           \A p \in l.rows : p \in DOMAIN patches /\ patches[p].status = "proposed"
    PROVE  Follow(s)
BY QuietFollows DEF Begin

(* the edits,                                                              *)
LEMMA EditingFollows == ASSUME IInv, NEW s \in Slots, Editing(s) PROVE Follow(s)
<1> DEFINE q == req[s]
<1>1. q \in Locals
    BY DEF IInv, RequestsSane
<1>2. CASE EditBegin(s)
    <2>1. PICK body \in Bodies \cup {Keep} :
            Begin(s, [Idle EXCEPT !.at = "editing", !.kind = "edit", !.body = body, !.base = Current,
                        !.criteria = versions[Current].criteria, !.clauses = versions[Current].clauses])
        BY <1>2 DEF EditBegin
    <2> DEFINE l == [Idle EXCEPT !.at = "editing", !.kind = "edit", !.body = body, !.base = Current,
                       !.criteria = versions[Current].criteria, !.clauses = versions[Current].clauses]
    <2>2. l.at = "editing" /\ l.rows = {}
        BY DEF Idle
    <2> QED
        BY <2>1, <2>2, BeginFollows
<1>3. CASE EditTest(s)
    <2> DEFINE fork == [q EXCEPT !.at = "numbering", !.criteria = Edited(q.body, @)]
               stay == [q EXCEPT !.at = "rereading", !.clauses = <<>>]
    <2>1. CASE Pinned(q.base)
        <3>1. req' = [req EXCEPT ![s] = fork] /\ fork.at = "numbering" /\ fork.rows = q.rows
            BY <1>1, <1>3, <2>1 DEF EditTest, TestAndBranch, Goto, Locals
        <3> QED
            BY <3>1, QuietFollows
    <2>2. CASE ~Pinned(q.base)
        <3>1. req' = [req EXCEPT ![s] = stay]
            BY <1>3, <2>2 DEF EditTest, TestAndBranch, Goto
        <3>2. stay.at = "rereading" /\ stay.base = q.base /\ stay.rows = q.rows
            BY <1>1 DEF Locals
        <3> QED
            BY <2>2, <3>1, <3>2 DEF Follow, Follows
    <2> QED
        BY <2>1, <2>2
<1>4. CASE EditReread(s)
    <2> DEFINE l == [q EXCEPT !.at = "updating", !.criteria = Edited(q.body, versions[q.base].criteria)]
    <2>1. req' = [req EXCEPT ![s] = l] /\ q.at = "rereading"
        BY <1>4 DEF EditReread, At, Goto
    <2>2. l.at = "updating" /\ l.base = q.base /\ l.rows = q.rows
        BY <1>1 DEF Locals
    <2>3. Follows(l, q)
        BY <2>1, <2>2 DEF Follows
    <2> QED
        BY <2>1, <2>3 DEF Follow
<1>5. CASE EditUpdate(s)
    BY <1>5, EndFollows DEF EditUpdate
<1> QED
    BY <1>2, <1>3, <1>4, <1>5 DEF Editing

(* the drafts,                                                             *)
LEMMA DraftFollows == ASSUME IInv, NEW s \in Slots, DraftFromPatches(s) PROVE Follow(s)
<1> DEFINE q == req[s]
           written == versions[Current].criteria \cup {patches[p].text : p \in q.rows}
           l == [q EXCEPT !.at = "numbering", !.base = Current, !.criteria = written]
<1>1. q \in Locals
    BY DEF IInv, RequestsSane
<1>2. req' = [req EXCEPT ![s] = l] /\ l.at = "numbering" /\ l.rows = q.rows
    BY <1>1 DEF DraftFromPatches, Goto, Locals
<1> QED
    BY <1>2, QuietFollows

(* the decisions,                                                          *)
LEMMA DecidingFollows == ASSUME IInv, NEW s \in Slots, Deciding(s) PROVE Follow(s)
<1>1. ASSUME NEW p \in DOMAIN patches, NEW kind, NEW step \in {"accepting", "rejecting"}, Take(s, p, kind, step)
      PROVE  Follow(s)
    <2> DEFINE l == [Idle EXCEPT !.at = step, !.kind = kind, !.of = patches[p].of, !.rows = {p}]
    <2>1. l.at = step /\ l.rows = {p}
        BY DEF Idle
    <2> QED
        BY <1>1, <2>1, BeginFollows DEF Take
<1>2. CASE \E p \in DOMAIN patches : AcceptBegin(s, p) \/ RejectBegin(s, p)
    BY <1>1, <1>2 DEF AcceptBegin, RejectBegin
<1>3. CASE AcceptBase(s)
    BY <1>3, DraftFollows DEF AcceptBase
<1>4. CASE Reject(s)
    BY <1>4, EndFollows DEF Reject
<1> QED
    BY <1>2, <1>3, <1>4 DEF Deciding

(* the routes that write patches,                                          *)
LEMMA WritingFollows == ASSUME IInv, NEW s \in Slots, Writing(s) PROVE Follow(s)
<1> DEFINE q == req[s]
<1>1. q \in Locals /\ Len(patches) + 1 \in Nat
    BY DEF IInv, RequestsSane, Tables
<1>2. ASSUME NEW r \in Rounds, NEW kind, Mine(s, r, kind) PROVE Follow(s)
    <2>1. PICK texts : Begin(s, [Idle EXCEPT !.at = "mining", !.kind = kind, !.of = r, !.texts = texts])
        BY <1>2 DEF Mine
    <2>2. /\ [Idle EXCEPT !.at = "mining", !.kind = kind, !.of = r, !.texts = texts].at = "mining"
          /\ [Idle EXCEPT !.at = "mining", !.kind = kind, !.of = r, !.texts = texts].rows = {}
        BY DEF Idle
    <2> QED
        BY <2>1, <2>2, BeginFollows
<1>3. ASSUME NEW r \in Rounds, WriteAll(s, r, {p \in PatchesOf(r) : patches[p].status = "proposed"}) PROVE Follow(s)
    <2> DEFINE rows == {p \in PatchesOf(r) : patches[p].status = "proposed"}
               l == [Idle EXCEPT !.at = "reading", !.kind = "standards", !.of = r, !.rows = rows]
    <2>1. l.at = "reading" /\ l.rows = rows
        BY DEF Idle
    <2>2. \A p \in rows : p \in DOMAIN patches /\ patches[p].status = "proposed"
        BY DEF PatchesOf
    <2> QED
        BY <1>3, <2>1, <2>2, BeginFollows DEF WriteAll
<1>4. CASE MineInsert(s)
    <2>1. PICK text \in q.texts :
            req' = [req EXCEPT ![s] = AfterMining([q EXCEPT !.texts = @ \ {text}, !.rows = @ \cup {Len(patches) + 1}])]
        BY <1>4 DEF MineInsert, Goto
    <2> DEFINE l == [q EXCEPT !.texts = @ \ {text}, !.rows = @ \cup {Len(patches) + 1}]
               m == [l EXCEPT !.at = "reading"]
    <2>2. q.at = "mining"
        BY <1>4 DEF MineInsert, At
    <2>3. l.at = "mining" /\ l.rows = q.rows \cup {Len(patches) + 1} /\ m.at = "reading" /\ m.rows = l.rows
        BY <1>1, <2>2 DEF Locals
    <2>4. AfterMining(l) \in {l, m, Idle}
        BY DEF AfterMining
    <2>5. req' = [req EXCEPT ![s] = AfterMining(l)]
        BY <2>1
    <2> HIDE DEF l, m
    <2>6. CASE AfterMining(l) = Idle
        BY <2>5, <2>6, EndFollows DEF End, Goto
    <2>7. CASE AfterMining(l) = l
        BY <2>3, <2>5, <2>7, QuietFollows
    <2>8. CASE AfterMining(l) = m
        BY <2>3, <2>5, <2>8, QuietFollows
    <2> QED
        BY <2>4, <2>6, <2>7, <2>8
<1>5. CASE StandardsBase(s)
    BY <1>5, DraftFollows DEF StandardsBase
<1> QED
    BY <1>2, <1>3, <1>4, <1>5 DEF Writing, MineBegin, StandardsBegin

(* the ships,                                                              *)
LEMMA ShippingFollows == ASSUME IInv, NEW s \in Slots, Shipping(s) PROVE Follow(s)
<1> DEFINE q == req[s]
<1>1. q \in Locals
    BY DEF IInv, RequestsSane
<1>2. ASSUME NEW r \in Rounds, ShipBegin(s, r) PROVE Follow(s)
    <2> DEFINE base == round[r].pins
               l == [Idle EXCEPT !.at = "shipping", !.kind = "ship", !.of = r, !.base = base,
                       !.criteria = versions[base].criteria, !.clauses = versions[base].clauses]
    <2>1. l.at = "shipping" /\ l.rows = {}
        BY DEF Idle
    <2> QED
        BY <1>2, <2>1, BeginFollows DEF ShipBegin
<1>3. CASE ShipRead(s)
    <2>1. CASE End(s)
        BY <2>1, EndFollows
    <2>2. CASE ~End(s)
        <3>1. PICK additions : req' = [req EXCEPT ![s] = [q EXCEPT !.at = "numbering", !.clauses = @ \o additions]]
            BY <1>3, <2>2 DEF ShipRead, Goto
        <3>2. /\ [q EXCEPT !.at = "numbering", !.clauses = @ \o additions].at = "numbering"
              /\ [q EXCEPT !.at = "numbering", !.clauses = @ \o additions].rows = q.rows
            BY <1>1 DEF Locals
        <3> QED
            BY <3>1, <3>2, QuietFollows
    <2> QED
        BY <2>1, <2>2
<1> QED
    BY <1>2, <1>3 DEF Shipping

(* and the openings.                                                       *)
LEMMA OpeningFollows == ASSUME IInv, NEW s \in Slots, Opening(s) PROVE Follow(s)
<1>1. ASSUME NEW r \in Rounds, OpenBegin(s, r) PROVE Follow(s)
    <2>1. PICK i \in DOMAIN versions : Begin(s, [Idle EXCEPT !.at = "opening", !.kind = "open", !.of = r, !.base = i])
        BY <1>1 DEF OpenBegin
    <2>2. /\ [Idle EXCEPT !.at = "opening", !.kind = "open", !.of = r, !.base = i].at = "opening"
          /\ [Idle EXCEPT !.at = "opening", !.kind = "open", !.of = r, !.base = i].rows = {}
        BY DEF Idle
    <2> QED
        BY <2>1, <2>2, BeginFollows
<1>2. CASE Open(s)
    BY <1>2, EndFollows DEF Open
<1> QED
    BY <1>1, <1>2 DEF Opening

(* In every step the requests stay, or one goes on as it should.           *)
LEMMA NextFollows ==
    ASSUME IInv, [Next]_vars
    PROVE  req' = req \/ \E s \in Slots : Follow(s)
<1>1. CASE UNCHANGED vars
    BY <1>1 DEF vars
<1>2. CASE Owner
    BY <1>2 DEF Owner, FalseSettle, Resolve, Withdraw, Close
<1>3. ASSUME NEW s \in Slots,
             Creating(s) \/ Editing(s) \/ Deciding(s) \/ Writing(s) \/ Shipping(s) \/ Opening(s) \/ Die(s)
      PROVE  Follow(s)
    BY <1>3, CreatingFollows, EditingFollows, DecidingFollows, WritingFollows, ShippingFollows, OpeningFollows,
       EndFollows DEF Die
<1> QED
    BY <1>1, <1>2, <1>3 DEF Next

-----------------------------------------------------------------------------
(* Which steps write which table.                                          *)
LEMMA VersionWriters ==
    ASSUME [Next]_vars
    PROVE  \/ versions' = versions
           \/ \E s \in Slots : (req[s].at = "inserting" /\ Store(s)) \/ InsertClause(s) \/ EditUpdate(s)
<1>1. CASE UNCHANGED vars
    BY <1>1 DEF vars
<1>2. CASE Owner
    BY <1>2 DEF Owner, FalseSettle, Resolve, Withdraw, Close
<1>3. ASSUME NEW s \in Slots, Creating(s)
      PROVE  versions' = versions \/ (req[s].at = "inserting" /\ Store(s)) \/ InsertClause(s)
    BY <1>3 DEF Creating, NumberVersion, InsertVersion, Settle, At
<1>4. ASSUME NEW s \in Slots, Editing(s)
      PROVE  versions' = versions \/ EditUpdate(s)
    BY <1>4 DEF Editing, EditBegin, EditTest, TestAndBranch, EditReread
<1>5. ASSUME NEW s \in Slots, Deciding(s) \/ Writing(s) \/ Shipping(s) \/ Opening(s) \/ Die(s)
      PROVE  versions' = versions
    BY <1>5 DEF Deciding, AcceptBegin, RejectBegin, Take, AcceptBase, DraftFromPatches, Reject, Writing, MineBegin,
       StandardsBegin, MineInsert, StandardsBase, Shipping, ShipBegin, ShipRead, Opening, OpenBegin, Open, Die
<1> QED
    BY <1>1, <1>2, <1>3, <1>4, <1>5 DEF Next

(* Only an opening and a close write a round.                              *)
LEMMA RoundWriters ==
    ASSUME [Next]_vars
    PROVE  round' = round \/ (\E s \in Slots : Open(s)) \/ (\E r \in Rounds : Close(r))
<1>1. CASE UNCHANGED vars
    BY <1>1 DEF vars
<1>2. CASE Owner
    BY <1>2 DEF Owner, FalseSettle, Resolve, Withdraw
<1>3. ASSUME NEW s \in Slots, Creating(s) \/ Editing(s) \/ Die(s)
      PROVE  round' = round
    BY <1>3 DEF Creating, NumberVersion, InsertVersion, InsertClause, Settle, Editing, EditBegin, EditTest,
       TestAndBranch, EditReread, EditUpdate, Die
<1>4. ASSUME NEW s \in Slots, Deciding(s) \/ Writing(s) \/ Shipping(s)
      PROVE  round' = round
    BY <1>4 DEF Deciding, AcceptBegin, RejectBegin, Take, AcceptBase, DraftFromPatches, Reject, Writing, MineBegin,
       StandardsBegin, MineInsert, StandardsBase, Shipping, ShipBegin, ShipRead
<1>5. ASSUME NEW s \in Slots, Opening(s)
      PROVE  round' = round \/ Open(s)
    BY <1>5 DEF Opening, OpenBegin
<1> QED
    BY <1>1, <1>2, <1>3, <1>4, <1>5 DEF Next

(* Only the steps named write patches.                                     *)
LEMMA PatchWriters ==
    ASSUME [Next]_vars
    PROVE  \/ patches' = patches
           \/ \E s \in Slots : Settle(s) \/ Reject(s) \/ MineInsert(s)
           \/ \E r \in Rounds : FalseSettle(r)
<1>1. CASE UNCHANGED vars
    BY <1>1 DEF vars
<1>2. CASE Owner
    BY <1>2 DEF Owner, Close, Resolve, Withdraw
<1>3. ASSUME NEW s \in Slots, Creating(s) \/ Editing(s) \/ Die(s)
      PROVE  patches' = patches \/ Settle(s)
    BY <1>3 DEF Creating, NumberVersion, InsertVersion, InsertClause, Editing, EditBegin, EditTest,
       TestAndBranch, EditReread, EditUpdate, Die
<1>4. ASSUME NEW s \in Slots, Deciding(s) \/ Writing(s)
      PROVE  patches' = patches \/ Reject(s) \/ MineInsert(s)
    BY <1>4 DEF Deciding, AcceptBegin, RejectBegin, Take, AcceptBase, DraftFromPatches, Writing, MineBegin,
       StandardsBegin, StandardsBase
<1>5. ASSUME NEW s \in Slots, Shipping(s) \/ Opening(s)
      PROVE  patches' = patches
    BY <1>5 DEF Shipping, ShipBegin, ShipRead, Opening, OpenBegin, Open
<1> QED
    BY <1>1, <1>2, <1>3, <1>4, <1>5 DEF Next

-----------------------------------------------------------------------------
(* A pin is never taken back: a round that is opened had none.             *)
LEMMA PinStays == ASSUME IInv, [Next]_vars, NEW i, Pinned(i) PROVE Pinned(i)'
<1>1. PICK r \in Rounds : round[r].status # "none" /\ round[r].pins = i
    BY DEF Pinned
<1>2. SUFFICES round'[r].status # "none" /\ round'[r].pins = i
    BY DEF Pinned
<1>3. round \in [Rounds -> [status: {"none", "open", "closed"}, pins: Nat]]
    BY DEF IInv, Tables
<1>4. ASSUME NEW s \in Slots, Open(s)
      PROVE  round'[r] = round[r]
    <2>1. r # req[s].of
        BY <1>1, <1>4 DEF IInv, OpensOnce, Open, At
    <2> QED
        BY <1>3, <1>4, <2>1 DEF Open
<1>5. ASSUME NEW c \in Rounds, Close(c)
      PROVE  round'[r].status # "none" /\ round'[r].pins = round[r].pins
    BY <1>1, <1>3, <1>5 DEF Close
<1> QED
    BY <1>1, <1>4, <1>5, RoundWriters

(* A version no request may still change stays as it is.                   *)
LEMMA VersionStays ==
    ASSUME IInv, [Next]_vars, NEW i \in DOMAIN versions, \A s \in Slots : ~Touches(s, i)
    PROVE  versions'[i] = versions[i]
<1>1. versions \in Seq(VersionRows) /\ Len(versions) \in Nat
    BY DEF IInv, Tables
<1>2. ASSUME NEW s \in Slots, Store(s)
      PROVE  versions'[i] = versions[i]
    BY <1>1, <1>2 DEF Store
<1>3. ASSUME NEW s \in Slots, InsertClause(s)
      PROVE  versions'[i] = versions[i]
    <2>1. req[s].made # i
        BY <1>3 DEF InsertClause, At, Touches
    <2> QED
        BY <1>1, <1>3, <2>1 DEF InsertClause
<1>4. ASSUME NEW s \in Slots, EditUpdate(s)
      PROVE  versions'[i] = versions[i]
    <2>1. req[s].base # i
        BY <1>4 DEF EditUpdate, At, Touches
    <2> QED
        BY <1>1, <1>4, <2>1 DEF EditUpdate
<1> QED
    BY <1>2, <1>3, <1>4, VersionWriters

(* No request turns to a version that is pinned and left alone.            *)
LEMMA NobodyTouches ==
    ASSUME IInv, [Next]_vars, NEW i \in DOMAIN versions, Settled(i), NEW t \in Slots
    PROVE  ~Touches(t, i)'
<1>1. CASE req' = req
    BY <1>1 DEF Settled, Touches
<1>2. ASSUME NEW s \in Slots, Follow(s)
      PROVE  ~Touches(t, i)'
    <2>1. PICK l : req' = [req EXCEPT ![s] = l] /\ Follows(l, req[s])
        BY <1>2 DEF Follow
    <2>2. req \in [Slots -> Locals]
        BY DEF IInv, RequestsSane
    <2>3. CASE t # s
        BY <2>1, <2>2, <2>3 DEF Settled, Touches
    <2>4. CASE t = s
        <3>1. req'[t] = l
            BY <2>1, <2>2, <2>4
        <3>2. i # Len(versions) + 1
            BY DEF IInv, Tables
        <3>3. ~(l.at \in {"rereading", "updating"} /\ l.base = i)
            BY <2>1, <2>4 DEF Follows, Settled, Touches
        <3>4. ~(l.at = "writing" /\ l.made = i)
            BY <2>1, <3>2 DEF Follows, Settled, Touches
        <3> QED
            BY <3>1, <3>3, <3>4 DEF Touches
    <2> QED
        BY <2>3, <2>4
<1> QED
    BY <1>1, <1>2, NextFollows

(* Once a round pins a version and the requests that were past their test  *)
(* by then have ended, its content never changes again (PUT rubric,        *)
(* createRubricVersion).                                                   *)
THEOREM Standing == Spec => SettledVersionsStand
<1>1. ASSUME IInv, [Next]_vars, NEW i \in DOMAIN versions, Settled(i)
      PROVE  versions'[i] = versions[i] /\ Settled(i)'
    <2>1. versions'[i] = versions[i]
        BY <1>1, VersionStays DEF Settled
    <2>2. Pinned(i)'
        BY <1>1, PinStays DEF Settled
    <2>3. \A t \in Slots : ~Touches(t, i)'
        BY <1>1, NobodyTouches
    <2> QED
        BY <2>1, <2>2, <2>3 DEF Settled
<1>2. IInv /\ [Next]_vars => [\A i \in DOMAIN versions : Settled(i) => versions'[i] = versions[i] /\ Settled(i)']_vars
    BY <1>1
<1> QED
    BY <1>2, Invariance, PTL DEF Spec, SettledVersionsStand

-----------------------------------------------------------------------------
(* A patch no request is about stays as it is.                             *)
LEMMA PatchStays ==
    ASSUME IInv, [Next]_vars, NEW p \in DOMAIN patches, Decided(p)
    PROVE  patches'[p] = patches[p]
<1>1. patches \in Seq(PatchRows) /\ Len(patches) \in Nat
    BY DEF IInv, Tables
<1>2. ASSUME NEW s \in Slots, Settle(s)
      PROVE  patches'[p] = patches[p]
    <2>1. PICK o \in req[s].rows : patches' = [patches EXCEPT ![o].status = "accepted", ![o].resolved = req[s].made]
        BY <1>2 DEF Settle
    <2>2. o # p
        BY DEF Decided
    <2> QED
        BY <1>1, <2>1, <2>2
<1>3. ASSUME NEW s \in Slots, Reject(s)
      PROVE  patches'[p] = patches[p]
    <2>1. PICK o \in req[s].rows : patches' = [patches EXCEPT ![o].status = "rejected", ![o].resolved = 0]
        BY <1>3 DEF Reject
    <2>2. o # p
        BY DEF Decided
    <2> QED
        BY <1>1, <2>1, <2>2
<1>4. ASSUME NEW row, patches' = Append(patches, row)
      PROVE  patches'[p] = patches[p]
    BY <1>1, <1>4
<1> QED
    BY <1>2, <1>3, <1>4, PatchWriters DEF MineInsert, FalseSettle

(* No request takes up a patch that is decided.                            *)
LEMMA NobodyTakes ==
    ASSUME IInv, [Next]_vars, NEW p \in DOMAIN patches, Decided(p), NEW t \in Slots
    PROVE  p \notin req'[t].rows
<1>1. CASE req' = req
    BY <1>1 DEF Decided
<1>2. ASSUME NEW s \in Slots, Follow(s)
      PROVE  p \notin req'[t].rows
    <2>1. PICK l : req' = [req EXCEPT ![s] = l] /\ Follows(l, req[s])
        BY <1>2 DEF Follow
    <2>2. req \in [Slots -> Locals]
        BY DEF IInv, RequestsSane
    <2>3. CASE t # s
        BY <2>1, <2>2, <2>3 DEF Decided
    <2>4. CASE t = s
        <3>1. req'[t] = l
            BY <2>1, <2>2, <2>4
        <3>2. p # Len(patches) + 1
            BY DEF IInv, Tables
        <3> QED
            BY <2>1, <3>1, <3>2 DEF Follows, Decided
    <2> QED
        BY <2>3, <2>4
<1> QED
    BY <1>1, <1>2, NextFollows

(* Once a patch is decided and every request that saw it proposed is over, *)
(* the decision stands (accept, reject and standards routes).              *)
THEOREM Finality == Spec => DecisionsStand
<1>1. ASSUME IInv, [Next]_vars, NEW p \in DOMAIN patches, Decided(p)
      PROVE  patches'[p] = patches[p] /\ Decided(p)'
    <2>1. patches'[p] = patches[p]
        BY <1>1, PatchStays
    <2>2. \A t \in Slots : p \notin req'[t].rows
        BY <1>1, NobodyTakes
    <2> QED
        BY <1>1, <2>1, <2>2 DEF Decided
<1>2. IInv /\ [Next]_vars => [\A p \in DOMAIN patches : Decided(p) => patches'[p] = patches[p] /\ Decided(p)']_vars
    BY <1>1
<1> QED
    BY <1>2, Invariance, PTL DEF Spec, DecisionsStand
=============================================================================
