-------------------------- MODULE PanelSeatsProofs --------------------------
(***************************************************************************)
(* What the bench of a project promises for any names, families and        *)
(* endpoints, any number of handlers at a time, and any bounds.            *)
(***************************************************************************)
EXTENDS PanelSeats, FiniteSetTheorems, TLAPS

(* A seat that is about to be deleted is on record as deleted.             *)
RecordOK ==
    /\ \A r \in In("remove", "delete") : <<"remove", request[r].id>> \in log
    /\ RemovalsAreOnRecord

(* A family that is an endpoint's is one that is registered, or one that   *)
(* was being dropped while a seat was being rewritten.                     *)
Known(f) == f \in Endpoints => f \in endpoints \cup raced

(* So is every family a seat has or a rewrite is about to write; and while *)
(* a rewrite is under way every drop is one that raced with it.  A drop    *)
(* that did not has no seat on its endpoint.                               *)
RaceOK ==
    /\ \A i \in Seated : Known(seat[i].family)
    /\ \A r \in In("add", "insert") : request[r].row.family \in Registry
    /\ \A r \in In("rewrite", "read") : request[r].place # <<>> => Known(request[r].place[1])
    /\ \A r \in In("rewrite", "write") : Known(request[r].row.family)
    /\ InFlight("rewrite") # {} => \A d \in In("drop", "delete") : request[d].endpoint \in raced
    /\ \A d \in In("drop", "delete") : request[d].endpoint \in raced \/ Used(request[d].endpoint) = {}

(* Benches begin with the literalist.                                      *)
BenchesOK ==
    /\ \A bench \in proposals : bench \in Seq(Names) /\ bench # <<>> /\ bench[1] = Literalist
    /\ \A r \in In("seat", "insert") : request[r].bench \in proposals /\ request[r].done < Len(request[r].bench)

(* The bench seated is the beginning of one proposal, and of the requests  *)
(* that are seating only that one's has got past its first seat.           *)
Winner(bench) ==
    /\ last <= Len(bench)
    /\ \A i \in 1..last : seat[i] = [name |-> bench[i], family |-> FamilyAt(i - 1)]
    /\ \A r \in In("seat", "insert") : request[r].done \in {0, last}
    /\ \A r \in In("seat", "insert") : request[r].done # 0 => request[r].bench = bench
    /\ \A r, q \in In("seat", "insert") : request[r].done # 0 /\ request[q].done # 0 => r = q
    /\ last = Len(bench) \/ cut \/ \E r \in In("seat", "insert") : request[r].done # 0

Untouched ==
    /\ InFlight("add") \cup InFlight("rewrite") \cup InFlight("remove") = {}
    /\ Seated = 1..last
    /\ last = 0 => \A r \in In("seat", "insert") : request[r].done = 0
    /\ last > 0 => \E bench \in proposals : Winner(bench)
    /\ \E n \in 0..last : page.seats = 1..n

BenchInv == BenchTypeOK /\ RecordOK /\ RaceOK /\ BenchesOK /\ (~touched => Untouched)

-----------------------------------------------------------------------------
(* The operators.                                                          *)

(* Every position has a registry family; the first ones have one each.     *)
LEMMA FamilyOfPosition ==
    /\ \A n \in Nat : FamilyAt(n) \in Registry
    /\ \A n \in 0..(Len(Families) - 1) : FamilyAt(n) = Families[n + 1]
    /\ Len(Families) \in Nat \ {0} /\ DOMAIN Families = 1..Len(Families)
<1>1. Len(Families) \in Nat \ {0} /\ DOMAIN Families = 1..Len(Families)
    BY BenchConstants
<1>2. ASSUME NEW L \in Nat \ {0}, NEW n \in Nat PROVE n % L \in 0..(L - 1) /\ (n < L => n % L = n)
    OBVIOUS
<1>3. \A n \in Nat : 1 + (n % Len(Families)) \in DOMAIN Families
    BY <1>1, <1>2
<1>4. \A n \in Nat : FamilyAt(n) \in Registry
    BY <1>3 DEF FamilyAt, Registry
<1>5. ASSUME NEW n \in 0..(Len(Families) - 1) PROVE FamilyAt(n) = Families[n + 1]
    <2>1. n \in Nat /\ n < Len(Families)
        BY <1>1
    <2>2. n % Len(Families) = n
        BY <1>1, <1>2, <2>1
    <2> QED
        BY <2>1, <2>2 DEF FamilyAt
<1> QED
    BY <1>1, <1>4, <1>5

(* The mark of a deleted seat is no seat.                                  *)
LEMMA GoneIsNoSeat == Gone \notin SeatRow
BY BenchConstants DEF Gone, SeatRow

(* What a handler has read, by its operation and stage.                    *)
LEMMA Shapes ==
    ASSUME NEW q \in Handlers
    PROVE  /\ q.op = "seat" /\ q.stage = "insert" =>
                q \in [op : {"seat"}, stage : {"insert"}, bench : Seq(Names), done : Nat]
           /\ q.op = "add" /\ q.stage = "insert" => q \in [op : {"add"}, stage : {"insert"}, row : SeatRow]
           /\ q.op = "rewrite" /\ q.stage = "read" =>
                q \in [op : {"rewrite"}, stage : {"read"}, id : Ids,
                       name : UpToOne(Names), place : UpToOne(Registry \cup Endpoints)]
           /\ q.op = "rewrite" /\ q.stage = "write" =>
                q \in [op : {"rewrite"}, stage : {"write"}, id : Ids, row : SeatRow]
           /\ q.op = "remove" /\ q.stage = "delete" => q \in [op : {"remove"}, stage : {"delete"}, id : Ids]
           /\ q.stage = "log" => q \in [op : {"add", "rewrite", "remove"}, stage : {"log"}, id : Ids]
           /\ q.op = "drop" /\ q.stage = "delete" =>
                q \in [op : {"drop"}, stage : {"delete"}, endpoint : Endpoints]
           /\ q.op \in {"none", "seat", "add", "rewrite", "remove", "drop"}
           /\ q.stage = "idle" <=> q = Idle
           /\ q.op = "none" <=> q = Idle
BY DEF Handlers, Idle

(* What a handler may come to hold.                                        *)
LEMMA IdleHandler == Idle \in Handlers
BY DEF Handlers

-----------------------------------------------------------------------------
(* Type correctness, and that no two seats have one name.                  *)

(* The invariant holds of a project without seats.                         *)
LEMMA InitBench == Init => BenchInv
<1> SUFFICES ASSUME Init PROVE BenchInv
    OBVIOUS
<1> USE DEF Init
<1>1. Seated = {} /\ \A r \in Requests : request[r] = Idle
    BY DEF Seated
<1>2. last = 0 /\ 1..last = {} /\ 0 \in 0..MaxSeats
    BY BenchConstants
<1>3. \A op, stage : op # "none" => In(op, stage) = {} /\ InFlight(op) = {}
    BY <1>1 DEF In, InFlight, Idle
<1>4. BenchTypeOK
    <2>1. request \in [Requests -> Handlers] /\ page \in Pages
        BY IdleHandler DEF Pages
    <2>2. seat \in [Ids -> SeatRow \cup {Gone}] /\ \A i \in Ids : seat[i] = Gone
        OBVIOUS
    <2>3. work \in 0..MaxWork /\ crashes \in 0..MaxCrashes
        BY BenchConstants
    <2> QED
        BY <1>1, <1>2, <2>1, <2>2, <2>3 DEF BenchTypeOK
<1>5. RecordOK
    BY <1>2, <1>3 DEF RecordOK, RemovalsAreOnRecord
<1>6. RaceOK
    BY <1>1, <1>3 DEF RaceOK
<1>7. BenchesOK
    BY <1>3 DEF BenchesOK
<1>8. Untouched
    <2>1. page.seats = 1..0 /\ 0 \in 0..last
        BY <1>2 DEF Listening
    <2> QED
        BY <1>1, <1>2, <1>3, <2>1 DEF Untouched
<1> QED
    BY <1>4, <1>5, <1>6, <1>7, <1>8 DEF BenchInv

(* Inserting a row whose name nobody has keeps the names apart.            *)
LEMMA InsertTypes ==
    ASSUME BenchTypeOK, NEW row \in SeatRow, Inserts(row)
    PROVE  /\ last' = last + 1 /\ last' \in Ids /\ last' \in 0..MaxSeats
           /\ seat' \in [Ids -> SeatRow \cup {Gone}]
           /\ seat'[last'] = row /\ \A i \in Ids \ {last'} : seat'[i] = seat[i]
           /\ Seated' = Seated \cup {last'} /\ last' \notin Seated
           /\ \A i \in Ids : i > last' => seat'[i] = Gone
           /\ \A i, j \in Seated' : seat'[i].name = seat'[j].name => i = j
<1> USE DEF BenchTypeOK
<1>1. /\ last \in Nat /\ last' = last + 1 /\ last' \in Ids /\ last' \in 0..MaxSeats
      /\ seat' = [seat EXCEPT ![last'] = row]
    BY BenchConstants DEF Inserts, Ids
<1>2. seat'[last'] = row /\ (\A i \in Ids \ {last'} : seat'[i] = seat[i])
      /\ seat' \in [Ids -> SeatRow \cup {Gone}]
    BY <1>1
<1>3. seat'[last'] # Gone
    BY <1>2, GoneIsNoSeat
<1>4. Seated' = Seated \cup {last'} /\ last' \notin Seated
    <2>1. \A i : i \in 1..last' <=> i \in 1..last \/ i = last'
        BY <1>1
    <2>2. \A i \in 1..last : i \in Ids \ {last'}
        BY <1>1, BenchConstants DEF Ids
    <2>3. last' \notin 1..last
        BY <1>1
    <2> QED
        BY <1>2, <1>3, <2>1, <2>2, <2>3 DEF Seated
<1>5. \A i \in Ids : i > last' => seat'[i] = Gone
    BY <1>1, <1>2 DEF Ids
<1>6. \A i \in Seated : seat[i].name # row.name /\ i \in Ids /\ i # last'
    BY <1>1, <1>4, BenchConstants DEF Inserts, NameTaken, Seated, Ids
<1>7. \A i, j \in Seated' : seat'[i].name = seat'[j].name => i = j
    BY <1>2, <1>4, <1>6
<1> QED
    BY <1>1, <1>2, <1>4, <1>5, <1>7

(* A handler goes on to what it is to hold; the others hold what they did. *)
LEMMA GoesTypes ==
    ASSUME request \in [Requests -> Handlers], NEW r \in Requests, NEW todo, Goes(r, todo)
    PROVE  /\ request'[r] = todo /\ \A q \in Requests \ {r} : request'[q] = request[q]
           /\ todo \in Handlers => request' \in [Requests -> Handlers]
BY DEF Goes

(* Seating a panel keeps the types,                                        *)
LEMMA SeatingType ==
    ASSUME BenchTypeOK, BenchesOK, NEW r \in Requests, Seating(r)
    PROVE  BenchTypeOK'
<1> USE DEF BenchTypeOK
<1>0. request[r] \in Handlers
    OBVIOUS
<1>1. CASE SeatBegin(r)
    <2>1. [op |-> "seat", stage |-> "writer"] \in Handlers
        BY DEF Handlers
    <2>2. request' \in [Requests -> Handlers]
        BY <1>1, <2>1, IdleHandler, GoesTypes DEF SeatBegin, Ends
    <2>3. work' \in 0..MaxWork
        BY <1>1, BenchConstants DEF SeatBegin, Takes
    <2> QED
        BY <1>1, <2>2, <2>3 DEF SeatBegin, Seated
<1>2. CASE SeatProposed(r)
    <2>1. PICK names \in Proposed \cup {Offline} :
            /\ Goes(r, [op |-> "seat", stage |-> "insert", bench |-> <<Literalist>> \o names, done |-> 0])
            /\ proposals' = proposals \cup {<<Literalist>> \o names}
        BY <1>2 DEF SeatProposed
    <2>2. names \in Seq(Titles)
        <3>1. ASSUME names \in Proposed PROVE names \in Seq(Titles)
            <4>1. PICK n \in 0..Count : names \in [1..n -> Titles]
                BY <3>1 DEF Proposed
            <4>2. n \in Nat
                BY BenchConstants
            <4> QED
                BY <4>1, <4>2
        <3> QED
            BY <2>1, <3>1, BenchConstants
    <2>3. <<Literalist>> \o names \in Seq(Names)
        <3>1. names \in Seq(Names) /\ <<Literalist>> \in Seq(Names)
            BY <2>2 DEF Names
        <3> QED
            BY <3>1
    <2>4. [op |-> "seat", stage |-> "insert", bench |-> <<Literalist>> \o names, done |-> 0] \in Handlers
        BY <2>3 DEF Handlers
    <2>5. request' \in [Requests -> Handlers]
        BY <2>1, <2>4, GoesTypes
    <2> QED
        BY <1>2, <2>1, <2>3, <2>5 DEF SeatProposed, Seated
<1>3. CASE SeatInsert(r)
    <2>1. request[r] \in [op : {"seat"}, stage : {"insert"}, bench : Seq(Names), done : Nat]
        BY <1>0, <1>3, Shapes DEF SeatInsert, In
    <2>2. [name |-> request[r].bench[request[r].done + 1], family |-> FamilyAt(request[r].done)] \in SeatRow
        <3>1. request[r].done < Len(request[r].bench)
            BY <1>3 DEF SeatInsert, BenchesOK
        <3> QED
            BY <2>1, <3>1, FamilyOfPosition DEF SeatRow
    <2>3. [request[r] EXCEPT !.done = @ + 1] \in Handlers
        <3>1. [request[r] EXCEPT !.done = @ + 1] \in
                 [op : {"seat"}, stage : {"insert"}, bench : Seq(Names), done : Nat]
            BY <2>1
        <3> QED
            BY <3>1 DEF Handlers
    <2>4. request' \in [Requests -> Handlers]
        BY <1>3, <2>3, IdleHandler, GoesTypes DEF SeatInsert, Ends
    <2> QED
        BY <1>3, <2>2, <2>4, InsertTypes DEF SeatInsert
<1>4. CASE SeatCollides(r)
    <2>1. request' \in [Requests -> Handlers]
        BY <1>4, IdleHandler, GoesTypes DEF SeatCollides, Ends
    <2>2. cut' \in BOOLEAN
        BY <1>4 DEF SeatCollides
    <2> QED
        BY <1>4, <2>1, <2>2 DEF SeatCollides, Seated
<1> QED
    BY <1>1, <1>2, <1>3, <1>4 DEF Seating

(* so do the edits of seats,                                               *)
LEMMA EditingType ==
    ASSUME BenchTypeOK, NEW r \in Requests, Editing(r)
    PROVE  BenchTypeOK'
<1> USE DEF BenchTypeOK
<1>0. request[r] \in Handlers
    OBVIOUS
<1> DEFINE Steady == UNCHANGED <<seat, last, endpoints, log, page, proposals, cut, crashes>>
<1>t. \A i, op : i \in Ids /\ op \in {"add", "rewrite", "remove"} => [op |-> op, stage |-> "log", id |-> i] \in Handlers
    BY DEF Handlers
(* A handler that has only read.                                           *)
<1>1. ASSUME Steady, NEW todo \in Handlers, Goes(r, todo), Takes(r) \/ UNCHANGED work,
             touched' \in BOOLEAN, raced' \subseteq Endpoints
      PROVE  BenchTypeOK'
    <2>1. work' \in 0..MaxWork
        BY <1>1, BenchConstants DEF Takes
    <2>2. request' \in [Requests -> Handlers]
        BY <1>1, GoesTypes
    <2> QED
        BY <1>1, <2>1, <2>2 DEF Seated
<1>2. CASE AddBegin(r)
    <2>1. PICK name \in Names : Goes(r, [op |-> "add", stage |-> "insert",
                 row |-> [name |-> name, family |-> FamilyAt(Cardinality(Seated))]])
        BY <1>2 DEF AddBegin
    <2>2. Cardinality(Seated) \in Nat
        <3>1. IsFiniteSet(1..last)
            BY BenchConstants, FS_Interval
        <3> QED
            BY <3>1, FS_Subset, FS_CardinalityType DEF Seated
    <2>3. [op |-> "add", stage |-> "insert", row |-> [name |-> name, family |-> FamilyAt(Cardinality(Seated))]] \in Handlers
        <3>1. [name |-> name, family |-> FamilyAt(Cardinality(Seated))] \in SeatRow
            BY <2>2, FamilyOfPosition DEF SeatRow
        <3> QED
            BY <3>1 DEF Handlers
    <2> QED
        BY <1>1, <1>2, <2>1, <2>3 DEF AddBegin
<1>3. CASE AddInsert(r)
    <2>1. request[r] \in [op : {"add"}, stage : {"insert"}, row : SeatRow]
        BY <1>0, <1>3, Shapes DEF AddInsert, In
    <2>2. CASE Ends(r) /\ UNCHANGED <<seat, last>>
        BY <1>1, <1>3, <2>2, IdleHandler DEF AddInsert, Ends
    <2>3. CASE Inserts(request[r].row) /\ Goes(r, [op |-> "add", stage |-> "log", id |-> last + 1])
        <3>1. request[r].row \in SeatRow
            BY <2>1
        <3>2. last + 1 \in Ids
            BY <2>3, <3>1, InsertTypes
        <3>3. [op |-> "add", stage |-> "log", id |-> last + 1] \in Handlers
            BY <1>t, <3>2
        <3>4. request' \in [Requests -> Handlers]
            BY <2>3, <3>3, GoesTypes
        <3> QED
            BY <1>3, <2>3, <3>1, <3>4, InsertTypes DEF AddInsert
    <2> QED
        BY <1>3, <2>2, <2>3 DEF AddInsert
<1>4. ASSUME NEW i \in Ids, RewriteBegin(r, i) PROVE BenchTypeOK'
    <2>1. PICK name \in UpToOne(Names), place \in UpToOne(Places(i)) :
            Goes(r, [op |-> "rewrite", stage |-> "read", id |-> i, name |-> name, place |-> place])
        BY <1>4 DEF RewriteBegin
    <2>2. Places(i) \subseteq Registry \cup Endpoints
        <3>1. IsFiniteSet(1..last)
            BY BenchConstants, FS_Interval
        <3>2. Cardinality(Seated \ {i}) \in Nat
            BY <3>1, FS_Subset, FS_CardinalityType DEF Seated
        <3> QED
            BY <3>2, FamilyOfPosition DEF Places
    <2>3. place \in UpToOne(Registry \cup Endpoints)
        BY <2>2 DEF UpToOne
    <2>4. [op |-> "rewrite", stage |-> "read", id |-> i, name |-> name, place |-> place] \in Handlers
        BY <2>3 DEF Handlers
    <2>5. raced' \subseteq Endpoints
        <3>1. \A d \in In("drop", "delete") : request[d].endpoint \in Endpoints
            BY Shapes DEF In
        <3> QED
            BY <1>4, <3>1 DEF RewriteBegin
    <2> QED
        BY <1>1, <1>4, <2>1, <2>4, <2>5 DEF RewriteBegin
<1>5. CASE RewriteRead(r)
    <2>1. request[r] \in [op : {"rewrite"}, stage : {"read"}, id : Ids,
                          name : UpToOne(Names), place : UpToOne(Registry \cup Endpoints)]
        BY <1>0, <1>5, Shapes DEF RewriteRead, In
    <2>2. CASE Ends(r)
        BY <1>1, <1>5, <2>2, IdleHandler DEF RewriteRead, Ends
    <2>3. CASE request[r].id \in Seated
        <3>1. PICK row :
                /\ Goes(r, [op |-> "rewrite", stage |-> "write", id |-> request[r].id, row |-> row])
                /\ row = [name |-> IF request[r].name = <<>> THEN seat[request[r].id].name ELSE request[r].name[1],
                          family |-> IF request[r].place = <<>> THEN seat[request[r].id].family ELSE request[r].place[1]]
            BY <1>5, <2>3 DEF RewriteRead
        <3>2. seat[request[r].id] \in SeatRow
            BY <2>1, <2>3 DEF Seated
        <3>3. row \in SeatRow
            BY <2>1, <3>1, <3>2 DEF SeatRow, UpToOne
        <3>4. [op |-> "rewrite", stage |-> "write", id |-> request[r].id, row |-> row] \in Handlers
            BY <2>1, <3>3 DEF Handlers
        <3> QED
            BY <1>1, <1>5, <3>1, <3>4 DEF RewriteRead
    <2> QED
        BY <1>5, <2>2, <2>3 DEF RewriteRead
<1>6. CASE RewriteWrite(r)
    <2>1. request[r] \in [op : {"rewrite"}, stage : {"write"}, id : Ids, row : SeatRow]
        BY <1>0, <1>6, Shapes DEF RewriteWrite, In
    <2>2. CASE Ends(r) /\ UNCHANGED seat
        BY <1>1, <1>6, <2>2, IdleHandler DEF RewriteWrite, Ends
    <2>3. CASE /\ request[r].id \in Seated /\ ~NameTaken(request[r].row.name, {request[r].id})
               /\ seat' = [seat EXCEPT ![request[r].id] = request[r].row]
               /\ Goes(r, [op |-> "rewrite", stage |-> "log", id |-> request[r].id])
        <3>1. request[r].id \in Ids /\ request[r].row \in SeatRow /\ request[r].row # Gone
            BY <2>1, GoneIsNoSeat
        <3>2. request' \in [Requests -> Handlers]
            BY <1>t, <2>3, <3>1, GoesTypes
        <3>3. /\ seat' \in [Ids -> SeatRow \cup {Gone}] /\ UNCHANGED last
              /\ seat'[request[r].id] = request[r].row
              /\ \A i \in Ids \ {request[r].id} : seat'[i] = seat[i]
            BY <1>6, <2>3, <3>1 DEF RewriteWrite
        <3>4. Seated' = Seated /\ \A i \in Ids : i > last' => seat'[i] = Gone
            BY <2>3, <3>1, <3>3, BenchConstants DEF Seated, Ids
        <3>5. \A i, j \in Seated' : seat'[i].name = seat'[j].name => i = j
            BY <2>3, <3>1, <3>3, <3>4, BenchConstants DEF NameTaken, Seated, Ids
        <3> QED
            BY <1>6, <3>2, <3>3, <3>4, <3>5 DEF RewriteWrite
    <2> QED
        BY <1>6, <2>2, <2>3 DEF RewriteWrite
<1>7. CASE RewriteLost(r)
    BY <1>1, <1>7, IdleHandler DEF RewriteLost, Ends
<1>8. ASSUME NEW i \in Ids, RemoveBegin(r, i) PROVE BenchTypeOK'
    BY <1>1, <1>8, <1>t DEF RemoveBegin
<1>9. CASE Logs(r)
    <2>1. request[r] \in [op : {"add", "rewrite", "remove"}, stage : {"log"}, id : Ids]
        BY <1>0, <1>9, Shapes DEF Logs
    <2>2. request[r].op = "remove" => [request[r] EXCEPT !.stage = "delete"] \in Handlers
        <3> SUFFICES ASSUME request[r].op = "remove"
                     PROVE  [request[r] EXCEPT !.stage = "delete"] \in [op : {"remove"}, stage : {"delete"}, id : Ids]
            BY DEF Handlers
        <3> QED
            BY <2>1
    <2>3. request' \in [Requests -> Handlers]
        BY <1>9, <2>2, IdleHandler, GoesTypes DEF Logs, Ends
    <2>4. log' \subseteq {"add", "rewrite", "remove"} \X Ids
        BY <1>9, <2>1 DEF Logs
    <2> QED
        BY <1>9, <2>3, <2>4 DEF Logs, Seated
<1>10. CASE RemoveDelete(r)
    <2>1. request[r].id \in Ids
        BY <1>0, <1>10, Shapes DEF RemoveDelete, In
    <2>2. request' \in [Requests -> Handlers]
        BY <1>10, IdleHandler, GoesTypes DEF RemoveDelete, Ends
    <2>3. /\ seat' \in [Ids -> SeatRow \cup {Gone}] /\ UNCHANGED last
          /\ \A i \in Ids : seat'[i] \in {seat[i], Gone}
        BY <1>10, <2>1 DEF RemoveDelete
    <2>4. Seated' \subseteq Seated /\ \A i \in Seated' : i \in Ids /\ seat'[i] = seat[i]
        BY <2>3, BenchConstants DEF Seated, Ids
    <2> QED
        BY <1>10, <2>2, <2>3, <2>4 DEF RemoveDelete
<1> QED
    BY <1>2, <1>3, <1>4, <1>5, <1>6, <1>7, <1>8, <1>9, <1>10 DEF Editing

(* and registering and dropping endpoints.                                 *)
LEMMA HostingType ==
    ASSUME BenchTypeOK, NEW r \in Requests, Hosting(r)
    PROVE  BenchTypeOK'
<1> USE DEF BenchTypeOK
<1>1. ASSUME NEW todo \in Handlers, Goes(r, todo), Takes(r) \/ UNCHANGED work,
             endpoints' \subseteq Endpoints, raced' \subseteq Endpoints,
             UNCHANGED <<seat, last, log, page, proposals, touched, cut, crashes>>
      PROVE  BenchTypeOK'
    <2>1. work' \in 0..MaxWork
        BY <1>1, BenchConstants DEF Takes
    <2>2. request' \in [Requests -> Handlers]
        BY <1>1, GoesTypes
    <2> QED
        BY <1>1, <2>1, <2>2 DEF Seated
<1>2. CASE DropDelete(r)
    BY <1>1, <1>2, IdleHandler DEF DropDelete, Ends, EndpointDeleted
<1>3. ASSUME NEW e \in Endpoints, Register(r, e) PROVE BenchTypeOK'
    BY <1>1, <1>3, IdleHandler DEF Register, Ends, EndpointInserted
<1>4. ASSUME NEW e \in Endpoints, DropBegin(r, e) PROVE BenchTypeOK'
    <2>1. [op |-> "drop", stage |-> "delete", endpoint |-> e] \in Handlers
        BY DEF Handlers
    <2> QED
        BY <1>1, <1>4, <2>1, IdleHandler DEF DropBegin, Dropping, Ends
<1> QED
    BY <1>2, <1>3, <1>4 DEF Hosting

(* The types are kept by every step.                                       *)
LEMMA BenchType == BenchTypeOK /\ BenchesOK /\ [Next]_vars => BenchTypeOK'
<1> SUFFICES ASSUME BenchTypeOK, BenchesOK, [Next]_vars PROVE BenchTypeOK'
    OBVIOUS
<1>1. CASE Crash
    <2>1. request' \in [Requests -> Handlers] /\ cut' \in BOOLEAN /\ crashes' \in 0..MaxCrashes
        BY <1>1, IdleHandler, BenchConstants DEF Crash, BenchTypeOK
    <2> QED
        BY <1>1, <2>1 DEF Crash, BenchTypeOK, Seated
<1>2. CASE Watching
    <2>1. Seated \subseteq Ids
        BY BenchConstants DEF BenchTypeOK, Seated, Ids
    <2>2. page' \in Pages
        BY <1>2, <2>1 DEF Watching, PageDrops, PageLooks, PageGivesUp, Pages
    <2> QED
        BY <1>2, <2>2 DEF Watching, PageDrops, PageLooks, PageGivesUp, BenchTypeOK, Seated
<1>3. CASE UNCHANGED vars
    BY <1>3 DEF vars, BenchTypeOK, Seated
<1> QED
    BY <1>1, <1>2, <1>3, SeatingType, EditingType, HostingType DEF Next

-----------------------------------------------------------------------------
(* Deletions are on record.                                                *)

LEMMA StepRecord ==
    ASSUME BenchInv, BenchTypeOK', [Next]_vars
    PROVE  RecordOK'
<1> USE DEF BenchInv
<1>0. BenchTypeOK /\ request \in [Requests -> Handlers] /\ last \in Nat
    BY BenchConstants DEF BenchTypeOK
<1>1. ASSUME log \subseteq log',
             \A r \in In("remove", "delete")' :
                 \/ r \in In("remove", "delete") /\ request'[r] = request[r]
                 \/ <<"remove", request'[r].id>> \in log',
             \A i \in 1..last' : seat'[i] = Gone =>
                 \/ i \in 1..last /\ seat[i] = Gone
                 \/ <<"remove", i>> \in log'
      PROVE  RecordOK'
    <2>1. \A r \in In("remove", "delete")' : <<"remove", request'[r].id>> \in log'
        BY <1>1 DEF RecordOK
    <2>2. RemovalsAreOnRecord'
        BY <1>1 DEF RecordOK, RemovalsAreOnRecord, Seated
    <2> QED
        BY <2>1, <2>2 DEF RecordOK
(* A handler that goes on to something else than deleting, and no seat     *)
(* goes.                                                                   *)
<1>2. ASSUME NEW r \in Requests, NEW todo, Goes(r, todo), ~(todo.op = "remove" /\ todo.stage = "delete"),
             log \subseteq log', \A i \in 1..last' : seat'[i] = Gone => i \in 1..last /\ seat[i] = Gone
      PROVE  RecordOK'
    <2>1. \A q \in In("remove", "delete")' : q \in In("remove", "delete") /\ request'[q] = request[q]
        BY <1>0, <1>2, GoesTypes DEF In
    <2> QED
        BY <1>1, <1>2, <2>1
<1>i. Idle.op # "remove"
    BY DEF Idle
<1>3. ASSUME NEW row \in SeatRow, Inserts(row)
      PROVE  \A i \in 1..last' : seat'[i] = Gone => i \in 1..last /\ seat[i] = Gone
    <2>1. /\ last' = last + 1 /\ last' \in Ids /\ seat'[last'] = row
          /\ \A i \in Ids \ {last'} : seat'[i] = seat[i]
        BY <1>0, <1>3, InsertTypes
    <2>2. \A i \in 1..last' : i = last' \/ (i \in 1..last /\ i \in Ids \ {last'})
        BY <1>0, <2>1, BenchConstants DEF Ids
    <2> QED
        BY <2>1, <2>2, GoneIsNoSeat
<1>4. ASSUME NEW r \in Requests, Seating(r) PROVE RecordOK'
    <2>1. CASE SeatBegin(r)
        BY <1>2, <1>i, <2>1 DEF SeatBegin, Ends
    <2>2. CASE SeatProposed(r)
        BY <1>2, <2>2 DEF SeatProposed
    <2>3. CASE SeatInsert(r)
        <3>1. request[r] \in [op : {"seat"}, stage : {"insert"}, bench : Seq(Names), done : Nat]
            BY <1>0, <2>3, Shapes DEF SeatInsert, In
        <3>2. [name |-> request[r].bench[request[r].done + 1], family |-> FamilyAt(request[r].done)] \in SeatRow
            <4>1. request[r].done < Len(request[r].bench)
                BY <2>3 DEF SeatInsert, BenchesOK
            <4> QED
                BY <3>1, <4>1, FamilyOfPosition DEF SeatRow
        <3>3. \A i \in 1..last' : seat'[i] = Gone => i \in 1..last /\ seat[i] = Gone
            BY <1>3, <2>3, <3>2 DEF SeatInsert
        <3>4. [request[r] EXCEPT !.done = @ + 1].op = "seat"
            BY <3>1
        <3> QED
            BY <1>2, <1>i, <2>3, <3>3, <3>4 DEF SeatInsert, Ends
    <2>4. CASE SeatCollides(r)
        BY <1>2, <1>i, <2>4 DEF SeatCollides, Ends
    <2> QED
        BY <1>4, <2>1, <2>2, <2>3, <2>4 DEF Seating
<1>5. ASSUME NEW r \in Requests, Editing(r) PROVE RecordOK'
    <2>1. CASE AddBegin(r)
        BY <1>2, <2>1 DEF AddBegin
    <2>2. CASE AddInsert(r)
        <3>1. request[r].row \in SeatRow
            BY <1>0, <2>2, Shapes DEF AddInsert, In
        <3> QED
            BY <1>2, <1>3, <1>i, <2>2, <3>1 DEF AddInsert, Ends
    <2>3. ASSUME NEW i \in Ids, RewriteBegin(r, i) PROVE RecordOK'
        BY <1>2, <2>3 DEF RewriteBegin
    <2>4. CASE RewriteRead(r)
        BY <1>2, <1>i, <2>4 DEF RewriteRead, Ends
    <2>5. CASE RewriteWrite(r)
        <3>1. request[r].row \in SeatRow /\ request[r].id \in Ids
            BY <1>0, <2>5, Shapes DEF RewriteWrite, In
        <3>2. \A i \in 1..last' : seat'[i] = Gone => i \in 1..last /\ seat[i] = Gone
            <4>1. \A i \in 1..last : i \in Ids
                BY <1>0, BenchConstants DEF BenchTypeOK, Ids
            <4>2. seat \in [Ids -> SeatRow \cup {Gone}]
                BY <1>0 DEF BenchTypeOK
            <4> QED
                BY <2>5, <3>1, <4>1, <4>2, GoneIsNoSeat DEF RewriteWrite
        <3> QED
            BY <1>2, <1>i, <2>5, <3>2 DEF RewriteWrite, Ends
    <2>6. CASE RewriteLost(r)
        BY <1>2, <1>i, <2>6 DEF RewriteLost, Ends
    <2>7. ASSUME NEW i \in Ids, RemoveBegin(r, i) PROVE RecordOK'
        BY <1>2, <2>7 DEF RemoveBegin
    <2>8. CASE Logs(r)
        <3>1. request[r] \in [op : {"add", "rewrite", "remove"}, stage : {"log"}, id : Ids]
            BY <1>0, <2>8, Shapes DEF Logs
        <3>2. /\ \A q \in Requests \ {r} : request'[q] = request[q]
              /\ request'[r] = Idle \/ (request'[r].id = request[r].id /\ request[r].op = "remove")
              /\ log' = log \cup {<<request[r].op, request[r].id>>}
            BY <1>0, <2>8, <3>1, GoesTypes DEF Logs, Ends
        <3>3. \A q \in In("remove", "delete")' :
                 \/ q \in In("remove", "delete") /\ request'[q] = request[q]
                 \/ <<"remove", request'[q].id>> \in log'
            BY <1>i, <3>1, <3>2 DEF In
        <3> QED
            BY <1>1, <2>8, <3>2, <3>3 DEF Logs
    <2>9. CASE RemoveDelete(r)
        <3>1. request[r].id \in Ids /\ <<"remove", request[r].id>> \in log
            BY <1>0, <2>9, Shapes DEF RemoveDelete, In, RecordOK
        <3>2. \A i \in 1..last' : i \in 1..last /\ (seat'[i] = Gone => seat[i] = Gone \/ i = request[r].id)
            <4>1. \A i \in 1..last : i \in Ids
                BY <1>0, BenchConstants DEF BenchTypeOK, Ids
            <4>2. seat \in [Ids -> SeatRow \cup {Gone}]
                BY <1>0 DEF BenchTypeOK
            <4> QED
                BY <2>9, <3>1, <4>1, <4>2 DEF RemoveDelete
        <3>3. \A q \in In("remove", "delete")' : q \in In("remove", "delete") /\ request'[q] = request[q]
            BY <1>0, <1>i, <2>9, GoesTypes DEF RemoveDelete, Ends, In
        <3> QED
            BY <1>1, <2>9, <3>1, <3>2, <3>3 DEF RemoveDelete
    <2> QED
        BY <1>5, <2>1, <2>2, <2>3, <2>4, <2>5, <2>6, <2>7, <2>8, <2>9 DEF Editing
<1>6. ASSUME NEW r \in Requests, Hosting(r) PROVE RecordOK'
    BY <1>2, <1>i, <1>6 DEF Hosting, DropDelete, Register, DropBegin, Dropping, Ends
<1>7. CASE Crash
    <2>1. In("remove", "delete")' = {}
        BY <1>7, <1>i DEF Crash, In
    <2> QED
        BY <1>1, <1>7, <2>1 DEF Crash
<1>8. CASE Watching
    BY <1>1, <1>8 DEF Watching, PageDrops, PageLooks, PageGivesUp, In
<1>9. CASE UNCHANGED vars
    BY <1>1, <1>9 DEF vars, In
<1> QED
    BY <1>4, <1>5, <1>6, <1>7, <1>8, <1>9 DEF Next

-----------------------------------------------------------------------------
(* Seats are stranded by a race only.                                      *)

(* The same of a family, and of an endpoint, after the step.               *)
KnownNext(f) == f \in Endpoints => f \in endpoints' \cup raced'
UsedNext(e) == {i \in Seated' : seat'[i].family = e}

(* What a handler comes to hold does not break the account of races.       *)
Fair(r, todo) ==
    /\ todo.op = "add" /\ todo.stage = "insert" => todo.row.family \in Registry
    /\ todo.op = "rewrite" /\ todo.stage = "read" /\ todo.place # <<>> => KnownNext(todo.place[1])
    /\ todo.op = "rewrite" /\ todo.stage = "write" => KnownNext(todo.row.family)
    /\ todo.op = "rewrite" /\ request[r].op # "rewrite" => \A d \in In("drop", "delete") : request[d].endpoint \in raced'
    /\ todo.op = "drop" /\ todo.stage = "delete" =>
         /\ InFlight("rewrite") # {} => todo.endpoint \in raced'
         /\ todo.endpoint \in raced' \/ UsedNext(todo.endpoint) = {}

(* No step loses an endpoint but for the race.                             *)
LEMMA StepRace ==
    ASSUME BenchInv, BenchTypeOK', [Next]_vars
    PROVE  RaceOK'
<1> USE DEF BenchInv
<1>0. BenchTypeOK /\ request \in [Requests -> Handlers] /\ last \in Nat /\ seat \in [Ids -> SeatRow \cup {Gone}]
      /\ Seated \subseteq Ids
    BY BenchConstants DEF BenchTypeOK, Seated, Ids
<1>i. Idle.op \notin {"add", "rewrite", "drop"}
    BY DEF Idle
<1>r. \A f \in Registry : Known(f) /\ KnownNext(f)
    BY BenchConstants DEF Known, KnownNext
(* One handler goes on, no endpoint is dropped; a seat that comes to an    *)
(* endpoint does so by a rewrite that a drop raced with.                   *)
<1>1. ASSUME NEW r \in Requests, NEW todo, Goes(r, todo), Fair(r, todo),
             endpoints \subseteq endpoints', raced \subseteq raced',
             \A i \in Seated' : \/ i \in Seated /\ seat'[i] = seat[i]
                                \/ seat'[i].family \in Registry
                                \/ /\ request[r].op = "rewrite" /\ Known(seat'[i].family)
                                   /\ UNCHANGED <<endpoints, raced>>
      PROVE  RaceOK'
    <2>1. request'[r] = todo /\ \A q \in Requests \ {r} : request'[q] = request[q]
        BY <1>0, <1>1, GoesTypes
    <2>2. \A f : Known(f) => KnownNext(f)
        BY <1>1 DEF Known, KnownNext
    <2>3. \A i \in Seated' : KnownNext(seat'[i].family)
        BY <1>1, <1>r, <2>2 DEF RaceOK
    <2>4. \A q \in In("add", "insert")' : request'[q].row.family \in Registry
        BY <1>1, <2>1 DEF RaceOK, In, Fair
    <2>5. \A q \in In("rewrite", "read")' : request'[q].place # <<>> => KnownNext(request'[q].place[1])
        BY <1>1, <2>1, <2>2 DEF RaceOK, In, Fair
    <2>6. \A q \in In("rewrite", "write")' : KnownNext(request'[q].row.family)
        BY <1>1, <2>1, <2>2 DEF RaceOK, In, Fair
    <2>7. ASSUME InFlight("rewrite")' # {}, NEW d \in In("drop", "delete")' PROVE request'[d].endpoint \in raced'
        <3>1. CASE d = r
            <4>1. InFlight("rewrite") # {}
                BY <2>1, <2>7, <3>1 DEF InFlight, In
            <4> QED
                BY <1>1, <2>1, <2>7, <3>1, <4>1 DEF In, Fair
        <3>2. CASE d # r
            <4>1. d \in In("drop", "delete") /\ request'[d] = request[d]
                BY <2>1, <2>7, <3>2 DEF In
            <4>2. CASE InFlight("rewrite") # {}
                BY <1>1, <4>1, <4>2 DEF RaceOK
            <4>3. CASE InFlight("rewrite") = {}
                <5>1. todo.op = "rewrite" /\ request[r].op # "rewrite"
                    BY <2>1, <2>7, <4>3 DEF InFlight
                <5> QED
                    BY <1>1, <4>1, <5>1 DEF Fair
            <4> QED
                BY <4>2, <4>3
        <3> QED
            BY <3>1, <3>2
    <2>8. ASSUME NEW d \in In("drop", "delete")'
          PROVE  request'[d].endpoint \in raced' \/ UsedNext(request'[d].endpoint) = {}
        <3>1. CASE d = r
            BY <1>1, <2>1, <2>8, <3>1 DEF In, Fair
        <3>2. CASE d # r
            <4>1. d \in In("drop", "delete") /\ request'[d] = request[d] /\ request[d].endpoint \in Endpoints
                BY <1>0, <2>1, <2>8, <3>2, Shapes DEF In
            <4>2. CASE request[r].op = "rewrite"
                BY <1>1, <4>1, <4>2 DEF RaceOK, InFlight
            <4>3. CASE request[r].op # "rewrite"
                <5>1. request[d].endpoint \notin Registry
                    BY <4>1, BenchConstants
                <5>2. UsedNext(request[d].endpoint) \subseteq Used(request[d].endpoint)
                    BY <1>1, <4>1, <4>3, <5>1 DEF Used, UsedNext
                <5> QED
                    BY <1>1, <4>1, <5>2 DEF RaceOK
            <4> QED
                BY <4>2, <4>3
        <3> QED
            BY <3>1, <3>2
    <2> QED
        BY <2>3, <2>4, <2>5, <2>6, <2>7, <2>8 DEF RaceOK, Known, KnownNext, Used, UsedNext
<1> DEFINE Same == \A i \in Seated' : i \in Seated /\ seat'[i] = seat[i]
<1>2. ASSUME NEW row \in SeatRow, Inserts(row), row.family \in Registry
      PROVE  \A i \in Seated' : (i \in Seated /\ seat'[i] = seat[i]) \/ seat'[i].family \in Registry
    BY <1>0, <1>2, InsertTypes
<1>3. ASSUME NEW r \in Requests, Seating(r) PROVE RaceOK'
    <2>1. CASE SeatBegin(r)
        BY <1>1, <1>i, <2>1 DEF SeatBegin, Ends, Fair, Seated
    <2>2. CASE SeatProposed(r)
        BY <1>1, <2>2 DEF SeatProposed, Fair, Seated
    <2>3. CASE SeatInsert(r)
        <3>1. request[r] \in [op : {"seat"}, stage : {"insert"}, bench : Seq(Names), done : Nat]
            BY <1>0, <2>3, Shapes DEF SeatInsert, In
        <3>2. PICK row : /\ row = [name |-> request[r].bench[request[r].done + 1], family |-> FamilyAt(request[r].done)]
                         /\ Inserts(row)
            BY <2>3 DEF SeatInsert
        <3>3. row \in SeatRow /\ row.family \in Registry
            <4>1. request[r].done < Len(request[r].bench)
                BY <2>3 DEF SeatInsert, BenchesOK
            <4> QED
                BY <3>1, <3>2, <4>1, FamilyOfPosition DEF SeatRow
        <3>4. [request[r] EXCEPT !.done = @ + 1].op = "seat"
            BY <3>1
        <3>5. UNCHANGED <<endpoints, raced>>
            BY <2>3 DEF SeatInsert
        <3>6. PICK todo : Goes(r, todo) /\ (todo = Idle \/ todo = [request[r] EXCEPT !.done = @ + 1])
            BY <2>3 DEF SeatInsert, Ends
        <3>7. Fair(r, todo)
            BY <1>i, <3>4, <3>6 DEF Fair
        <3> QED
            BY <1>1, <1>2, <3>2, <3>3, <3>5, <3>6, <3>7
    <2>4. CASE SeatCollides(r)
        BY <1>1, <1>i, <2>4 DEF SeatCollides, Ends, Fair, Seated
    <2> QED
        BY <1>3, <2>1, <2>2, <2>3, <2>4 DEF Seating
<1>4. ASSUME NEW r \in Requests, Editing(r) PROVE RaceOK'
    <2>1. CASE AddBegin(r)
        <3>1. Cardinality(Seated) \in Nat
            <4>1. IsFiniteSet(1..last)
                BY <1>0, FS_Interval
            <4> QED
                BY <4>1, FS_Subset, FS_CardinalityType DEF Seated
        <3>2. FamilyAt(Cardinality(Seated)) \in Registry
            BY <3>1, FamilyOfPosition
        <3> QED
            BY <1>1, <2>1, <3>2 DEF AddBegin, Fair, Seated
    <2>2. CASE AddInsert(r)
        <3>1. request[r].row \in SeatRow /\ request[r].row.family \in Registry
            BY <1>0, <2>2, Shapes DEF AddInsert, In, RaceOK
        <3>2. CASE Ends(r) /\ UNCHANGED <<seat, last>>
            BY <1>1, <1>i, <2>2, <3>2 DEF AddInsert, Ends, Fair, Seated
        <3>3. CASE Inserts(request[r].row) /\ Goes(r, [op |-> "add", stage |-> "log", id |-> last + 1])
            BY <1>1, <1>2, <2>2, <3>1, <3>3 DEF AddInsert, Fair
        <3> QED
            BY <2>2, <3>2, <3>3 DEF AddInsert
    <2>3. ASSUME NEW i \in Ids, RewriteBegin(r, i) PROVE RaceOK'
        <3>1. PICK name \in UpToOne(Names), place \in UpToOne(Places(i)) :
                Goes(r, [op |-> "rewrite", stage |-> "read", id |-> i, name |-> name, place |-> place])
            BY <2>3 DEF RewriteBegin
        <3>2. UNCHANGED <<seat, last, endpoints>> /\ raced' = raced \cup {request[d].endpoint : d \in In("drop", "delete")}
            BY <2>3 DEF RewriteBegin
        <3>3. ASSUME place # <<>> PROVE KnownNext(place[1])
            <4>1. place[1] \in Places(i)
                BY <3>1, <3>3 DEF UpToOne
            <4>2. Cardinality(Seated \ {i}) \in Nat
                <5>1. IsFiniteSet(1..last)
                    BY <1>0, FS_Interval
                <5> QED
                    BY <5>1, FS_Subset, FS_CardinalityType DEF Seated
            <4>3. place[1] \in endpoints \/ place[1] \in Registry
                BY <4>1, <4>2, FamilyOfPosition DEF Places
            <4> QED
                BY <1>r, <3>2, <4>3 DEF Known, KnownNext
        <3>4. Fair(r, [op |-> "rewrite", stage |-> "read", id |-> i, name |-> name, place |-> place])
            BY <3>2, <3>3 DEF Fair
        <3> QED
            BY <1>1, <3>1, <3>2, <3>4 DEF Seated
    <2>4. CASE RewriteRead(r)
        <3>1. request[r] \in [op : {"rewrite"}, stage : {"read"}, id : Ids,
                              name : UpToOne(Names), place : UpToOne(Registry \cup Endpoints)]
            BY <1>0, <2>4, Shapes DEF RewriteRead, In
        <3>2. UNCHANGED <<seat, last, endpoints, raced>>
            BY <2>4 DEF RewriteRead
        <3>3. CASE Ends(r)
            BY <1>1, <1>i, <3>2, <3>3 DEF Ends, Fair, Seated
        <3>4. CASE request[r].id \in Seated
            <4>1. PICK row :
                    /\ Goes(r, [op |-> "rewrite", stage |-> "write", id |-> request[r].id, row |-> row])
                    /\ row = [name |-> IF request[r].name = <<>> THEN seat[request[r].id].name ELSE request[r].name[1],
                              family |-> IF request[r].place = <<>> THEN seat[request[r].id].family ELSE request[r].place[1]]
                BY <2>4, <3>4 DEF RewriteRead
            <4>2. Known(row.family)
                BY <2>4, <3>4, <4>1 DEF RewriteRead, RaceOK
            <4>3. Fair(r, [op |-> "rewrite", stage |-> "write", id |-> request[r].id, row |-> row])
                BY <3>1, <3>2, <4>2 DEF Fair, Known, KnownNext
            <4>4. PICK todo : Goes(r, todo) /\ Fair(r, todo)
                BY <4>1, <4>3
            <4>5. (\A i \in Seated' : i \in Seated /\ seat'[i] = seat[i])
                  /\ endpoints \subseteq endpoints' /\ raced \subseteq raced'
                BY <3>2 DEF Seated
            <4> QED
                BY <1>1, <4>4, <4>5
        <3> QED
            BY <2>4, <3>3, <3>4 DEF RewriteRead
    <2>5. CASE RewriteWrite(r)
        <3>1. request[r] \in [op : {"rewrite"}, stage : {"write"}, id : Ids, row : SeatRow] /\ Known(request[r].row.family)
            BY <1>0, <2>5, Shapes DEF RewriteWrite, In, RaceOK
        <3>2. UNCHANGED <<last, endpoints, raced>>
            BY <2>5 DEF RewriteWrite
        <3>3. PICK todo : Goes(r, todo) /\ (todo = Idle \/ todo = [op |-> "rewrite", stage |-> "log", id |-> request[r].id])
            BY <2>5 DEF RewriteWrite, Ends
        <3>4. Fair(r, todo)
            BY <1>i, <3>1, <3>3 DEF Fair
        <3>5. \A i \in Seated' : (i \in Seated /\ seat'[i] = seat[i]) \/ seat'[i] = request[r].row
            <4>1. CASE UNCHANGED seat
                BY <3>2, <4>1 DEF Seated
            <4>2. CASE request[r].id \in Seated /\ seat' = [seat EXCEPT ![request[r].id] = request[r].row]
                <5>1. \A i \in Ids \ {request[r].id} : seat'[i] = seat[i]
                    BY <1>0, <4>2
                <5>2. seat'[request[r].id] = request[r].row
                    BY <1>0, <4>2
                <5>3. 1..last \subseteq Ids
                    BY <1>0, BenchConstants DEF BenchTypeOK, Ids
                <5> QED
                    BY <3>2, <4>2, <5>1, <5>2, <5>3 DEF Seated
            <4> QED
                BY <2>5, <4>1, <4>2 DEF RewriteWrite
        <3> QED
            BY <1>1, <3>1, <3>2, <3>3, <3>4, <3>5
    <2>6. CASE RewriteLost(r)
        BY <1>1, <1>i, <2>6 DEF RewriteLost, Ends, Fair, Seated
    <2>7. ASSUME NEW i \in Ids, RemoveBegin(r, i) PROVE RaceOK'
        BY <1>1, <2>7 DEF RemoveBegin, Fair, Seated
    <2>8. CASE Logs(r)
        <3>1. request[r] \in [op : {"add", "rewrite", "remove"}, stage : {"log"}, id : Ids]
            BY <1>0, <2>8, Shapes DEF Logs
        <3>2. PICK todo : Goes(r, todo) /\ (todo = Idle \/ (todo = [request[r] EXCEPT !.stage = "delete"] /\ request[r].op = "remove"))
            BY <2>8 DEF Logs, Ends
        <3>3. Fair(r, todo)
            BY <1>i, <3>1, <3>2 DEF Fair
        <3> QED
            BY <1>1, <2>8, <3>2, <3>3 DEF Logs, Seated
    <2>9. CASE RemoveDelete(r)
        <3>1. Same
            BY <1>0, <2>9 DEF RemoveDelete, Seated
        <3> QED
            BY <1>1, <1>i, <2>9, <3>1 DEF RemoveDelete, Ends, Fair
    <2> QED
        BY <1>4, <2>1, <2>2, <2>3, <2>4, <2>5, <2>6, <2>7, <2>8, <2>9 DEF Editing
<1>5. ASSUME NEW r \in Requests, DropDelete(r) PROVE RaceOK'
    <2> DEFINE e == request[r].endpoint
    <2>1. e \in Endpoints /\ r \in In("drop", "delete") /\ endpoints' = endpoints \ {e} /\ UNCHANGED <<seat, last, raced>>
        BY <1>0, <1>5, Shapes DEF DropDelete, In, EndpointDeleted
    <2>2. request'[r] = Idle /\ \A q \in Requests \ {r} : request'[q] = request[q]
        BY <1>0, <1>5, GoesTypes DEF DropDelete, Ends
    <2>3. \A f : Known(f) /\ (f = e => e \in raced) => KnownNext(f)
        BY <2>1 DEF Known, KnownNext
    <2>4. InFlight("rewrite") # {} => e \in raced
        BY <2>1 DEF RaceOK
    <2>5. \A i \in Seated : seat[i].family = e => e \in raced
        BY <2>1 DEF RaceOK, Used
    <2>6. \A i \in Seated' : KnownNext(seat'[i].family)
        BY <2>1, <2>3, <2>5 DEF RaceOK, Seated
    <2>7. \A op, stage : op \in {"add", "rewrite", "drop"} =>
             /\ In(op, stage)' \subseteq In(op, stage) /\ InFlight(op)' \subseteq InFlight(op)
             /\ \A q \in In(op, stage)' : request'[q] = request[q] /\ q \in InFlight(op)
        BY <1>i, <2>2 DEF In, InFlight
    <2>8. \A q \in In("rewrite", "read")' : request'[q].place # <<>> => KnownNext(request'[q].place[1])
        BY <2>3, <2>4, <2>7 DEF RaceOK
    <2>9. \A q \in In("rewrite", "write")' : KnownNext(request'[q].row.family)
        BY <2>3, <2>4, <2>7 DEF RaceOK
    <2>10. \A d \in In("drop", "delete")' : request'[d].endpoint \in raced' \/ UsedNext(request'[d].endpoint) = {}
        BY <2>1, <2>7 DEF RaceOK, Used, UsedNext, Seated
    <2>11. \A q \in In("add", "insert")' : request'[q].row.family \in Registry
        BY <2>7 DEF RaceOK
    <2>12. InFlight("rewrite")' # {} => \A d \in In("drop", "delete")' : request'[d].endpoint \in raced'
        BY <2>1, <2>7 DEF RaceOK
    <2> QED
        BY <2>1, <2>4, <2>6, <2>7, <2>8, <2>9, <2>10, <2>11, <2>12 DEF RaceOK, Known, KnownNext, Used, UsedNext
<1>6. ASSUME NEW r \in Requests, NEW e \in Endpoints, Register(r, e) PROVE RaceOK'
    BY <1>1, <1>i, <1>6 DEF Register, Ends, EndpointInserted, Fair, Seated
<1>7. ASSUME NEW r \in Requests, NEW e \in Endpoints, DropBegin(r, e) PROVE RaceOK'
    <2>1. /\ UNCHANGED <<seat, last, endpoints>> /\ raced \subseteq raced'
          /\ InFlight("rewrite") # {} => e \in raced'
        BY <1>7 DEF DropBegin
    <2>2. CASE Ends(r)
        BY <1>1, <1>i, <2>1, <2>2 DEF Ends, Fair, Seated
    <2>3. CASE Dropping(r, e) /\ Used(e) = {}
        <3>1. Fair(r, [op |-> "drop", stage |-> "delete", endpoint |-> e])
            BY <2>1, <2>3 DEF Fair, Used, UsedNext, Seated
        <3> QED
            BY <1>1, <2>1, <2>3, <3>1 DEF Dropping, Seated
    <2> QED
        BY <1>7, <2>2, <2>3 DEF DropBegin
<1>8. CASE Crash
    <2>1. \A op, stage : op \in {"add", "rewrite", "drop"} => In(op, stage)' = {} /\ InFlight(op)' = {}
        BY <1>8, <1>i DEF Crash, In, InFlight
    <2> QED
        BY <1>8, <2>1 DEF Crash, RaceOK, Known, Seated
<1>9. CASE Watching \/ UNCHANGED vars
    BY <1>9 DEF Watching, PageDrops, PageLooks, PageGivesUp, vars, RaceOK, Known, Seated, Used, In, InFlight
<1> QED
    BY <1>3, <1>4, <1>5, <1>6, <1>7, <1>8, <1>9 DEF Next, Hosting

-----------------------------------------------------------------------------
(* Benches, and the bench nobody has edited.                               *)

(* Benches begin with the literalist, and a seating has seats left to do.  *)
LEMMA StepBenches ==
    ASSUME BenchInv, BenchTypeOK', [Next]_vars
    PROVE  BenchesOK'
<1> USE DEF BenchInv
<1>0. BenchTypeOK /\ request \in [Requests -> Handlers]
    BY DEF BenchTypeOK
<1>i. Idle.op # "seat"
    BY DEF Idle
<1>1. ASSUME NEW r \in Requests, NEW todo, Goes(r, todo), UNCHANGED proposals,
             todo.op = "seat" /\ todo.stage = "insert" => todo.bench \in proposals /\ todo.done < Len(todo.bench)
      PROVE  BenchesOK'
    <2>1. request'[r] = todo /\ \A q \in Requests \ {r} : request'[q] = request[q]
        BY <1>0, <1>1, GoesTypes
    <2> QED
        BY <1>1, <2>1 DEF BenchesOK, In
<1>2. ASSUME NEW r \in Requests, Seating(r) PROVE BenchesOK'
    <2>1. CASE SeatBegin(r)
        BY <1>1, <1>i, <2>1 DEF SeatBegin, Ends
    <2>2. CASE SeatProposed(r)
        <3>1. PICK names \in Proposed \cup {Offline} :
                /\ Goes(r, [op |-> "seat", stage |-> "insert", bench |-> <<Literalist>> \o names, done |-> 0])
                /\ proposals' = proposals \cup {<<Literalist>> \o names}
            BY <2>2 DEF SeatProposed
        <3>2. PICK bench : bench = <<Literalist>> \o names
            OBVIOUS
        <3>3. names \in Seq(Titles)
            <4>1. ASSUME names \in Proposed PROVE names \in Seq(Titles)
                <5>1. PICK n \in 0..Count : names \in [1..n -> Titles]
                    BY <4>1 DEF Proposed
                <5>2. n \in Nat
                    BY BenchConstants
                <5> QED
                    BY <5>1, <5>2
            <4> QED
                BY <3>1, <4>1, BenchConstants
        <3>4. bench \in Seq(Names) /\ bench[1] = Literalist /\ Len(bench) > 0 /\ bench # <<>>
            <4>1. names \in Seq(Names) /\ <<Literalist>> \in Seq(Names) /\ Len(names) \in Nat
                BY <3>3 DEF Names
            <4> QED
                BY <3>2, <4>1
        <3>5. /\ request'[r] = [op |-> "seat", stage |-> "insert", bench |-> bench, done |-> 0]
              /\ \A q \in Requests \ {r} : request'[q] = request[q]
            BY <1>0, <3>1, <3>2, GoesTypes
        <3>6. \A b \in proposals' : b \in Seq(Names) /\ b # <<>> /\ b[1] = Literalist
            BY <3>1, <3>2, <3>4 DEF BenchesOK
        <3>7. \A q \in In("seat", "insert")' : request'[q].bench \in proposals' /\ request'[q].done < Len(request'[q].bench)
            <4>1. bench \in proposals' /\ proposals \subseteq proposals'
                BY <3>1, <3>2
            <4>2. request'[r].bench = bench /\ request'[r].done = 0
                BY <3>5
            <4>3. \A q \in In("seat", "insert")' : q = r \/ (q \in In("seat", "insert") /\ request'[q] = request[q])
                BY <3>5 DEF In
            <4> QED
                BY <3>4, <4>1, <4>2, <4>3 DEF BenchesOK
        <3> QED
            BY <3>6, <3>7 DEF BenchesOK
    <2>3. CASE SeatInsert(r)
        <3>1. request[r] \in [op : {"seat"}, stage : {"insert"}, bench : Seq(Names), done : Nat]
              /\ request[r].bench \in proposals /\ request[r].done < Len(request[r].bench)
            BY <1>0, <2>3, Shapes DEF SeatInsert, In, BenchesOK
        <3>2. CASE Ends(r)
            BY <1>1, <1>i, <2>3, <3>2 DEF SeatInsert, Ends
        <3>3. CASE request[r].done + 1 # Len(request[r].bench) /\ Goes(r, [request[r] EXCEPT !.done = @ + 1])
            <4>1. PICK todo : todo = [request[r] EXCEPT !.done = @ + 1]
                OBVIOUS
            <4>2. todo.bench = request[r].bench /\ todo.done = request[r].done + 1 /\ Len(todo.bench) \in Nat
                BY <3>1, <4>1
            <4>3. todo.bench \in proposals /\ todo.done < Len(todo.bench)
                BY <3>1, <3>3, <4>2
            <4> QED
                BY <1>1, <2>3, <3>3, <4>1, <4>3 DEF SeatInsert
        <3> QED
            BY <2>3, <3>2, <3>3 DEF SeatInsert
    <2>4. CASE SeatCollides(r)
        BY <1>1, <1>i, <2>4 DEF SeatCollides, Ends
    <2> QED
        BY <1>2, <2>1, <2>2, <2>3, <2>4 DEF Seating
<1>3. ASSUME NEW r \in Requests, Editing(r) PROVE BenchesOK'
    <2>1. CASE AddBegin(r)
        BY <1>1, <2>1 DEF AddBegin
    <2>2. CASE AddInsert(r)
        BY <1>1, <1>i, <2>2 DEF AddInsert, Ends
    <2>3. ASSUME NEW i \in Ids, RewriteBegin(r, i) PROVE BenchesOK'
        BY <1>1, <2>3 DEF RewriteBegin
    <2>4. CASE RewriteRead(r)
        BY <1>1, <1>i, <2>4 DEF RewriteRead, Ends
    <2>5. CASE RewriteWrite(r)
        BY <1>1, <1>i, <2>5 DEF RewriteWrite, Ends
    <2>6. CASE RewriteLost(r)
        BY <1>1, <1>i, <2>6 DEF RewriteLost, Ends
    <2>7. ASSUME NEW i \in Ids, RemoveBegin(r, i) PROVE BenchesOK'
        BY <1>1, <2>7 DEF RemoveBegin
    <2>8. CASE Logs(r)
        <3>1. request[r] \in [op : {"add", "rewrite", "remove"}, stage : {"log"}, id : Ids]
            BY <1>0, <2>8, Shapes DEF Logs
        <3>2. [request[r] EXCEPT !.stage = "delete"].op # "seat"
            BY <3>1
        <3> QED
            BY <1>1, <1>i, <2>8, <3>2 DEF Logs, Ends
    <2>9. CASE RemoveDelete(r)
        BY <1>1, <1>i, <2>9 DEF RemoveDelete, Ends
    <2> QED
        BY <1>3, <2>1, <2>2, <2>3, <2>4, <2>5, <2>6, <2>7, <2>8, <2>9 DEF Editing
<1>4. ASSUME NEW r \in Requests, Hosting(r) PROVE BenchesOK'
    BY <1>1, <1>i, <1>4 DEF Hosting, DropDelete, Register, DropBegin, Dropping, Ends
<1>5. CASE Crash
    <2>1. In("seat", "insert")' = {}
        BY <1>5, <1>i DEF Crash, In
    <2> QED
        BY <1>5, <2>1 DEF Crash, BenchesOK
<1>6. CASE Watching \/ UNCHANGED vars
    BY <1>6 DEF Watching, PageDrops, PageLooks, PageGivesUp, vars, BenchesOK, In
<1> QED
    BY <1>2, <1>3, <1>4, <1>5, <1>6 DEF Next

(* While no person has set out to edit the bench, it is one proposal's.    *)
LEMMA StepUntouched ==
    ASSUME BenchInv, BenchTypeOK', [Next]_vars, ~touched'
    PROVE  Untouched'
<1> USE DEF BenchInv
<1> DEFINE Busy == In("seat", "insert")
           Still(todo) == todo.op \in {"none", "seat", "drop"}
           Fresh(todo) == todo.op = "seat" /\ todo.stage = "insert" => todo.done = 0
<1>0. /\ BenchTypeOK /\ request \in [Requests -> Handlers] /\ last \in Nat
      /\ seat \in [Ids -> SeatRow \cup {Gone}] /\ \A r \in Requests : request[r] \in Handlers
    BY BenchConstants DEF BenchTypeOK
<1>i. Still(Idle) /\ Fresh(Idle) /\ Idle.op = "none"
    BY DEF Idle
<1>b. \A r \in Busy : request[r] \in [op : {"seat"}, stage : {"insert"}, bench : Seq(Names), done : Nat]
    BY <1>0, Shapes DEF In
(* No person has edited the bench before this step either.                 *)
<1>1. ~touched /\ ~\E r \in Requests : Editing(r)
    <2>1. \A r \in Requests : ~AddBegin(r) /\ \A i \in Ids : ~RewriteBegin(r, i) /\ ~RemoveBegin(r, i)
        BY DEF AddBegin, RewriteBegin, RemoveBegin
    <2>2. ASSUME ~\E r \in Requests : Editing(r) PROVE ~touched
        BY <2>2 DEF Next, Seating, SeatBegin, SeatProposed, SeatInsert, SeatCollides, Hosting, DropDelete, Register,
                    DropBegin, Crash, Watching, PageDrops, PageLooks, PageGivesUp, vars
    <2>3. ASSUME NEW r \in Requests, Editing(r) PROVE FALSE
        <3>1. ~touched
            <4>1. \/ AddInsert(r) \/ RewriteRead(r) \/ RewriteWrite(r)
                  \/ RewriteLost(r) \/ Logs(r) \/ RemoveDelete(r)
                BY <2>1, <2>3 DEF Editing
            <4>2. CASE AddInsert(r) \/ RewriteRead(r)
                BY <4>2 DEF AddInsert, RewriteRead
            <4>3. CASE RewriteWrite(r) \/ RewriteLost(r)
                BY <4>3 DEF RewriteWrite, RewriteLost
            <4>4. CASE Logs(r) \/ RemoveDelete(r)
                BY <4>4 DEF Logs, RemoveDelete
            <4> QED
                BY <4>1, <4>2, <4>3, <4>4
        <3>2. request[r].op \notin {"add", "rewrite", "remove"}
            BY <3>1 DEF Untouched, InFlight
        <3>3. request[r].stage # "log"
            BY <1>0, <3>2, Shapes
        <3> QED
            <4>1. r \notin In("add", "insert") \cup In("rewrite", "read") \cup In("rewrite", "write")
                    \cup In("rewrite", "log") \cup In("remove", "delete")
                BY <3>2 DEF In
            <4>2. ~AddInsert(r) /\ ~RewriteRead(r) /\ ~RewriteWrite(r) /\ ~RewriteLost(r) /\ ~RemoveDelete(r)
                BY <4>1 DEF AddInsert, RewriteRead, RewriteWrite, RewriteLost, RemoveDelete
            <4>3. ~Logs(r)
                BY <3>3 DEF Logs
            <4> QED
                BY <2>1, <2>3, <4>2, <4>3 DEF Editing
    <2> QED
        BY <2>2, <2>3
<1>u. Untouched
    BY <1>1
<1>2. ASSUME NEW r \in Requests, NEW todo, Goes(r, todo), Still(todo)
      PROVE  (InFlight("add") \cup InFlight("rewrite") \cup InFlight("remove"))' = {}
    <2>1. request'[r] = todo /\ \A q \in Requests \ {r} : request'[q] = request[q]
        BY <1>0, <1>2, GoesTypes
    <2> QED
        BY <1>u, <1>2, <2>1 DEF Untouched, InFlight
(* A handler goes on that is not past its first seat, and was not seating. *)
<1>3. ASSUME NEW r \in Requests \ Busy, NEW todo, Goes(r, todo), Still(todo), Fresh(todo),
             UNCHANGED <<seat, last, page, cut>>, proposals \subseteq proposals'
      PROVE  Untouched'
    <2>1. request'[r] = todo /\ \A q \in Requests \ {r} : request'[q] = request[q]
        BY <1>0, <1>3, GoesTypes
    <2>2. \A q \in Busy' : request'[q].done = 0 \/ (q \in Busy /\ request'[q] = request[q])
        BY <1>3, <2>1 DEF In
    <2>3. \A q \in Busy : q \in Busy' /\ request'[q] = request[q]
        BY <1>3, <2>1 DEF In
    <2>4. ASSUME NEW bench \in proposals, Winner(bench) PROVE Winner(bench)'
        BY <1>3, <2>2, <2>3, <2>4 DEF Winner
    <2>5. last' > 0 => \E bench \in proposals' : Winner(bench)'
        BY <1>u, <1>3, <2>4 DEF Untouched
    <2>6. last' = 0 => \A q \in Busy' : request'[q].done = 0
        BY <1>u, <1>3, <2>2 DEF Untouched
    <2>7. Seated' = 1..last' /\ \E n \in 0..last' : page'.seats = 1..n
        BY <1>u, <1>3 DEF Untouched, Seated
    <2> QED
        BY <1>2, <1>3, <2>5, <2>6, <2>7 DEF Untouched
<1>4. ASSUME NEW r \in Requests, SeatBegin(r) PROVE Untouched'
    <2>1. r \notin Busy
        BY <1>4, <1>i DEF SeatBegin, Takes, In
    <2> QED
        BY <1>3, <1>4, <1>i, <2>1 DEF SeatBegin, Ends
<1>5. ASSUME NEW r \in Requests, SeatProposed(r) PROVE Untouched'
    <2>1. r \notin Busy
        BY <1>5 DEF SeatProposed, In
    <2>2. PICK todo : Goes(r, todo) /\ Still(todo) /\ Fresh(todo)
        <3>1. PICK names \in Proposed \cup {Offline} :
                Goes(r, [op |-> "seat", stage |-> "insert", bench |-> <<Literalist>> \o names, done |-> 0])
            BY <1>5 DEF SeatProposed
        <3> QED
            BY <3>1
    <2>3. UNCHANGED <<seat, last, page, cut>> /\ proposals \subseteq proposals'
        BY <1>5 DEF SeatProposed
    <2> QED
        BY <1>3, <2>1, <2>2, <2>3
(* The seat is inserted by the request that seats the bench, or its first. *)
<1>6. ASSUME NEW r \in Requests, SeatInsert(r) PROVE Untouched'
    <2>1. PICK bench, done : bench = request[r].bench /\ done = request[r].done
        OBVIOUS
    <2>2. r \in Busy /\ bench \in proposals /\ bench[1] = Literalist /\ done \in Nat /\ done < Len(bench) /\ bench \in Seq(Names)
        BY <1>6, <1>b, <2>1 DEF SeatInsert, BenchesOK
    <2>3. PICK row : /\ row = [name |-> bench[done + 1], family |-> FamilyAt(done)]
                     /\ Inserts(row) /\ ~NameTaken(row.name, {})
        BY <1>6, <2>1 DEF SeatInsert, Inserts
    <2>4. row \in SeatRow /\ Len(bench) \in Nat
        BY <2>2, <2>3, FamilyOfPosition DEF SeatRow
    <2>5. /\ last' = last + 1 /\ last' \in Ids /\ seat'[last'] = row /\ Seated' = Seated \cup {last'}
          /\ \A i \in Ids \ {last'} : seat'[i] = seat[i]
        BY <1>0, <2>3, <2>4, InsertTypes
    <2>6. ASSUME done = 0, last > 0 PROVE FALSE
        <3>1. PICK b \in proposals : Winner(b)
            BY <1>u, <2>6 DEF Untouched
        <3>2. 1 \in Seated /\ seat[1].name = Literalist
            <4>1. 1 \in 1..last
                BY <1>0, <2>6
            <4>2. seat[1].name = b[1]
                <5>1. seat[1] = [name |-> b[1], family |-> FamilyAt(1 - 1)]
                    BY <3>1, <4>1 DEF Winner
                <5> QED
                    BY <5>1
            <4> QED
                BY <1>u, <3>1, <4>1, <4>2 DEF Untouched, BenchesOK
        <3> QED
            BY <2>2, <2>3, <2>6, <3>2 DEF NameTaken
    <2>7. done = last /\ (last > 0 => Winner(bench))
        <3>1. CASE last = 0
            BY <1>u, <2>1, <2>2, <3>1 DEF Untouched
        <3>2. CASE last > 0
            <4>1. PICK b \in proposals : Winner(b)
                BY <1>u, <3>2 DEF Untouched
            <4>2. done # 0
                BY <2>6, <3>2
            <4>3. done = last /\ bench = b
                BY <2>1, <2>2, <4>1, <4>2 DEF Winner
            <4> QED
                BY <4>1, <4>3
        <3> QED
            BY <1>0, <3>1, <3>2
    <2>8. \A q \in Busy : q # r => request[q].done = 0
        <3>1. CASE last = 0
            BY <1>u, <3>1 DEF Untouched
        <3>2. CASE last > 0
            BY <2>1, <2>2, <2>7, <3>2 DEF Winner
        <3> QED
            BY <1>0, <3>1, <3>2
    <2>9. PICK todo : /\ Goes(r, todo)
                      /\ \/ todo = Idle /\ done + 1 = Len(bench)
                         \/ todo = [request[r] EXCEPT !.done = done + 1] /\ done + 1 # Len(bench)
        BY <1>6, <2>1 DEF SeatInsert, Ends
    <2>10. request'[r] = todo /\ \A q \in Requests \ {r} : request'[q] = request[q]
        BY <1>0, <2>9, GoesTypes
    <2>11. \/ todo = Idle /\ last' = Len(bench)
           \/ todo.op = "seat" /\ todo.stage = "insert" /\ todo.bench = bench /\ todo.done = last' /\ last' # Len(bench)
        BY <1>b, <2>1, <2>2, <2>5, <2>7, <2>9
    <2>12. \A q \in Busy' : q # r => request'[q].done = 0
        BY <2>8, <2>10 DEF In
    <2>13. r \in Busy' => request'[r].bench = bench /\ request'[r].done = last'
        BY <1>i, <2>10, <2>11 DEF In
    <2>14. last' # Len(bench) => r \in Busy'
        BY <2>10, <2>11 DEF In
    <2>15. \A i \in 1..last' : seat'[i] = [name |-> bench[i], family |-> FamilyAt(i - 1)]
        <3>1. ASSUME NEW i \in 1..last PROVE seat'[i] = [name |-> bench[i], family |-> FamilyAt(i - 1)]
            <4>1. i \in Ids \ {last'}
                BY <1>0, <2>5, BenchConstants DEF Ids
            <4>2. last > 0
                BY <1>0
            <4> QED
                BY <2>5, <2>7, <4>1, <4>2 DEF Winner
        <3>2. seat'[last'] = [name |-> bench[last'], family |-> FamilyAt(last' - 1)]
            <4>1. last' = done + 1 /\ last' - 1 = done
                BY <1>0, <2>5, <2>7
            <4> QED
                BY <2>3, <2>5, <4>1
        <3>3. \A i \in 1..last' : i \in 1..last \/ i = last'
            BY <1>0, <2>5
        <3> QED
            BY <3>1, <3>2, <3>3
    <2>16. last' <= Len(bench) /\ last' > 0
        BY <1>0, <2>2, <2>4, <2>5, <2>7
    <2>17. Winner(bench)'
        <3>1. \A q \in Busy' : request'[q].done \in {0, last'}
            BY <2>12, <2>13
        <3>2. \A q \in Busy' : request'[q].done # 0 => request'[q].bench = bench /\ q = r
            BY <2>12, <2>13
        <3>3. last' = Len(bench) \/ \E q \in Busy' : request'[q].done # 0
            <4>1. last' # Len(bench) => r \in Busy' /\ request'[r].done # 0
                BY <2>13, <2>14, <2>16
            <4> QED
                BY <4>1
        <3> QED
            BY <2>15, <2>16, <3>1, <3>2, <3>3 DEF Winner
    <2>18. Seated' = 1..last' /\ \E n \in 0..last' : page'.seats = 1..n
        <3>1. page' = page /\ \A n \in 0..last : n \in 0..last'
            BY <1>0, <1>6, <2>5 DEF SeatInsert
        <3>2. Seated' = 1..last'
            BY <1>0, <1>u, <2>5 DEF Untouched
        <3> QED
            BY <1>u, <3>1, <3>2 DEF Untouched
    <2>19. bench \in proposals' /\ ~(last' = 0)
        BY <1>6, <2>2, <2>16 DEF SeatInsert
    <2>20. todo.op = "none" \/ todo.op = "seat"
        BY <1>i, <2>11
    <2>21. (InFlight("add") \cup InFlight("rewrite") \cup InFlight("remove"))' = {}
        BY <1>2, <2>9, <2>20
    <2> QED
        BY <2>17, <2>18, <2>19, <2>21 DEF Untouched
(* Whoever is turned away past its first seat cuts the bench short.        *)
<1>7. ASSUME NEW r \in Requests, SeatCollides(r) PROVE Untouched'
    <2>1. request'[r] = Idle /\ (\A q \in Requests \ {r} : request'[q] = request[q]) /\ Goes(r, Idle)
        BY <1>0, <1>7, GoesTypes DEF SeatCollides, Ends
    <2>2. \A q \in Busy' : q \in Busy /\ q # r /\ request'[q] = request[q]
        BY <1>i, <2>1 DEF In
    <2>3. \A q \in Busy : q = r \/ q \in Busy'
        BY <2>1 DEF In
    <2>4. /\ UNCHANGED <<seat, last, page, proposals>> /\ cut' = (cut \/ request[r].done > 0) /\ r \in Busy
        BY <1>7 DEF SeatCollides
    <2>5. request[r].done # 0 => cut'
        <3>1. request[r].done \in Nat
            BY <1>b, <2>4
        <3>2. request[r].done # 0 => request[r].done > 0
            BY <3>1
        <3> QED
            BY <2>4, <3>2
    <2>6. ASSUME NEW bench \in proposals, Winner(bench) PROVE Winner(bench)'
        <3>1. last' = Len(bench) \/ cut' \/ \E q \in Busy' : request'[q].done # 0
            <4>1. CASE \E q \in Busy : request[q].done # 0
                BY <2>2, <2>3, <2>5, <4>1
            <4> QED
                BY <2>4, <2>6, <4>1 DEF Winner
        <3> QED
            BY <2>2, <2>4, <2>6, <3>1 DEF Winner
    <2>7. last' > 0 => \E bench \in proposals' : Winner(bench)'
        BY <1>u, <2>4, <2>6 DEF Untouched
    <2>8. last' = 0 => \A q \in Busy' : request'[q].done = 0
        BY <1>u, <2>2, <2>4 DEF Untouched
    <2>9. Seated' = 1..last' /\ \E n \in 0..last' : page'.seats = 1..n
        BY <1>u, <2>4 DEF Untouched, Seated
    <2> QED
        BY <1>2, <1>i, <2>1, <2>7, <2>8, <2>9 DEF Untouched
<1>8. ASSUME NEW r \in Requests, Hosting(r) PROVE Untouched'
    <2>1. r \notin Busy
        BY <1>8, <1>i DEF Hosting, DropDelete, Register, DropBegin, Takes, In
    <2>2. PICK todo : Goes(r, todo) /\ Still(todo) /\ Fresh(todo)
        <3>1. ASSUME Ends(r) PROVE \E todo : Goes(r, todo) /\ Still(todo) /\ Fresh(todo)
            BY <1>i, <3>1 DEF Ends
        <3>2. ASSUME NEW e, Dropping(r, e) PROVE \E todo : Goes(r, todo) /\ Still(todo) /\ Fresh(todo)
            <4>1. PICK todo : todo = [op |-> "drop", stage |-> "delete", endpoint |-> e]
                OBVIOUS
            <4>2. Goes(r, todo) /\ todo.op = "drop"
                BY <3>2, <4>1 DEF Dropping
            <4> QED
                BY <4>2
        <3>3. Ends(r) \/ \E e \in Endpoints : Dropping(r, e)
            BY <1>8 DEF Hosting, DropDelete, Register, DropBegin
        <3> QED
            BY <3>1, <3>2, <3>3
    <2>3. UNCHANGED <<seat, last, page, cut>> /\ proposals \subseteq proposals'
        BY <1>8 DEF Hosting, DropDelete, Register, DropBegin
    <2> QED
        BY <1>3, <2>1, <2>2, <2>3
<1>9. CASE Crash
    <2>1. \A q \in Requests : request'[q] = Idle
        BY <1>9 DEF Crash
    <2>2. UNCHANGED <<seat, last, page, proposals>> /\ cut' = (cut \/ InFlight("seat") # {})
        BY <1>9 DEF Crash
    <2>3. Busy' = {} /\ (Busy # {} => cut')
        BY <1>i, <2>1, <2>2 DEF In, InFlight
    <2>4. ASSUME NEW bench \in proposals, Winner(bench) PROVE Winner(bench)'
        BY <2>2, <2>3, <2>4 DEF Winner
    <2>5. last' > 0 => \E bench \in proposals' : Winner(bench)'
        BY <1>u, <2>2, <2>4 DEF Untouched
    <2>6. Seated' = 1..last' /\ \E n \in 0..last' : page'.seats = 1..n
        BY <1>u, <2>2 DEF Untouched, Seated
    <2>7. (InFlight("add") \cup InFlight("rewrite") \cup InFlight("remove"))' = {}
        BY <1>i, <2>1 DEF InFlight
    <2> QED
        BY <2>3, <2>5, <2>6, <2>7 DEF Untouched
<1>10. CASE Watching
    <2>1. UNCHANGED <<seat, last, proposals, request, cut>>
        BY <1>10 DEF Watching, PageDrops, PageLooks, PageGivesUp
    <2>2. page'.seats = {} \/ page'.seats = Seated
        BY <1>10 DEF Watching, PageDrops, PageLooks, PageGivesUp, Listening, Waiting
    <2>3. \E n \in 0..last' : page'.seats = 1..n
        <3>1. 1..0 = {} /\ 0 \in 0..last /\ last \in 0..last
            BY <1>0
        <3>2. Seated = 1..last
            BY <1>u DEF Untouched
        <3> QED
            BY <2>1, <2>2, <3>1, <3>2
    <2>4. Seated' = Seated /\ Busy' = Busy
        BY <2>1 DEF Seated, In
    <2>5. ASSUME NEW bench \in proposals, Winner(bench) PROVE Winner(bench)'
        BY <2>1, <2>4, <2>5 DEF Winner
    <2>6. (InFlight("add") \cup InFlight("rewrite") \cup InFlight("remove"))' = {}
        BY <1>u, <2>1 DEF Untouched, InFlight
    <2> QED
        BY <1>u, <2>1, <2>3, <2>4, <2>5, <2>6 DEF Untouched
<1>11. CASE UNCHANGED vars
    BY <1>u, <1>11 DEF vars, Untouched, Winner, Seated, In, InFlight
<1> QED
    BY <1>1, <1>4, <1>5, <1>6, <1>7, <1>8, <1>9, <1>10, <1>11 DEF Next, Seating

(* Every step keeps the account of the bench.                              *)
LEMMA StepBench == BenchInv /\ [Next]_vars => BenchInv'
<1> SUFFICES ASSUME BenchInv, [Next]_vars PROVE BenchInv'
    OBVIOUS
<1>1. BenchTypeOK'
    BY BenchType DEF BenchInv
<1> QED
    BY <1>1, StepRecord, StepRace, StepBenches, StepUntouched DEF BenchInv

-----------------------------------------------------------------------------
(* The bench, for any constants.                                           *)

(* The account of the bench is kept in every reachable state.              *)
THEOREM Invariance == Spec => []BenchInv
<1>1. BenchInv /\ [Next]_vars => BenchInv'
    BY StepBench
<1> QED
    BY InitBench, <1>1, PTL DEF Spec

(* Seats, requests, pages and endpoints have their types, seats are        *)
(* numbered without gaps, and no two seats of the bench have one name,     *)
(* whichever requests seat, add and rewrite at a time.                     *)
THEOREM TypeCorrect == Spec => []BenchTypeOK
<1>1. BenchInv => BenchTypeOK
    BY DEF BenchInv
<1> QED
    BY Invariance, <1>1, PTL

(* Every seat that is gone is on record as deleted, whichever requests     *)
(* were killed half way.                                                   *)
THEOREM Removals == Spec => []RemovalsAreOnRecord
<1>1. BenchInv => RemovalsAreOnRecord
    BY DEF BenchInv, RecordOK
<1> QED
    BY Invariance, <1>1, PTL

(* A seat loses its endpoint only to a drop that raced with a rewrite.     *)
THEOREM Stranded == Spec => []StrandedOnlyByARace
<1>1. ASSUME BenchInv PROVE StrandedOnlyByARace
    <2>1. ASSUME NEW i \in Seated, AskedThrough(seat[i]) = "nothing" PROVE seat[i].family \in raced
        <3>1. seat[i].family \in Endpoints /\ seat[i].family \notin endpoints
            BY <2>1 DEF AskedThrough, OnEndpoint
        <3> QED
            BY <1>1, <3>1 DEF BenchInv, RaceOK, Known
    <2> QED
        BY <2>1 DEF StrandedOnlyByARace
<1> QED
    BY Invariance, <1>1, PTL

(* Of a bench that is the beginning of one proposal, two seats of one      *)
(* family leave none free.                                                 *)
LEMMA FamiliesAreSpread ==
    ASSUME BenchTypeOK, Seated = 1..last,
           \A i \in 1..last : seat[i].family = FamilyAt(i - 1),
           NEW i \in Seated, NEW j \in Seated, seat[i].family = seat[j].family, i # j,
           NEW f \in Registry
    PROVE  Used(f) # {}
<1>0. last \in Nat /\ i \in 1..last /\ j \in 1..last /\ i - 1 \in Nat /\ j - 1 \in Nat
    BY BenchConstants DEF BenchTypeOK
<1>1. PICK n \in 1..Len(Families) : f = Families[n]
    BY FamilyOfPosition DEF Registry
<1>2. last > Len(Families)
    <2>1. SUFFICES ASSUME last <= Len(Families) PROVE FALSE
        BY <1>0, FamilyOfPosition
    <2>2. i - 1 \in 0..(Len(Families) - 1) /\ j - 1 \in 0..(Len(Families) - 1)
        BY <1>0, <2>1, FamilyOfPosition
    <2>3. FamilyAt(i - 1) = Families[(i - 1) + 1] /\ FamilyAt(j - 1) = Families[(j - 1) + 1]
        BY <2>2, FamilyOfPosition
    <2>4. (i - 1) + 1 = i /\ (j - 1) + 1 = j
        BY <1>0
    <2>5. Families[i] = Families[j]
        BY <1>0, <2>3, <2>4
    <2>6. i \in DOMAIN Families /\ j \in DOMAIN Families
        BY <1>0, <2>1, FamilyOfPosition
    <2> QED
        BY <2>5, <2>6, BenchConstants
<1>3. n \in 1..last /\ n - 1 \in 0..(Len(Families) - 1) /\ (n - 1) + 1 = n
    BY <1>0, <1>2, FamilyOfPosition
<1>4. FamilyAt(n - 1) = f
    BY <1>1, <1>3, FamilyOfPosition
<1> QED
    BY <1>3, <1>4 DEF Used

(* However many requests seat a panel at a time, a bench no person has     *)
(* edited is the beginning of one proposal, spread over the families, and  *)
(* all of it if no seating goes on and none was cut short.  A page is      *)
(* shown its first seats.                                                  *)
THEOREM OneProposal == Spec => []BenchIsOneProposal
<1>1. ASSUME BenchInv PROVE BenchIsOneProposal
    <2>1. SUFFICES ASSUME ~touched, Seated # {}
                   PROVE  \E bench \in proposals :
                            /\ last <= Len(bench) /\ \A i \in 1..last : seat[i].name = bench[i]
                            /\ \A i, j \in Seated :
                                 seat[i].family = seat[j].family /\ i # j => \A f \in Registry : Used(f) # {}
                            /\ InFlight("seat") = {} /\ ~cut => last = Len(bench)
                            /\ page.seats \subseteq Seated /\ page.seats = 1..Cardinality(page.seats)
        BY DEF BenchIsOneProposal
    <2>2. BenchTypeOK /\ Untouched /\ last \in Nat
        BY <1>1, <2>1, BenchConstants DEF BenchInv, BenchTypeOK
    <2>3. Seated = 1..last /\ last > 0
        BY <2>1, <2>2 DEF Untouched
    <2>4. PICK bench \in proposals : Winner(bench)
        BY <2>2, <2>3 DEF Untouched
    <2>5. \A i \in 1..last : seat[i].name = bench[i] /\ seat[i].family = FamilyAt(i - 1)
        <3>1. ASSUME NEW i \in 1..last PROVE seat[i].name = bench[i] /\ seat[i].family = FamilyAt(i - 1)
            <4>1. seat[i] = [name |-> bench[i], family |-> FamilyAt(i - 1)]
                BY <2>4 DEF Winner
            <4> QED
                BY <4>1
        <3> QED
            BY <3>1
    <2>6. \A i, j \in Seated : seat[i].family = seat[j].family /\ i # j => \A f \in Registry : Used(f) # {}
        BY <2>2, <2>3, <2>5, FamiliesAreSpread
    <2>7. InFlight("seat") = {} /\ ~cut => last = Len(bench)
        <3>1. InFlight("seat") = {} => In("seat", "insert") = {}
            BY DEF InFlight, In
        <3> QED
            BY <2>4, <3>1 DEF Winner
    <2>8. page.seats \subseteq Seated /\ page.seats = 1..Cardinality(page.seats)
        <3>1. PICK n \in 0..last : page.seats = 1..n
            BY <2>2 DEF Untouched
        <3>2. Cardinality(1..n) = n
            BY <2>2, FS_Interval
        <3>3. 1..n \subseteq 1..last
            BY <2>2
        <3> QED
            BY <2>3, <3>1, <3>2, <3>3
    <2> QED
        BY <2>4, <2>5, <2>6, <2>7, <2>8 DEF Winner
<1> QED
    BY Invariance, <1>1, PTL
=============================================================================
