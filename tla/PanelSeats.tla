----------------------------- MODULE PanelSeats -----------------------------
(***************************************************************************)
(* The bench of a project: the seats and the project's own endpoints, as   *)
(* the routes of server/app.ts change them.  A seating asks a writer for   *)
(* seats, which may take minutes, and inserts them one statement at a      *)
(* time; people add, rewrite, move and delete seats; an endpoint is        *)
(* registered, checked for and dropped.  Each handler reads first and      *)
(* writes later, and any two may run side by side.                         *)
(*                                                                         *)
(* Seats are numbered as they are inserted, over all time.  The objective  *)
(* of a seat is left out, its name and family stay.  Reads in a row with   *)
(* nothing of their own in between are one step.                           *)
(***************************************************************************)
EXTENDS Naturals, Sequences, FiniteSets

CONSTANTS
    Requests,       \* handlers that may run at a time
    Literalist,     \* the name of the seat every panel has
    Titles,         \* other names
    Count,          \* seats asked of the writer; the code has 5
    Offline,        \* the names of the offline writer, in order
    Families,       \* the families of the registry, cheapest first
    ENOUGH,         \* seats a page takes for a panel; the code has 3
    Endpoints,      \* what an endpoint may be registered as, once each
    MaxSeats,       \* bound: seats ever inserted
    MaxWork,        \* bound: requests
    MaxCrashes      \* bound: processes killed

Names == Titles \cup {Literalist}
Registry == {Families[i] : i \in DOMAIN Families}
Ids == 1..MaxSeats

ASSUME BenchConstants ==
    /\ Literalist \notin Titles /\ Count \in Nat
    /\ Offline \in Seq(Titles) /\ Len(Offline) <= Count
    /\ Families \in Seq(Registry) /\ Families # <<>>
    /\ \A i, j \in DOMAIN Families : Families[i] = Families[j] => i = j
    /\ Registry \cap Endpoints = {} /\ "none" \notin Registry \cup Endpoints
    /\ ENOUGH \in Nat \ {0}
    /\ MaxSeats \in Nat /\ MaxWork \in Nat /\ MaxCrashes \in Nat

VARIABLES
    seat,       \* seat[i]: the i-th seat inserted, or Gone
    last,       \* how many seats were inserted
    endpoints,  \* the endpoints registered and not dropped
    log,        \* panel_edits: what was done to which seat
    request,    \* request[r]: what a handler has read and has still to do
    page,       \* the page that asked for a panel, and the seats it got to show
    proposals,  \* history: the benches seatings set out to seat
    touched,    \* history: a person set out to edit the bench
    cut,        \* history: a seating ended before its last seat
    raced,      \* history: endpoints being dropped while a seat was rewritten
    work, crashes

vars == <<seat, last, endpoints, log, request, page, proposals, touched, cut, raced, work, crashes>>

Gone == [name |-> "none", family |-> "none"]
SeatRow == [name : Names, family : Registry \cup Endpoints]

Seated == {i \in 1..last : seat[i] # Gone}
NameTaken(name, but) == \E i \in Seated \ but : seat[i].name = name

FamilyAt(n) == Families[1 + (n % Len(Families))]
OnEndpoint(row) == row.family \in Endpoints

(* What a seat's family is asked through, when a case is graded.           *)
AskedThrough(row) ==
    IF ~OnEndpoint(row) THEN "registry" ELSE IF row.family \in endpoints THEN "endpoint" ELSE "nothing"

(* A handler is at a stage of an operation.  It has read: the bench it is  *)
(* to seat and how much of it it has seated; a row to insert; the changes  *)
(* asked for, as sequences of at most one; the row to write; an endpoint.  *)
Idle == [op |-> "none", stage |-> "idle"]
UpToOne(S) == {<<>>} \cup {<<x>> : x \in S}
Handlers ==
    {Idle}
    \cup [op : {"seat"}, stage : {"writer"}]
    \cup [op : {"seat"}, stage : {"insert"}, bench : Seq(Names), done : Nat]
    \cup [op : {"add"}, stage : {"insert"}, row : SeatRow]
    \cup [op : {"rewrite"}, stage : {"read"}, id : Ids,
          name : UpToOne(Names), place : UpToOne(Registry \cup Endpoints)]
    \cup [op : {"rewrite"}, stage : {"write"}, id : Ids, row : SeatRow]
    \cup [op : {"remove"}, stage : {"delete"}, id : Ids]
    \cup [op : {"add", "rewrite", "remove"}, stage : {"log"}, id : Ids]
    \cup [op : {"drop"}, stage : {"delete"}, endpoint : Endpoints]

Listening == [stage |-> "listening", seats |-> {}]
Waiting == [stage |-> "waiting", seats |-> {}]
Pages == {Listening, Waiting} \cup [stage : {"shown"}, seats : SUBSET Ids]

Init ==
    /\ seat = [i \in Ids |-> Gone] /\ last = 0
    /\ endpoints = {} /\ log = {}
    /\ request = [r \in Requests |-> Idle] /\ page = Listening
    /\ proposals = {} /\ touched = FALSE /\ cut = FALSE /\ raced = {}
    /\ work = 0 /\ crashes = 0

Takes(r) ==
    /\ request[r] = Idle
    /\ work < MaxWork /\ work' = work + 1

Goes(r, todo) == request' = [request EXCEPT ![r] = todo]
Ends(r) == Goes(r, Idle)
In(op, stage) == {r \in Requests : request[r].op = op /\ request[r].stage = stage}
InFlight(op) == {r \in Requests : request[r].op = op}

-----------------------------------------------------------------------------
(* Seating: only where there is no seat, which is read once.               *)
SeatBegin(r) ==
    /\ Takes(r)
    /\ IF Seated = {} THEN Goes(r, [op |-> "seat", stage |-> "writer"]) ELSE Ends(r)
    /\ UNCHANGED <<seat, last, endpoints, log, page, proposals, touched, cut, raced, crashes>>

(* The writer's seats, less any literalist of its own; or, when it fails,  *)
(* the offline writer's.  The literalist goes first.                       *)
Proposed == UNION {[1..n -> Titles] : n \in 0..Count}

SeatProposed(r) ==
    /\ r \in In("seat", "writer")
    /\ \E names \in Proposed \cup {Offline} :
        LET bench == <<Literalist>> \o names
        IN /\ Goes(r, [op |-> "seat", stage |-> "insert", bench |-> bench, done |-> 0])
           /\ proposals' = proposals \cup {bench}
    /\ UNCHANGED <<seat, last, endpoints, log, page, touched, cut, raced, work, crashes>>

(* A row is inserted if no seat of the project has its name.               *)
(* Fault: there is no such constraint.                                     *)
InsertsAnyway(row) ==
    /\ last < MaxSeats /\ last' = last + 1
    /\ seat' = [seat EXCEPT ![last + 1] = row]

Inserts(row) ==
    /\ ~NameTaken(row.name, {})
    /\ last < MaxSeats /\ last' = last + 1
    /\ seat' = [seat EXCEPT ![last + 1] = row]

SeatInsert(r) ==
    /\ r \in In("seat", "insert")
    /\ LET q == request[r] IN
        /\ Inserts([name |-> q.bench[q.done + 1], family |-> FamilyAt(q.done)])
        /\ IF q.done + 1 = Len(q.bench) THEN Ends(r) ELSE Goes(r, [q EXCEPT !.done = @ + 1])
    /\ UNCHANGED <<endpoints, log, page, proposals, touched, cut, raced, work, crashes>>

(* The name is taken: the request ends there, its earlier seats stay.      *)
SeatCollides(r) ==
    /\ r \in In("seat", "insert")
    /\ NameTaken(request[r].bench[request[r].done + 1], {})
    /\ cut' = (cut \/ request[r].done > 0)
    /\ Ends(r)
    /\ UNCHANGED <<seat, last, endpoints, log, page, proposals, touched, raced, work, crashes>>

-----------------------------------------------------------------------------
(* A person adds a seat: its family goes by how many seats there were.     *)
AddBegin(r) ==
    /\ Takes(r) /\ touched' = TRUE
    /\ \E name \in Names :
        Goes(r, [op |-> "add", stage |-> "insert",
                 row |-> [name |-> name, family |-> FamilyAt(Cardinality(Seated))]])
    /\ UNCHANGED <<seat, last, endpoints, log, page, proposals, cut, raced, crashes>>

AddInsert(r) ==
    /\ r \in In("add", "insert")
    /\ LET q == request[r] IN
        IF NameTaken(q.row.name, {}) THEN Ends(r) /\ UNCHANGED <<seat, last>>
        ELSE /\ Inserts(q.row)
             /\ Goes(r, [op |-> "add", stage |-> "log", id |-> last + 1])
    /\ UNCHANGED <<endpoints, log, page, proposals, touched, cut, raced, work, crashes>>

(* Rewriting: the seat and its new place are looked up, an endpoint if it  *)
(* is registered, or the registry family of the seat's position.           *)
Places(i) ==
    endpoints \cup IF OnEndpoint(seat[i]) THEN {FamilyAt(Cardinality(Seated \ {i}))} ELSE {}

RewriteBegin(r, i) ==
    /\ i \in Seated /\ Takes(r) /\ touched' = TRUE
    /\ \E name \in UpToOne(Names), place \in UpToOne(Places(i)) :
        Goes(r, [op |-> "rewrite", stage |-> "read", id |-> i, name |-> name, place |-> place])
    /\ raced' = raced \cup {request[d].endpoint : d \in In("drop", "delete")}
    /\ UNCHANGED <<seat, last, endpoints, log, page, proposals, cut, crashes>>

(* updateSeat reads the row again, and will write back what is not to      *)
(* change.                                                                 *)
RewriteRead(r) ==
    /\ r \in In("rewrite", "read")
    /\ LET q == request[r]
           kept(new, old) == IF new = <<>> THEN old ELSE new[1]
       IN IF q.id \notin Seated THEN Ends(r)
          ELSE Goes(r, [op |-> "rewrite", stage |-> "write", id |-> q.id,
                        row |-> [name |-> kept(q.name, seat[q.id].name),
                                 family |-> kept(q.place, seat[q.id].family)]])
    /\ UNCHANGED <<seat, last, endpoints, log, page, proposals, touched, cut, raced, work, crashes>>

RewriteWrite(r) ==
    /\ r \in In("rewrite", "write")
    /\ LET q == request[r] IN
        IF q.id \notin Seated \/ NameTaken(q.row.name, {q.id})
        THEN Ends(r) /\ UNCHANGED seat
        ELSE /\ seat' = [seat EXCEPT ![q.id] = q.row]
             /\ Goes(r, [op |-> "rewrite", stage |-> "log", id |-> q.id])
    /\ UNCHANGED <<last, endpoints, log, page, proposals, touched, cut, raced, work, crashes>>

(* The row is read once more for the record, and may be gone.              *)
RewriteLost(r) ==
    /\ r \in In("rewrite", "log") /\ request[r].id \notin Seated
    /\ Ends(r)
    /\ UNCHANGED <<seat, last, endpoints, log, page, proposals, touched, cut, raced, work, crashes>>

(* Deleting: on record first.                                              *)
RemoveBegin(r, i) ==
    /\ i \in Seated /\ Takes(r) /\ touched' = TRUE
    /\ Goes(r, [op |-> "remove", stage |-> "log", id |-> i])
    /\ UNCHANGED <<seat, last, endpoints, log, page, proposals, cut, raced, crashes>>

(* The edit is put on record; deleting goes on, the others are done.       *)
Logs(r) ==
    /\ request[r].stage = "log"
    /\ log' = log \cup {<<request[r].op, request[r].id>>}
    /\ IF request[r].op = "remove" THEN Goes(r, [request[r] EXCEPT !.stage = "delete"])
       ELSE Ends(r)
    /\ UNCHANGED <<seat, last, endpoints, page, proposals, touched, cut, raced, work, crashes>>

(* Fault: a delete can come before its record.                             *)
RemoveDeleteEarly(r) ==
    /\ r \in In("remove", "log") \cup In("remove", "delete")
    /\ seat' = [seat EXCEPT ![request[r].id] = Gone]
    /\ Ends(r)
    /\ UNCHANGED <<last, endpoints, log, page, proposals, touched, cut, raced, work, crashes>>

RemoveDelete(r) ==
    /\ r \in In("remove", "delete")
    /\ seat' = [seat EXCEPT ![request[r].id] = Gone]
    /\ Ends(r)
    /\ UNCHANGED <<last, endpoints, log, page, proposals, touched, cut, raced, work, crashes>>

-----------------------------------------------------------------------------
(* An endpoint is registered; and dropped if no seat runs on it, which is  *)
(* one statement before.  An id nothing refers to any more stands for a    *)
(* new one.                                                                *)
EndpointInserted(e) == endpoints' = endpoints \cup {e}
EndpointDeleted(e) == endpoints' = endpoints \ {e}

Used(e) == {i \in Seated : seat[i].family = e}

Register(r, e) ==
    /\ Takes(r) /\ e \notin endpoints /\ e \notin raced
    /\ \A s \in Seated : seat[s].family # e
    /\ EndpointInserted(e)
    /\ Ends(r)
    /\ UNCHANGED <<seat, last, log, page, proposals, touched, cut, raced, crashes>>

Dropping(r, e) == Goes(r, [op |-> "drop", stage |-> "delete", endpoint |-> e])

(* Fault: it is dropped whoever runs on it.                                *)
DropBeginUnchecked(r, e) ==
    /\ e \in endpoints /\ Takes(r)
    /\ Dropping(r, e)
    /\ raced' = IF InFlight("rewrite") = {} THEN raced ELSE raced \cup {e}
    /\ UNCHANGED <<seat, last, endpoints, log, page, proposals, touched, cut, crashes>>

DropBegin(r, e) ==
    /\ e \in endpoints /\ Takes(r)
    /\ IF Used(e) = {} THEN Dropping(r, e) ELSE Ends(r)
    /\ raced' = IF InFlight("rewrite") = {} THEN raced ELSE raced \cup {e}
    /\ UNCHANGED <<seat, last, endpoints, log, page, proposals, touched, cut, crashes>>

DropDelete(r) ==
    /\ r \in In("drop", "delete")
    /\ EndpointDeleted(request[r].endpoint)
    /\ Ends(r)
    /\ UNCHANGED <<seat, last, log, page, proposals, touched, cut, raced, work, crashes>>

(* The process is killed: every request in it ends where it is.            *)
Crash ==
    /\ crashes < MaxCrashes /\ crashes' = crashes + 1
    /\ \E r \in Requests : request[r] # Idle
    /\ cut' = (cut \/ InFlight("seat") # {})
    /\ request' = [r \in Requests |-> Idle]
    /\ UNCHANGED <<seat, last, endpoints, log, page, proposals, touched, raced, work>>

(* The page that asked for a panel loses its connection while the panel is *)
(* written, and looks for seats until it sees enough, which it takes for   *)
(* the panel, or has waited long enough.                                   *)
PageDrops ==
    /\ page = Listening /\ InFlight("seat") # {}
    /\ page' = Waiting
    /\ UNCHANGED <<seat, last, endpoints, log, request, proposals, touched, cut, raced, work, crashes>>

PageLooks ==
    /\ page = Waiting /\ Cardinality(Seated) >= ENOUGH
    /\ page' = [stage |-> "shown", seats |-> Seated]
    /\ UNCHANGED <<seat, last, endpoints, log, request, proposals, touched, cut, raced, work, crashes>>

PageGivesUp ==
    /\ page = Waiting /\ page' = Listening
    /\ UNCHANGED <<seat, last, endpoints, log, request, proposals, touched, cut, raced, work, crashes>>

Watching == PageDrops \/ PageLooks \/ PageGivesUp
Seating(r) == SeatBegin(r) \/ SeatProposed(r) \/ SeatInsert(r) \/ SeatCollides(r)
Editing(r) ==
    \/ AddBegin(r) \/ AddInsert(r) \/ RewriteRead(r) \/ RewriteWrite(r) \/ RewriteLost(r)
    \/ Logs(r) \/ RemoveDelete(r)
    \/ \E i \in Ids : RewriteBegin(r, i) \/ RemoveBegin(r, i)
Hosting(r) == DropDelete(r) \/ \E e \in Endpoints : Register(r, e) \/ DropBegin(r, e)

Next == Crash \/ Watching \/ \E r \in Requests : Seating(r) \/ Editing(r) \/ Hosting(r)

Spec == Init /\ [][Next]_vars

-----------------------------------------------------------------------------
BenchTypeOK ==
    /\ last \in 0..MaxSeats /\ seat \in [Ids -> SeatRow \cup {Gone}]
    /\ \A i \in Ids : i > last => seat[i] = Gone
    /\ \A i, j \in Seated : seat[i].name = seat[j].name => i = j
    /\ endpoints \subseteq Endpoints /\ raced \subseteq Endpoints
    /\ log \subseteq {"add", "rewrite", "remove"} \X Ids
    /\ request \in [Requests -> Handlers] /\ page \in Pages
    /\ proposals \subseteq Seq(Names)
    /\ touched \in BOOLEAN /\ cut \in BOOLEAN
    /\ work \in 0..MaxWork /\ crashes \in 0..MaxCrashes

(* server/app.ts:1020: seating is for a project without a panel, asks a    *)
(* model for seats, and inserts them one by one.  However many requests    *)
(* seat a panel at a time, a bench no person has edited is the beginning   *)
(* of one proposal, its literalist first, with no family twice while       *)
(* another is free; and all of it, if no seating is under way and none was *)
(* cut short or proposed a name twice.  The seats a page was shown that    *)
(* had lost its connection are the first of that bench, and still there.   *)
BenchIsOneProposal ==
    ~touched /\ Seated # {} =>
        \E bench \in proposals :
            /\ last <= Len(bench) /\ \A i \in 1..last : seat[i].name = bench[i]
            /\ \A i, j \in Seated :
                 seat[i].family = seat[j].family /\ i # j => \A f \in Registry : Used(f) # {}
            /\ InFlight("seat") = {} /\ ~cut => last = Len(bench)
            /\ page.seats \subseteq Seated /\ page.seats = 1..Cardinality(page.seats)

(* server/panelists.ts:192: a seat whose endpoint is gone fails on every   *)
(* case.  A drop checks the seats and deletes later, a rewrite writes back *)
(* a family it read.  A seat is on an endpoint that is gone only if that   *)
(* one was being dropped while some seat was being rewritten.              *)
StrandedOnlyByARace ==
    \A i \in Seated : AskedThrough(seat[i]) = "nothing" => seat[i].family \in raced

(* server/app.ts:1202: edits are on record as signal.  Of the seats that   *)
(* were ever inserted, those that are gone are on record as deleted,       *)
(* whichever requests were killed half way.                                *)
RemovalsAreOnRecord ==
    \A i \in (1..last) \ Seated : <<"remove", i>> \in log
=============================================================================
