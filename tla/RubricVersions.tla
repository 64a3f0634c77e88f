--------------------------- MODULE RubricVersions ---------------------------
(***************************************************************************)
(* The standards of one project: the versions of its rubric and the        *)
(* requests of server/app.ts that write them over server/store.ts.  The    *)
(* owner edits the current version, accepts or rejects sentences mined     *)
(* from a closed round (patches), has all of them written at once          *)
(* (standards), or ships the clauses of the splits she settled; a round    *)
(* pins the version it is graded against.  Handlers await every statement, *)
(* so requests interleave, and any of them may be cut off.                 *)
(*                                                                         *)
(* A version's row id is its position in versions, a patch's its position  *)
(* in patches; 0 is no row.  A sentence and a clause are what they say, in *)
(* whatever words: the names, the preamble, the scale, the open questions  *)
(* and the evidence of a patch travel with them and are left out, as is a  *)
(* patch accepted in the owner's words.  A row and its clauses are read in *)
(* one step.  Grading is PollRound's and PanelRun's: a closed round here   *)
(* has votes of a panel.  The state begins when the project has its first  *)
(* version.                                                                *)
(*                                                                         *)
(* A definition whose comment starts with "Fault" is a wrong variant of    *)
(* the one after it: it is in no specification, and shows what a property  *)
(* would catch.                                                            *)
(***************************************************************************)
EXTENDS Naturals, Sequences, FiniteSets, SequencesExt

CONSTANTS
    Slots,       \* the requests that can be in flight at once
    Rounds,
    NoRound,     \* what was not made from a round
    Splits,      \* Splits[r]: the sentences that the splits of r can ground
    OwnReasons,  \* the sentences of false settles, in the owner's own words
    Clauses,     \* the clause texts of resolutions
    Bodies,      \* the criteria an edit may send
    Keep,        \* an edit that sends none
    MaxRequests, \* bound: requests begun
    MaxPatches   \* bound: patches, for those of false settles

Sentences == (UNION {Splits[r] : r \in Rounds}) \cup OwnReasons \cup (UNION Bodies)

ASSUME RubricConstants ==
    /\ Splits \in [Rounds -> SUBSET Sentences]
    /\ Bodies \subseteq SUBSET Sentences
    /\ Keep \notin Bodies
    /\ IsFiniteSet(Clauses)
    /\ NoRound \notin Rounds
    /\ MaxRequests \in Nat
    /\ MaxPatches \in Nat

VARIABLES
    versions,    \* rubric_versions with their clauses, in the order they were inserted
    patches,     \* patches, likewise
    round,       \* round[r]: status, and the version it pins
    resolutions, \* resolutions[r]: the clause texts of its resolutions
    req,         \* req[s]: the request in slot s
    begun        \* requests begun

vars == <<versions, patches, round, resolutions, req, begun>>

Steps == {"idle", "editing", "rereading", "updating", "accepting", "rejecting", "mining",
          "reading", "shipping", "opening", "numbering", "inserting", "writing", "settling"}
Kinds == {"edit", "accept", "reject", "patches", "standards", "ship", "open"}

(* A handler's locals: the round and the version it works from, the patch  *)
(* rows it is about, the sentences still to insert, the new version's      *)
(* number, content and row.                                                *)
Idle == [at |-> "idle", kind |-> "edit", of |-> NoRound, body |-> Keep, base |-> 0,
         rows |-> {}, texts |-> {}, criteria |-> {}, clauses |-> <<>>, number |-> 0, made |-> 0]

(* SELECT COALESCE(MAX(version), 0).                                       *)
LastNumber == Max({0} \cup {versions[i].number : i \in DOMAIN versions})

(* currentRubric: ORDER BY version DESC LIMIT 1.                           *)
Current == CHOOSE i \in DOMAIN versions : \A j \in DOMAIN versions : versions[j].number <= versions[i].number

(* rubricIsPinned: a round refers to it, whatever became of the round.     *)
Pinned(i) == \E r \in Rounds : round[r].status # "none" /\ round[r].pins = i

(* Fault: a round that is over no longer counts.                           *)
PinnedByOpen(i) == \E r \in Rounds : round[r].status = "open" /\ round[r].pins = i

PatchesOf(r) == {p \in DOMAIN patches : patches[p].of = r}
Closed(r) == round[r].status = "closed"

Init ==
    /\ versions = <<[number |-> 1, parent |-> 0, criteria |-> {}, clauses |-> <<>>,
                     by |-> "edit", for |-> {}, from |-> NoRound]>>
    /\ patches = <<>>
    /\ round = [r \in Rounds |-> [status |-> "none", pins |-> 0]]
    /\ resolutions = [r \in Rounds |-> {}]
    /\ req = [s \in Slots |-> Idle]
    /\ begun = 0

-----------------------------------------------------------------------------
Begin(s, locals) ==
    /\ req[s].at = "idle"
    /\ begun < MaxRequests
    /\ begun' = begun + 1
    /\ req' = [req EXCEPT ![s] = locals]

At(s, step) == req[s].at = step /\ UNCHANGED begun
Goto(s, locals) == req' = [req EXCEPT ![s] = locals]
End(s) == Goto(s, Idle)

-----------------------------------------------------------------------------
(* createRubricVersion, which most writers end with: the number is read,   *)
(* the row inserted under UNIQUE (project_id, version), its clauses        *)
(* inserted one by one.  Then a patch's writer marks its patches.          *)
NumberVersion(s) ==
    /\ At(s, "numbering")
    /\ Goto(s, [req[s] EXCEPT !.at = "inserting", !.number = LastNumber + 1])
    /\ UNCHANGED <<versions, patches, round, resolutions>>

AfterVersion(locals) ==
    IF locals.clauses # <<>> THEN [locals EXCEPT !.at = "writing"]
    ELSE IF locals.rows # {} THEN [locals EXCEPT !.at = "settling"]
    ELSE Idle

Store(s) ==
    /\ versions' = Append(versions,
         [number |-> req[s].number, parent |-> req[s].base, criteria |-> req[s].criteria, clauses |-> <<>>,
          by |-> req[s].kind, for |-> req[s].rows, from |-> req[s].of])
    /\ Goto(s, AfterVersion([req[s] EXCEPT !.made = Len(versions) + 1]))

NumberTaken(n) == \E i \in DOMAIN versions : versions[i].number = n

(* Fault: the table does not hold the numbers apart.                       *)
InsertUnchecked(s) ==
    /\ At(s, "inserting")
    /\ Store(s)
    /\ UNCHANGED <<patches, round, resolutions>>

(* Fault: the request goes on after the insert was refused.                *)
InsertSwallowed(s) ==
    /\ At(s, "inserting")
    /\ IF NumberTaken(req[s].number)
         THEN UNCHANGED versions /\ Goto(s, AfterVersion([req[s] EXCEPT !.made = Len(versions) + 1, !.clauses = <<>>]))
         ELSE Store(s)
    /\ UNCHANGED <<patches, round, resolutions>>

(* A number taken since it was read ends the request with an error.        *)
InsertVersion(s) ==
    /\ At(s, "inserting")
    /\ IF NumberTaken(req[s].number) THEN UNCHANGED versions /\ End(s) ELSE Store(s)
    /\ UNCHANGED <<patches, round, resolutions>>

InsertClause(s) ==
    /\ At(s, "writing")
    /\ versions' = [versions EXCEPT ![req[s].made].clauses = Append(@, Head(req[s].clauses))]
    /\ Goto(s, AfterVersion([req[s] EXCEPT !.clauses = Tail(@)]))
    /\ UNCHANGED <<patches, round, resolutions>>

(* setPatchStatus, one patch after the other, whatever they are by now.    *)
Settle(s) ==
    /\ At(s, "settling")
    /\ \E p \in req[s].rows :
         /\ patches' = [patches EXCEPT ![p].status = "accepted", ![p].resolved = req[s].made]
         /\ Goto(s, AfterVersion([req[s] EXCEPT !.rows = @ \ {p}]))
    /\ UNCHANGED <<versions, round, resolutions>>

-----------------------------------------------------------------------------
(* PUT /projects/:slug/rubric: the current version is read, ...            *)
EditBegin(s) ==
    /\ \E body \in Bodies \cup {Keep} :
         Begin(s, [Idle EXCEPT !.at = "editing", !.kind = "edit", !.body = body, !.base = Current,
                    !.criteria = versions[Current].criteria, !.clauses = versions[Current].clauses])
    /\ UNCHANGED <<versions, patches, round, resolutions>>

Edited(body, criteria) == IF body = Keep THEN criteria ELSE body

(* ... tested, and if no round pins it changed where it is: read once more *)
(* and written back.  Otherwise the edit forks a version.                  *)
TestAndBranch(s, pinned) ==
    /\ At(s, "editing")
    /\ Goto(s, IF pinned
                 THEN [req[s] EXCEPT !.at = "numbering", !.criteria = Edited(req[s].body, @)]
                 ELSE [req[s] EXCEPT !.at = "rereading", !.clauses = <<>>])
    /\ UNCHANGED <<versions, patches, round, resolutions>>

(* Fault: only an open round is asked about.                               *)
EditTestOpen(s) == TestAndBranch(s, PinnedByOpen(req[s].base))

EditTest(s) == TestAndBranch(s, Pinned(req[s].base))

EditReread(s) ==
    /\ At(s, "rereading")
    /\ Goto(s, [req[s] EXCEPT !.at = "updating", !.criteria = Edited(req[s].body, versions[req[s].base].criteria)])
    /\ UNCHANGED <<versions, patches, round, resolutions>>

EditUpdate(s) ==
    /\ At(s, "updating")
    /\ versions' = [versions EXCEPT ![req[s].base].criteria = req[s].criteria]
    /\ End(s)
    /\ UNCHANGED <<patches, round, resolutions>>

-----------------------------------------------------------------------------
(* PATCH /rounds/:roundId/patches/:patchId: only a proposed one is taken.  *)
Take(s, p, kind, step) ==
    /\ patches[p].status = "proposed"
    /\ Begin(s, [Idle EXCEPT !.at = step, !.kind = kind, !.of = patches[p].of, !.rows = {p}])
    /\ UNCHANGED <<versions, patches, round, resolutions>>

AcceptBegin(s, p) == Take(s, p, "accept", "accepting")
RejectBegin(s, p) == Take(s, p, "reject", "rejecting")

(* Fault: the row gets a status its readers do not know.                   *)
RejectMisnamed(s) ==
    /\ At(s, "rejecting")
    /\ \E p \in req[s].rows : patches' = [patches EXCEPT ![p].status = "declined", ![p].resolved = 0]
    /\ End(s)
    /\ UNCHANGED <<versions, round, resolutions>>

Reject(s) ==
    /\ At(s, "rejecting")
    /\ \E p \in req[s].rows : patches' = [patches EXCEPT ![p].status = "rejected", ![p].resolved = 0]
    /\ End(s)
    /\ UNCHANGED <<versions, round, resolutions>>

(* The new version is the current one with the sentences of the patches    *)
(* added; clauses are not carried over.                                    *)
DraftFromPatches(s) ==
    /\ Goto(s, [req[s] EXCEPT !.at = "numbering", !.base = Current,
                 !.criteria = versions[Current].criteria \cup {patches[p].text : p \in req[s].rows}])
    /\ UNCHANGED <<versions, patches, round, resolutions>>

AcceptBase(s) == At(s, "accepting") /\ DraftFromPatches(s)
StandardsBase(s) == At(s, "reading") /\ DraftFromPatches(s)

-----------------------------------------------------------------------------
(* POST /rounds/:roundId/patches: a round without patches is mined.  Which *)
(* sentences its splits ground is for the votes to say.                    *)
Mine(s, r, kind) ==
    /\ PatchesOf(r) = {}
    /\ \E grounded \in SUBSET Splits[r] \ {{}} :
         Begin(s, [Idle EXCEPT !.at = "mining", !.kind = kind, !.of = r, !.texts = grounded])

MineBegin(s, r) ==
    /\ Closed(r)
    /\ Mine(s, r, "patches")
    /\ UNCHANGED <<versions, patches, round, resolutions>>

Proposal(r, text) == [of |-> r, text |-> text, status |-> "proposed", resolved |-> 0]

AfterMining(locals) ==
    IF locals.texts # {} THEN locals
    ELSE IF locals.kind = "standards" THEN [locals EXCEPT !.at = "reading"]
    ELSE Idle

(* One insert after the other; a standards request then goes on with what  *)
(* it stored.                                                              *)
MineInsert(s) ==
    /\ At(s, "mining")
    /\ \E text \in req[s].texts :
         /\ patches' = Append(patches, Proposal(req[s].of, text))
         /\ Goto(s, AfterMining([req[s] EXCEPT !.texts = @ \ {text}, !.rows = @ \cup {Len(patches) + 1}]))
    /\ UNCHANGED <<versions, round, resolutions>>

(* POST /rounds/:roundId/standards: it answers with the version an         *)
(* accepted patch names, if there is one, and otherwise writes every       *)
(* proposed patch into one version.                                        *)
WriteAll(s, r, rows) ==
    rows # {} /\ Begin(s, [Idle EXCEPT !.at = "reading", !.kind = "standards", !.of = r, !.rows = rows])

Produced(r) == \E p \in PatchesOf(r) : patches[p].status = "accepted" /\ patches[p].resolved # 0

(* Fault: every patch that is not accepted yet is written.                 *)
StandardsBeginAll(s, r) ==
    /\ Closed(r)
    /\ \/ Mine(s, r, "standards")
       \/ ~Produced(r) /\ WriteAll(s, r, {p \in PatchesOf(r) : patches[p].status # "accepted"})
    /\ UNCHANGED <<versions, patches, round, resolutions>>

StandardsBegin(s, r) ==
    /\ Closed(r)
    /\ \/ Mine(s, r, "standards")
       \/ ~Produced(r) /\ WriteAll(s, r, {p \in PatchesOf(r) : patches[p].status = "proposed"})
    /\ UNCHANGED <<versions, patches, round, resolutions>>

(* POST /rounds/:roundId/false-settle-patch.                               *)
FalseSettle(r) ==
    /\ Closed(r)
    /\ Len(patches) < MaxPatches
    /\ \E text \in OwnReasons : patches' = Append(patches, Proposal(r, text))
    /\ UNCHANGED <<versions, round, resolutions, req, begun>>

-----------------------------------------------------------------------------
(* POST /rounds/:roundId/ship: the version the round pinned, with the      *)
(* clauses of the round's resolutions that it does not have.               *)
ShipBegin(s, r) ==
    /\ Closed(r)
    /\ LET base == round[r].pins IN
       Begin(s, [Idle EXCEPT !.at = "shipping", !.kind = "ship", !.of = r, !.base = base,
                  !.criteria = versions[base].criteria, !.clauses = versions[base].clauses])
    /\ UNCHANGED <<versions, patches, round, resolutions>>

ShipRead(s) ==
    LET settled == resolutions[req[s].of] IN
    /\ At(s, "shipping")
    /\ IF settled = {} THEN End(s)
       ELSE \E additions \in SetToSeqs(settled \ Range(req[s].clauses)) :
              Goto(s, [req[s] EXCEPT !.at = "numbering", !.clauses = @ \o additions])
    /\ UNCHANGED <<versions, patches, round, resolutions>>

(* The resolve routes, as far as a ship reads them.                        *)
Resolve(r) ==
    /\ Closed(r)
    /\ \E c \in Clauses : resolutions' = [resolutions EXCEPT ![r] = @ \cup {c}]
    /\ UNCHANGED <<versions, patches, round, req, begun>>

Withdraw(r) ==
    /\ \E c \in resolutions[r] : resolutions' = [resolutions EXCEPT ![r] = @ \ {c}]
    /\ UNCHANGED <<versions, patches, round, req, begun>>

-----------------------------------------------------------------------------
(* POST .../rounds, .../panel-rounds and .../runs read the current version *)
(* (a run may name an older one) and pin it when they store the round.     *)
OpenBegin(s, r) ==
    /\ round[r].status = "none"
    /\ \A t \in Slots : ~(req[t].at = "opening" /\ req[t].of = r)
    /\ \E i \in DOMAIN versions : Begin(s, [Idle EXCEPT !.at = "opening", !.kind = "open", !.of = r, !.base = i])
    /\ UNCHANGED <<versions, patches, round, resolutions>>

Open(s) ==
    /\ At(s, "opening")
    /\ round' = [round EXCEPT ![req[s].of] = [status |-> "open", pins |-> req[s].base]]
    /\ End(s)
    /\ UNCHANGED <<versions, patches, resolutions>>

Close(r) ==
    /\ round[r].status = "open"
    /\ round' = [round EXCEPT ![r].status = "closed"]
    /\ UNCHANGED <<versions, patches, resolutions, req, begun>>

(* The function dies, or a statement throws: the request ends where it is. *)
Die(s) ==
    /\ req[s].at # "idle"
    /\ End(s)
    /\ UNCHANGED <<versions, patches, round, resolutions, begun>>

-----------------------------------------------------------------------------
Creating(s) == NumberVersion(s) \/ InsertVersion(s) \/ InsertClause(s) \/ Settle(s)
Editing(s) == EditBegin(s) \/ EditTest(s) \/ EditReread(s) \/ EditUpdate(s)
Deciding(s) ==
    \/ \E p \in DOMAIN patches : AcceptBegin(s, p) \/ RejectBegin(s, p)
    \/ AcceptBase(s) \/ Reject(s)
Writing(s) ==
    \/ \E r \in Rounds : MineBegin(s, r) \/ StandardsBegin(s, r)
    \/ MineInsert(s) \/ StandardsBase(s)
Shipping(s) == (\E r \in Rounds : ShipBegin(s, r)) \/ ShipRead(s)
Opening(s) == (\E r \in Rounds : OpenBegin(s, r)) \/ Open(s)
Owner == \E r \in Rounds : FalseSettle(r) \/ Resolve(r) \/ Withdraw(r) \/ Close(r)

Next ==
    \/ \E s \in Slots : Creating(s) \/ Editing(s) \/ Deciding(s) \/ Writing(s) \/ Shipping(s) \/ Opening(s) \/ Die(s)
    \/ Owner

Spec == Init /\ [][Next]_vars

-----------------------------------------------------------------------------
VersionRows == [number: Nat, parent: Nat, criteria: SUBSET Sentences, clauses: Seq(Clauses),
                by: Kinds, for: SUBSET Nat, from: Rounds \cup {NoRound}]
PatchRows == [of: Rounds, text: Sentences, status: {"proposed", "accepted", "rejected"}, resolved: Nat]
Locals == [at: Steps, kind: Kinds, of: Rounds \cup {NoRound}, body: Bodies \cup {Keep}, base: Nat, rows: SUBSET Nat,
           texts: SUBSET Sentences, criteria: SUBSET Sentences, clauses: Seq(Clauses), number: Nat, made: Nat]

(* Types: rows of the tables and locals of the handlers.                   *)
TypeOK ==
    /\ versions \in Seq(VersionRows)
    /\ patches \in Seq(PatchRows)
    /\ round \in [Rounds -> [status: {"none", "open", "closed"}, pins: Nat]]
    /\ resolutions \in [Rounds -> SUBSET Clauses]
    /\ req \in [Slots -> Locals]
    /\ begun \in Nat

(* Versions are numbered 1, 2, 3 in the order they were stored, without a  *)
(* gap and never twice, and each was made from an older one: whichever     *)
(* writers read the same last number, at most one of them gets to store    *)
(* it (createRubricVersion under UNIQUE (project_id, version)).            *)
VersionsInOrder == \A i \in DOMAIN versions : versions[i].number = i /\ versions[i].parent < i

(* An accepted patch names a version that exists and was written for it;   *)
(* no other patch names one.  A writer whose version was refused, or that  *)
(* died, must leave none behind (accept, reject and standards routes).     *)
AcceptedHasItsVersion ==
    \A p \in DOMAIN patches :
        IF patches[p].status = "accepted"
          THEN patches[p].resolved \in DOMAIN versions /\ p \in versions[patches[p].resolved].for
          ELSE patches[p].resolved = 0

(* A request that may still change the content of version i.               *)
Touches(s, i) ==
    \/ req[s].at \in {"rereading", "updating"} /\ req[s].base = i
    \/ req[s].at = "writing" /\ req[s].made = i
Settled(i) == Pinned(i) /\ \A s \in Slots : ~Touches(s, i)

(* Once a round pins a version and the requests that were past their test  *)
(* by then have ended, its content never changes again, whatever becomes   *)
(* of the round (PUT rubric, createRubricVersion).                         *)
SettledVersionsStand ==
    [][\A i \in DOMAIN versions : Settled(i) => versions'[i] = versions[i] /\ Settled(i)']_vars

Decided(p) == patches[p].status # "proposed" /\ \A s \in Slots : p \notin req[s].rows

(* Once a patch is decided and every request that saw it proposed is over, *)
(* the decision stands: a rejected sentence is never written, an accepted  *)
(* one keeps its version (accept, reject and standards routes).            *)
DecisionsStand == [][\A p \in DOMAIN patches : Decided(p) => patches'[p] = patches[p] /\ Decided(p)']_vars

=============================================================================
