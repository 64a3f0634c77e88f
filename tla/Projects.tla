------------------------------ MODULE Projects ------------------------------
(***************************************************************************)
(* Projects come to be, and are opened.  POST /projects, POST              *)
(* /projects/demo (server/seed.ts) and GET /s/example (server/app.ts) each *)
(* store a project one statement after another; only at the end does       *)
(* anybody learn its token, or is the example made public.  From then on a *)
(* project opens to its token and to the live keys minted with it, and its *)
(* Standards page, while it is public, to everybody.                       *)
(*                                                                         *)
(* A credential is the token of a project (key 0) or a key minted for it.  *)
(* Whoever the owner gave the secret link to is the owner here.            *)
(***************************************************************************)
EXTENDS Naturals, FiniteSets, Sequences

CONSTANTS
    People,
    Ids, Example,       \* projects; Example is the one with a fixed slug
    CREATE_LIMIT,       \* projects one address may create in ten minutes
    Clauses, Cases, Documents, Graders, Sentences,  \* how many of each are seeded
    MaxKeys,            \* bound: keys minted
    MaxRequests,        \* bound: requests under way at once
    MaxCreations        \* bound: creations begun

ASSUME ProjectConstants ==
    /\ Example \in Ids /\ IsFiniteSet(Ids) /\ IsFiniteSet(People)
    /\ CREATE_LIMIT \in Nat \ {0}
    /\ {Clauses, Cases, Documents, Graders, Sentences} \subseteq Nat
    /\ {MaxKeys, MaxRequests, MaxCreations} \subseteq Nat

VARIABLES
    kind,       \* kind[p]: what project p was created as
    stored,     \* stored[p]: how many statements of its creation are done
    public,     \* the projects whose page is public
    creations,  \* creations under way
    begun,
    recent,     \* projects created from people's one address of late
    live,       \* the keys minted and not revoked
    minted,
    know,       \* know[a]: the credentials person a has
    given,      \* given[a]: those somebody with the right to gave to a
    requests

made == <<kind, stored, public, creations, begun, recent>>
access == <<live, minted, know, given, requests>>
projectsVars == <<made, access>>

Kinds == {"created", "demo", "example"}
Credentials == [of : Ids, key : 0..MaxKeys]
Token(p) == [of |-> p, key |-> 0]
IsToken(cred) == cred.key = 0

-----------------------------------------------------------------------------
(* The statements of a creation, in order.                                 *)

Times(n, what) == [i \in 1..n |-> what]
Standard == <<"version">> \o Times(Clauses, "clause")
Round == <<"round">> \o Times(Cases, "item")
Graded == Times(Graders * Cases, "grade") \o <<"close">>

Demo ==
    <<"project">> \o Standard \o Times(Cases, "case") \o Times(Documents, "document")
        \o Times(Graders, "grader") \o Round \o Graded

(* The sentences mined from the splits, and the version they make: they    *)
(* are its criteria, and it has no clauses.                                *)
Mined ==
    IF Sentences = 0 THEN <<>>
    ELSE Times(Sentences, "sentence") \o <<"version">> \o Times(Sentences, "accepted")

(* Fault: the example is made public once its round is closed.             *)
WorkedExampleEarly ==
    <<"project">> \o Standard \o Times(Cases, "case") \o Times(Graders, "grader")
        \o Round \o <<"pins">> \o Graded \o <<"public">> \o Mined

WorkedExample ==
    <<"project">> \o Standard \o Times(Cases, "case") \o Times(Graders, "grader")
        \o Round \o <<"pins">> \o Graded \o Mined \o <<"public">>

Statements(k) ==
    CASE k = "created" -> <<"project">> \o Standard
      [] k = "demo" -> Demo
      [] k = "example" -> WorkedExample

ProjectsInit ==
    /\ kind = [p \in Ids |-> "created"] /\ stored = [p \in Ids |-> 0]
    /\ public = {} /\ creations = {} /\ begun = 0
    /\ recent = 0
    /\ live = {} /\ minted = 0
    /\ know = [a \in People |-> {}] /\ given = [a \in People |-> {}]
    /\ requests = {}

BeginCreation(a, k, p) ==
    /\ begun < MaxCreations /\ begun' = begun + 1
    /\ creations' = creations \cup {[id |-> begun, by |-> a, kind |-> k, project |-> p, done |-> 0]}
    /\ UNCHANGED <<kind, stored, public, access>>

(* Slugs of new projects are new.                                          *)
Unused(p) == p # Example /\ stored[p] = 0 /\ \A m \in creations : m.project # p

CreateProject(a, p) ==
    /\ Unused(p) /\ recent < CREATE_LIMIT
    /\ recent' = recent + 1
    /\ BeginCreation(a, "created", p)

TimePasses ==
    /\ recent > 0 /\ recent' \in 0..(recent - 1)
    /\ UNCHANGED <<kind, stored, public, creations, begun, access>>

SeedDemo(a, p) == Unused(p) /\ BeginCreation(a, "demo", p) /\ UNCHANGED recent

(* Somebody follows the link to the example, which is not there yet.       *)
SeedExample(a) == stored[Example] = 0 /\ BeginCreation(a, "example", Example) /\ UNCHANGED recent

(* The first statement fails if the slug is taken.                         *)
WriteNext(m) ==
    /\ m \in creations /\ m.done < Len(Statements(m.kind))
    /\ IF m.done = 0 /\ stored[m.project] > 0
       THEN creations' = creations \ {m} /\ UNCHANGED <<kind, stored, public>>
       ELSE LET n == m.done + 1
            IN /\ creations' = (creations \ {m}) \cup {[m EXCEPT !.done = n]}
               /\ kind' = [kind EXCEPT ![m.project] = m.kind]
               /\ stored' = [stored EXCEPT ![m.project] = n]
               /\ public' = IF Statements(m.kind)[n] = "public" THEN public \cup {m.project} ELSE public
    /\ UNCHANGED <<begun, recent, access>>

(* The answer tells the token to whoever asked; the example's is told to   *)
(* nobody.                                                                 *)
AnswerCreation(m) ==
    /\ m \in creations /\ m.done = Len(Statements(m.kind))
    /\ creations' = creations \ {m}
    /\ IF m.kind = "example" THEN UNCHANGED <<know, given>>
       ELSE /\ know' = [know EXCEPT ![m.by] = @ \cup {Token(m.project)}]
            /\ given' = [given EXCEPT ![m.by] = @ \cup {Token(m.project)}]
    /\ UNCHANGED <<kind, stored, public, begun, recent, live, minted, requests>>

Die(m) ==
    /\ m \in creations /\ creations' = creations \ {m}
    /\ UNCHANGED <<kind, stored, public, begun, recent, access>>

-----------------------------------------------------------------------------
(* Requests: the project's row is read, then the credential is looked up,  *)
(* then the statement runs.  A page may be asked for with no credential.   *)

OwnerOps == {"mint", "revoke"}
Ops == OwnerOps \cup {"read", "visibility", "page"}
NoCredential == [of |-> Example, key |-> MaxKeys + 1]

Opens(cred, p) == cred = Token(p) \/ (cred \in live /\ cred.of = p)

Ask(a, op, p, cred) ==
    /\ stored[p] > 0
    /\ cred \in know[a] \/ (op = "page" /\ cred = NoCredential)
    /\ Cardinality(requests) < MaxRequests
    /\ requests' = requests \cup
         {[by |-> a, op |-> op, on |-> p, cred |-> cred, shown |-> op = "page" /\ p \in public,
           good |-> cred = Token(p) \/ (cred \in live /\ cred.of = p), granted |-> FALSE]}
    /\ UNCHANGED <<made, live, minted, know, given>>

MayDo(q) ==
    /\ Opens(q.cred, q.on) \/ q.shown
    /\ q.op \in OwnerOps => q.cred = Token(q.on)

LookUp(q) ==
    /\ q \in requests /\ ~q.granted
    /\ requests' = (requests \ {q}) \cup IF MayDo(q) THEN {[q EXCEPT !.granted = TRUE]} ELSE {}
    /\ UNCHANGED <<made, live, minted, know, given>>

Granted(q, op) == q \in requests /\ q.granted /\ q.op = op /\ requests' = requests \ {q}

(* The key crosses the wire once.                                          *)
CreateApiKey(p) == live' = live \cup {[of |-> p, key |-> minted + 1]} /\ minted' = minted + 1
RevokeApiKey(p, cred) == cred.of = p /\ live' = live \ {cred}

Mint(q) ==
    /\ Granted(q, "mint") /\ minted < MaxKeys
    /\ CreateApiKey(q.on)
    /\ know' = [know EXCEPT ![q.by] = @ \cup (live' \ live)]
    /\ given' = [given EXCEPT ![q.by] = @ \cup (live' \ live)]
    /\ UNCHANGED made

Revoke(q) ==
    /\ Granted(q, "revoke")
    /\ \E cred \in live : RevokeApiKey(q.on, cred)
    /\ UNCHANGED <<made, minted, know, given>>

(* Fault: a project is read with its token.                                *)
ReadWhole(q) ==
    /\ Granted(q, "read")
    /\ know' = [know EXCEPT ![q.by] = @ \cup {Token(q.on)}]
    /\ UNCHANGED <<made, live, minted, given>>

(* A project is read without its token.                                    *)
Read(q) == Granted(q, "read") /\ UNCHANGED <<made, live, minted, know, given>>

(* Its page says no credential but the one it was asked for with.          *)
ReadPage(q) == Granted(q, "page") /\ UNCHANGED <<made, live, minted, know, given>>

SetVisibility(q) ==
    /\ Granted(q, "visibility")
    /\ public' \in {public \cup {q.on}, public \ {q.on}}
    /\ UNCHANGED <<kind, stored, creations, begun, recent, live, minted, know, given>>

(* An owner hands somebody a key.                                          *)
Hand(a, b, cred) ==
    /\ a # b /\ Token(cred.of) \in know[a]
    /\ cred \in know[a] /\ ~IsToken(cred) /\ cred \notin know[b]
    /\ know' = [know EXCEPT ![b] = @ \cup {cred}]
    /\ given' = [given EXCEPT ![b] = @ \cup {cred}]
    /\ UNCHANGED <<made, live, minted, requests>>

ProjectsNext ==
    \/ \E a \in People, p \in Ids : CreateProject(a, p) \/ SeedDemo(a, p)
    \/ \E a \in People : SeedExample(a)
    \/ TimePasses
    \/ \E m \in creations : WriteNext(m) \/ AnswerCreation(m) \/ Die(m)
    \/ \E a \in People, op \in Ops, p \in Ids, cred \in Credentials \cup {NoCredential} : Ask(a, op, p, cred)
    \/ \E q \in requests : LookUp(q) \/ Mint(q) \/ Revoke(q) \/ Read(q) \/ ReadPage(q) \/ SetVisibility(q)
    \/ \E a, b \in People, cred \in Credentials : Hand(a, b, cred)

ProjectsSpec == ProjectsInit /\ [][ProjectsNext]_projectsVars

-----------------------------------------------------------------------------
(* server/app.ts:3943: public is set last, and a token is told last.       *)
(* Whatever project anybody can open or see, the ones they did not make    *)
(* included, is whole: it has its standard, a demo its closed round, and   *)
(* the example its second version, though any creation may be cut off and  *)
(* two visitors may seed the example at once.                              *)
OpenedIsWhole ==
    \A p \in Ids :
        p \in public \/ (\E a \in People : Token(p) \in know[a]) =>
            stored[p] = Len(Statements(kind[p]))

(* server/app.ts:481: a revocable key must never learn a credential that   *)
(* would survive its own revocation.  People have only the credentials     *)
(* they made or were handed; and what is about to be done for somebody is  *)
(* done on a credential that opened that very project when the request     *)
(* came in, or to see a page that was public then; keys are managed only   *)
(* by somebody who has the token.                                          *)
GuestsKeepToTheirKeys ==
    /\ \A a \in People : know[a] \subseteq given[a]
    /\ \A q \in requests : q.granted =>
        /\ q.good \/ q.shown
        /\ q.op \in OwnerOps => Token(q.on) \in given[q.by]
=============================================================================
