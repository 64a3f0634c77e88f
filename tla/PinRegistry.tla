----------------------------- MODULE PinRegistry -----------------------------
(***************************************************************************)
(* The pins of one process: server/pins.ts, the boot of server/index.ts    *)
(* and the cached check of server/app.ts.  A pin names the one model a     *)
(* seat is graded by.  The list of models the router serves is read when   *)
(* the process boots and again before its first creator call; a pin the    *)
(* list lacks stands down, except that a writer's pin moves to the newest  *)
(* model of its namespace.                                                 *)
(***************************************************************************)
EXTENDS Naturals, FiniteSets, FiniteSetsExt

CONSTANTS
    Small, Frontier,    \* the registry's pins, by tier
    Models,             \* the model ids a pin can name
    NoModel,            \* no model
    Registry,           \* Registry[p]: the id pins.ts gives p
    Overrides,          \* Overrides[p]: the id the environment gives p, or NoModel
    Safe,               \* the ids that are namespaced and no alias
    Namespace,          \* Namespace[p]: the ids that share p's namespace
    Listings,           \* what the router's list can be
    Version,            \* Version[m]: how new m is
    Cost                \* Cost[p]: the pin's price hint

Pins == Small \cup Frontier

ASSUME PinConstants ==
    /\ Small \cap Frontier = {}
    /\ NoModel \notin Models
    /\ Registry \in [Pins -> Models]
    /\ Overrides \in [Pins -> Models \cup {NoModel}]
    /\ Safe \subseteq Models
    /\ Namespace \in [Pins -> SUBSET Models]
    /\ Listings \subseteq SUBSET Models
    /\ Version \in [Models -> Nat] /\ Cost \in [Pins -> Nat]

VARIABLES
    pin,        \* pin[p]: the model it names and whether it is live
    listing,    \* the models the router lists
    deployment, \* server: index.ts, which checks at boot; function: api/index.ts
    boot,       \* the boot check: none, fetching or done
    health,     \* the cached check: none, fetching, read or unread
    report      \* the pins the cached check stood down

pinVars == <<pin, listing, deployment, boot, health, report>>

-----------------------------------------------------------------------------
(* Reading the registry.                                                   *)

Live(p) == pin[p].status = "live"
LivePins(tier) == {p \in tier : Live(p)}

(* The environment's id, where it is one a pin may name.                   *)
Overridden(p) == IF Overrides[p] \in Safe THEN Overrides[p] ELSE Registry[p]
Loaded == [p \in Pins |-> [model |-> Overridden(p), status |-> "live"]]

(* The best of its kind, by a measure; which of equals is left open.       *)
Best(S, better(_, _)) == {p \in S : \A q \in S : ~better(q, p)}

CheapestPins == Best(LivePins(Small), LAMBDA p, q : Cost[p] < Cost[q])

(* The configured writer while it is live, else the dearest live frontier  *)
(* pin, else the dearest live pin, else the one that stands down.          *)
WriterPins(configured) ==
    LET dearer(p, q) == Cost[p] > Cost[q]
        fallback == IF LivePins(Frontier) # {} THEN Best(LivePins(Frontier), dearer)
                                               ELSE Best(LivePins(Small), dearer)
    IN IF Live(configured) \/ fallback = {} THEN {configured} ELSE fallback

(* The newest id of the namespace among those the router lists.            *)
Replacements(p) == Best(listing \cap Namespace[p] \cap Safe, LAMBDA m, n : Version[m] > Version[n])

Unlisted == {p \in Pins : Live(p) /\ pin[p].model \notin listing}
Moved == {p \in Unlisted \cap Frontier : Replacements(p) # {}}
StoodDown == Unlisted \ Moved

PinInit ==
    /\ pin = Loaded
    /\ listing \in Listings
    /\ deployment \in {"server", "function"}
    /\ boot = IF deployment = "server" THEN "fetching" ELSE "none"
    /\ health = "none"
    /\ report = {}

-----------------------------------------------------------------------------
(* Fault: every pin that is not listed moves, a seat's too.                *)
RepinAll ==
    pin' \in {next \in [Pins -> [model : Models, status : {"live", "deprecated"}]] :
        \A p \in Pins : IF p \in Unlisted /\ Replacements(p) # {}
                        THEN next[p].model \in Replacements(p) /\ next[p].status = "live"
                        ELSE next[p] = IF p \in Unlisted THEN [pin[p] EXCEPT !.status = "deprecated"] ELSE pin[p]}

(* What a check does with a list it could read, in one go.                 *)
ApplyList ==
    \E new \in [Moved -> Models] :
        /\ \A p \in Moved : new[p] \in Replacements(p)
        /\ pin' = [p \in Pins |->
             IF p \in Moved THEN [pin[p] EXCEPT !.model = new[p]]
             ELSE IF p \in StoodDown THEN [pin[p] EXCEPT !.status = "deprecated"]
             ELSE pin[p]]

(* The boot check ends; a list that cannot be read changes nothing.        *)
BootCheck ==
    /\ boot = "fetching" /\ boot' = "done"
    /\ ApplyList \/ pin' = pin
    /\ UNCHANGED <<listing, deployment, health, report>>

(* The first creator call, or the first probe of /api/health, starts the   *)
(* one check every later one waits for or reads.                           *)
AskHealth ==
    /\ health = "none" /\ health' = "fetching"
    /\ UNCHANGED <<pin, listing, deployment, boot, report>>

(* It looks at the pins that are live, and names those it stands down.     *)
HealthCheck ==
    /\ health = "fetching"
    /\ \/ ApplyList /\ report' = StoodDown /\ health' = "read"
       \/ UNCHANGED <<pin, report>> /\ health' = "unread"
    /\ UNCHANGED <<listing, deployment, boot>>

PinStep == BootCheck \/ HealthCheck

(* A new process loads the registry again.                                 *)
Reboot ==
    /\ pin' = Loaded
    /\ boot' = IF deployment = "server" THEN "fetching" ELSE "none"
    /\ health' = "none" /\ report' = {}
    /\ UNCHANGED <<listing, deployment>>

-----------------------------------------------------------------------------
PinTypeOK ==
    /\ pin \in [Pins -> [model : Models, status : {"live", "deprecated"}]]
    /\ listing \in Listings
    /\ deployment \in {"server", "function"}
    /\ boot \in {"none", "fetching", "done"}
    /\ health \in {"none", "fetching", "read", "unread"}
    /\ report \subseteq Pins

=============================================================================
