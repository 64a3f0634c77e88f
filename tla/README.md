# The Grading Room: a TLA+ model

The repository is an Express API over Postgres (`src/server`), the pure code it
shares with its clients (`src/shared`), and three clients (web pages, a command
line, an MCP server). People, or a panel of language-model seats, grade the same
cases blind; where they disagree, a sentence is added to a versioned standard;
what they agree on is exported as an eval set.

Three facts about the code decide what is worth modelling.

* **No transactions.** Every handler is a sequence of awaited statements. Between
  any two of them every other request may run.
* **Several processes.** The deployment is serverless (`src/vercel.json`); module
  state such as promise chains and caches is per process, and a function may be
  cut off at any statement (`maxDuration`).
* **Checks are made once.** A handler reads a status, a weight, a list of seats
  or a version, and trusts it for the rest of the request, which for handlers that
  call models is minutes.

So a request is modelled as a record that walks from one awaited statement to the
next, and TLC interleaves the requests. Besides, one closed round is read by half a
dozen builders (map, report, coverage, comparison, bundle, training export), each
with its own filter over the same rows; they are modelled as pure operators, and
what they say of a round is compared in every state the round can get into.

## Inventory

State is in tables (`src/server/db.ts`) unless said otherwise.

| Component | State | Operations | Hard behaviour | What makes it correct |
|---|---|---|---|---|
| Human polls (`app.ts` 3259-3609) | rounds, round_items, grades, resolutions | create, vote, close, report, eval set, resolve, unresolve, delete a scenario | status read once; report reads rows, open polls and their items separately; round stored before its items; cascades into closed rounds | nobody votes after seeing results; a close rests on two people; held-back cases are never discussed; an open poll's cases are not told through another poll's report |
| Panel runs (`app.ts` 1475-1778, 2401) | graders (weight), grades, self_consistency | open, run a seat, stability pass, reweight | seats run in overlapping requests that decide among themselves who closes; retries, deaths, edits meanwhile; a client that calls seat by seat | a poll that closes itself is complete; a panel that was run does close; a build's gate reads the whole panel |
| Seats and endpoints (`app.ts` 1016-1318) | graders, endpoints, panel_edits | seat a panel, add, rewrite, move, delete; register, drop | a writer asked between the test and the inserts; a family written back that was read earlier | one bench, of one proposal; nobody left on a dropped endpoint; removals on record |
| Scenario jobs (`app.ts` 762-903, `store.ts` 952-1042) | scenario_jobs, one JSON column of parts; a promise chain per process | create, run, read; the page streams, polls, retries | overlapping runs, lost updates of the column, cut-offs between storing cases and marking them | done means all cases are there; no mark is lost; the page tells the truth, in the end |
| Standards (`app.ts` 2073-2187, 2446, 3056-3233, 3612; `store.ts` 467-627, 1347-1400) | rubric_versions, rubric_clauses, patches | draft, edit, fork, mine, accept, reject, write all, ship | MAX + 1 version numbers; test of "pinned" then update; patches accepted one by one | versions are in order; a pinned version never changes; an accepted patch has its version; a decision stands |
| Model gateway (`gateway.ts`, `spend.ts`, `openrouter.ts`, `panelists.ts`) | model_call rows; a per-process set of models without json_schema | call with retries, step down, repair | attempts; the guard checked before a call and not before a retry | every call ends; overshoot bounded by the callers; few doomed requests |
| Pins (`pins.ts`) | per-process registry, overrides, cached check | load, boot check, cached health check, repin | lists fetched earlier; pins that move under calls | a seat's model is never substituted |
| Closed rounds: map, report, coverage, drift, comparison, bundle, exports, owner's check (`panelmap.ts`, `ensemble.ts`, `drift.ts`, `coverage.ts`, `training.ts`, `app.ts` 1785-3050) | grades, weights, user_verdicts, runs | stability pass, reweight, delete a seat, say, read | many readers of the same rows; weights and votes that change after the close | the readers agree with each other and with what was unanimous |
| Agreement statistics (`metrics.ts`) | none (pure) | alpha, AC1, its variance, pairwise, coverage | undefined cases, unequal numbers of votes | the coincidence matrix gives the textbook value |
| Judge (`judge.ts`, `app.ts` 3660-3750) | judge_runs, judge_verdicts | run, read | run stored before its verdicts | a partial arm is not scored as whole |
| Preference pairs (`app.ts` 1330-1470, `pairs.ts`) | pairs, pair_votes | create, delete, grade in both orders, owner's choice, export | delete then insert; overlapping gradings | an answer is not lost; a grading is of one version; page and export agree |
| Projects, access, keys (`app.ts` 284-563, 3860-3987, `seed.ts`) | projects, api_keys | create, demo, example, open, mint, hand on, revoke, visibility | some forty statements behind one link; revocation against requests in progress | what opens is whole; a key opens its project and no more |
| Creators, import | none | prompt, parse | text | - |
| Trajectory, bootstrap intervals | none (pure) | - | real numbers | - |
| MCP server, API docs, process entry | - | one call per tool | - | - |

Components meet through the tables. The panel uses the poll's tables and its
manual close; scenario jobs and imports fill the pool polls draw from; deleting a
scenario or a seat cascades into rounds of any status; polls pin a version of the
standards; everything that asks a model goes through the gateway and its guard, and
the gateway asks the pin registry for a model; runs are panel rounds with a row of
their own, and everything read of them is computed again from the grades and weights
at the moment of reading.

`PROJECT.json` lists the hazards found, each at its line with the properties that
watch it.

## Modules

| Module | Models | Composes |
|---|---|---|
| `BlindBallot` | what a poll promises: the abstract specification | - |
| `PollRound` | human polls, request by request | implements `BlindBallot` |
| `PanelRun` | panel-run and what happens beside it | - |
| `RunClient` | the command line and the page that drive it | `PanelRun` |
| `PanelSeats` | the bench, its endpoints, the page that waits for seats | - |
| `ScenarioJob` | the scenario write as a job | - |
| `ScenarioClient` | the page that waits for scenarios | `ScenarioJob` |
| `RubricVersions` | the standards and the rounds that pin them | - |
| `PinRegistry` | the pins of one process | - |
| `ModelGateway` | calls, retries, the spend guard, its callers | `PinRegistry` |
| `Readings` | how the votes of one case are read (operators) | - |
| `ClosedRounds` | runs after they closed, and all that reads them | `Readings` |
| `Metrics` | agreement statistics (operators) | - |
| `Judge` | a judge's run over an arm, and what is reported of it | `Metrics` |
| `PreferencePairs` | one pair, its gradings, its export | - |
| `Projects` | projects, demo, example, credentials | - |
| `PollRoundProofs` | theorems about polls, the judge that follows one and the statistics of both | `PollRound`, `Judge`, `SumLemmas` |
| `RunClientProofs` | theorems about panel runs and their clients | `RunClient` |
| `PanelSeatsProofs` | theorems about the bench | `PanelSeats` |
| `ModelCallsProofs` | theorems about calls of models and about the scenario job | `ModelGateway`, `ScenarioClient` |
| `RubricVersionsProofs` | theorems about the standards | `RubricVersions` |
| `ClosedRoundsProofs` | theorems about closed rounds and their readers | `ClosedRounds`, `SumLemmas` |
| `PairsAndProjectsProofs` | theorems about a pair, and about projects and keys | `PreferencePairs`, `Projects`, `SumLemmas` |
| `SumLemmas` | lemmas about sums and products over finite sets, counting, and orders | - |
| `MC...` | instances for TLC: values of constants, symmetry | the module named |

A definition whose comment starts with *Fault* is a wrong variant of the one after
it, such as a dropped guard. No specification uses it; it shows what a property
would catch if the code were changed that way.

### PollRound and BlindBallot

One project with its standards in place. `status`, `arm`, `grade` and `settled` are
the columns of the four tables, an item being its round and scenario (`UNIQUE
(round_id, trace_id)`); `voting`, `closing`, `drafting` and `reading` hold the
requests in progress.

* *Creating* is four statements or more: read the pool, read the source poll and
  plan, insert the round as open, insert item after item. `PlanSample` is every
  sample the seeded sampler may draw. A foreign key that fails, or a crash, leaves
  the round as far as it got; such rounds are states of the model.
* *Voting* is `CastBegin` (all guards, on the status read first) and `CastStore`
  (the upsert). *Closing* counts participants, then writes.
* *Reading* serves the report and the eval set: rows, then the list of open
  polls, then their items, then the answer. The per-poll item reads are one step
  after the listing.
* `Resolve` is one step, because neither the closed status nor an item's arm can
  change after its guards read them. `Unresolve` checks nothing, like the route.

`revealed` (rounds whose results were sent to anybody) and `voters` (everybody who
ever had a vote stored) are history. Any person who has been sent a report is taken
to have told everybody, so `BlindVotes` is about all voters.

In `BlindBallot` a ballot is *decided* while its round is open and nobody has been
shown the results; it may be counted later, even after the close, or be lost.
`PollRound` implements it with `voting` as the decided ballots. This is the strongest
form of the promise in the header of `server/app.ts` that the code keeps; the literal
form ("closing a round stops accepting grades") it does not keep, see below.

### PanelRun and RunClient

The poll has been opened over the founders and the cases. A call holds what it read
at the start (items, its seat's weight) and walks through grading, the repeat
sample, the weight, the listing of seats, the count of grades and the close. A
worker whose insert fails kills the call's answer but not its other workers
(`mapLimit` over `Promise.all`): stage `dead`. Which verdict a seat gives is
abstracted to graded or abstained; whether a repeat agrees, differs or fails is
open.

`RunClient` adds one client: `evallab run`, or the page, which list the seats, call
one after another, ask for the stability pass and read the report. Any refusal or
failure ends it with an error. Everybody else's calls remain those of `PanelRun`.

### PanelSeats

Seats are numbered as they are inserted, over all time. A seating reads that there
are none, asks a writer, and inserts one row per statement under `UNIQUE (project,
name)`; adding, rewriting and deleting read first and write later, with the edit's
record before a delete and after the others. An endpoint is dropped by a test and a
delete. `page` is the page that asked for a panel: when its connection drops it polls
until it sees `ENOUGH` seats. `proposals`, `touched`, `cut` and `raced` are history.

### ScenarioJob and ScenarioClient

The row of a job and the requests running it. A request works on the parts that had
not landed when it read the row. A mark reads the row and writes it back with one
part replaced; `chain` holds the marks between their read and their write, at most
one per process. Storing a part's cases is one step that may stop half way; a
request may throw before its parts, or be cut off anywhere.

`ScenarioClient` is the Room on arrival: it runs the job and reads the stream, polls
the row when the connection drops, and says that the cases landed or that parts did
not, with a button to try again.

### RubricVersions

One project's `rubric_versions` (each with its clauses) and `patches`, in the order
they were stored, and the requests in flight, any of which may be cut off
(`Die`). Six kinds of request begin, and four of them end in `createRubricVersion`:

* *Creating* is that function and what its caller does next: `NumberVersion` reads
  the last number, `InsertVersion` stores the row or is refused by `UNIQUE
  (project_id, version)`, `InsertClause` stores one clause, `Settle` marks one
  patch as accepted (`setPatchStatus`).
* *Editing* is PUT rubric: `EditBegin` reads the current version, `EditTest` asks
  whether it is pinned, and then either a fork goes on to *Creating* or
  `EditReread` and `EditUpdate` change the row in place.
* *Deciding* is PATCH patch, *Writing* the patches and standards routes with the
  miner, *Shipping* the ship route, *Opening* whatever stores a round: it reads a
  version first and pins it later.
* `FalseSettle`, `Resolve`, `Withdraw` and `Close` are one step each.

A sentence and a clause are model values; which sentences the splits of a round
ground is a choice of `Mine`, since it depends on the votes and the wording. `Touches`
says which requests may still change a version: those past the test for a pin, and
its own writer while clauses are missing.

### PinRegistry and ModelGateway

`PinRegistry` is `pins.ts` in one process: what a pin is loaded as (the registry or a
safe override), the boot check, the cached check behind creator calls, and what either
does with the router's list: seats' pins stand down, a writer's pin moves to the
newest model of its namespace.

`ModelGateway` has workers of a panel poll (`Graders`) and requests to a creator.
A job is taken up, checked against the round's ceiling and the day's (`CheckRound`,
`CheckDay`, two statements), sent, heard, recorded, and then done, retried, stepped
down to plain JSON, or asked for a second time by its caller (a seat for unreadable
JSON, a creator for a repair). A refusal of the schema is remembered per process
(`learned`); a restart forgets it. That an answer is heard, recorded and acted on is
one step, as nothing shared is read in between; the record itself may fail.

### Readings and ClosedRounds

`Readings` has, for the votes `V` of one case: the pattern (`readCase`), theater, the
ensemble's weighted verdict, the people's consensus, the unanimity the owner's check
and the comparison go by, the golden label, the score. Reasons are model values with a
relation `Clash`, which is all that `readCase` asks of them.

`ClosedRounds` has `MaxRuns` runs of one eval. A run opens, self-consistency may flag
a seat, it closes with any votes; then stability passes, people's words, alignment,
reweighting and deletions of seats interleave seat by seat (`todo`, `writes`). The
report, the gate, drift, coverage, the map's counts, the ten to check, the golden
set and the training rows are operators on the state. `settled` is history: what every
seat said when the round closed, if it was one thing.

### Metrics and Judge

`Metrics` is `metrics.ts` in exact fractions: what the code divides is multiplied by a
common multiple of all the numbers of votes a case can have. `Judge` stores a run, has
it grade a batch, saves verdict by verdict, and reads the agreement of the judge and
the people, who are raters alike.

### PreferencePairs

One pair, from its creation to its deletion. A grading asks `WIDTH` seats at a time
in both orders; each answer is stored by a delete and an insert; the pair is marked
with a version at the end. `PairView` is what the page shows and `Exported` what the
training export makes of it.

### Projects

A project is stored one statement after another (`Statements`: the number of rows of
each kind), and only then is its token told, or the example made public. A request
is looked up once and served later; keys are minted, handed on and revoked meanwhile.

## Runs

| Run | Instance | Distinct states | Shows |
|---|---|---|---|
| `polls` | 2 people, 2 scenarios, 2 polls of which the second may reuse the first one's cases | 1,771,896 | types, `BlindVotes`, `ClosedHasQuorum`, `HeldoutNeverResolved`, `EmbargoWithholdsVotes`, refinement of `BlindBallot` |
| `panel_run` | 3 seats (2 founders), 2 cases, 2 calls, the client's and others', 1 edit or death | 1,311,169 | types, `SelfCloseIsComplete`, `PanelClosesItself`, `GateReadsWholePanel`, `AloneItFinishes` |
| `bench` | 2 handlers at once, 6 in all, 3 seats, 1 endpoint, 1 kill, the waiting page | 5,835,716 | `BenchIsOneProposal`, `StrandedOnlyByARace`, `RemovalsAreOnRecord` |
| `scenario_page` | 2 parts, the page and other clients: 3 requests of one process or 2 of two, 2 at once | 1,178,572 | `DoneIsWhole`, `NoMarkIsLost`, `LandedIsWhole`, `PageTells` |
| `rubric_versions` | 2 rounds, 2 requests at once, 4 in all, 2 patches | 601,147 | `VersionsInOrder`, `AcceptedHasItsVersion`, `SettledVersionsStand`, `DecisionsStand` |
| `gateway` | 1 worker, 1 creator, 2 pins, 3 models, an endpoint of one's own, restarts | 297,235 | `OvershootIsBounded`, `FewDoomedRequests`, `SeatsAskTheirModel`, `CallsEnd` |
| `closed_rounds` | 3 seats, 1 case, 2 runs, 2 people, 5 pieces of work | 249,706 | `ReadersAgree`, `ReportsAddUp`, `SettledStays`, `SameReadingsSameWord`, `ExportsTellOneStory` |
| `judge` | 2 people and the judge, 2 cases, any votes or none, failures and kills | 27,692 | `WholeArmOrNothing`, `StatisticsAreTheTextbook` |
| `pairs` | 3 seats, 2 gradings, 2 versions, faults | 5,870,738 | `AnswersAreKept`, `WholeGradingIsOneVersion`, `ExportSaysWhatThePageSays` |
| `projects` | 2 people, 3 projects of which one is the example, 2 requests, keys | 5,080,334 | `OpenedIsWhole`, `GuestsKeepToTheirKeys` |
| `poll_embargo`, `scenario_told` | small | - | disagreements, below |

**Bounds and why they are enough.** Every bound is a constant of its module.

* Polls: two people are the least a close needs; two requests in flight put every
  pair of handlers side by side, and the hazards listed are races of two requests.
  Two rounds are one poll and another that reuses its cases. The theorems remove
  these bounds for the safety properties.
* Panel: two founders and a seat added meanwhile; the client's call and another's
  race for the close, or are two calls for one seat; an edit or a death comes between.
  `SelfCloseIsComplete` and `PanelClosesItself` alone were also checked with two
  edits or deaths.
* Bench: two seatings at once are the race listed, as are a rewrite and a drop; the
  writer offers fewer, as many or more seats than the registry has families.
* Jobs: two parts race for the row, two runs overlap in one process or two, and one may
  also start after another was cut. A third (`MaxRuns`), in one process, is a page that
  tries again beside other clients, or whose retry finds a run it lost still at work;
  two are under way at one time (`MaxAtOnce`), and `Servings` names which processes serve
  them. Three requests of two processes are past what a run can check: 25 million
  states.
* Standards: two requests at once are the races listed (two writers of one number, an
  edit and a pin, two calls for one round). Four in all leave room to open a
  round, mine it, decide its patches and overlap with one more writer, with two
  rounds whose patches meet in one version. The theorems remove these bounds too.
* Gateway: one caller of each kind; the bound of the overshoot is stated per caller,
  and every pair of steps of two callers occurs. Costs are 0 to `MaxCost`.
* Closed rounds: three seats are the least a panel may have and give every pattern
  (unanimous, by accident, one apart, a tie after a deletion). The readers work case
  by case, so one case shows all that they say of a case; sums over cases are sums of
  those. Two runs are a run and the one before it. The theorems about the readers
  hold for all sizes.
* Statistics: every table of what two people and the judge may have said of two cases
  (a verdict on a scale of three, an abstention, of a person also nothing). Closing a
  poll asks for two participants in all of it, so a person may have passed over any case
  of the arm. The identities are polynomials in the counts, and cases with none, two and
  three verdicts occur side by side. `TextbookStatistics` removes the bounds.
* Pairs: two gradings at once; three seats, of which one may be deleted.
* Projects: two creations may race for the example; keys go from one person to the
  other and are revoked while they are used.

Deadlock checking is off everywhere, because the systems stop: bounds are used up,
a poll is closed, a job is done. That what must happen does happen is said by the
liveness properties.

**Fairness.** Weak fairness of each request the server has taken: its next statement
is eventually run, as Node goes on with every request it holds, and models answer or
time out.

* `PanelRun` and `RunClient`: the statements of each call. Nothing is assumed of
  people: they need not call, and no call is retried. Because calls may die and panels
  be edited, `PanelClosesItself` speaks of panels all of whose seats have been called
  since the last edit or death.
* `ScenarioClient`: the statements of each run, and the page's own timer, which fires
  for as long as the page is open. `PageTells` escapes only where a page is about to ask
  and the bound has no request left; a page that has a request, or watches the job, has
  to come to an end whatever other clients do.
* `ModelGateway`: `Deadlines`, an attempt is heard or times out (`gateway.ts` gives every
  transport a timeout), the statements before and after it, and the pin check, which has
  its own deadline. Callers need not call.

Deaths and restarts are never forced or forbidden.

## What is proved

Every safety invariant and every action property of the passing runs is proved, for
every value of the constants the assumptions of its module allow. In this section an
assumption is named where it says more than that a bound is a natural number and a set
is finite.

None of the properties is inductive. In each module an invariant joins the property
with what a request on its way remembers and has still to do: a handler acts on what
it read statements ago, and the property can only be kept by a step if that memory is
accounted for. The proofs have one lemma per action (or group of actions that move
alike), one step per conjunct an action can disturb, and a last temporal step. TLC
checked the invariants on small instances before they were proved.

### Polls and the judge

`PollRoundProofs`:

| Theorem | States |
|---|---|
| `Invariance` | `Spec => []IInv` |
| `TypeCorrect` | `Spec => []TypeOK` |
| `Blindness` | `Spec => []BlindVotes` |
| `Quorum` | `Spec => []ClosedHasQuorum` |
| `HeldBack` | `Spec => []HeldoutNeverResolved` |
| `Embargo` | `Spec => []EmbargoWithholdsVotes` |
| `Refinement` | `Spec => KeepsBallotPromise` |
| `JudgeInvariance` | `JudgeSpec => []JudgeInv` |
| `WholeArm` | `JudgeSpec => []WholeArmOrNothing` |
| `TextbookStatistics` | `JudgeSpec => []StatisticsAreTheTextbook` |
| `AlphaTextbook`, `AC1Textbook`, `VarianceTextbook`, `NumbersTextbook` | its four parts, of any `Table` |

The assumptions are those of `PollConstants`: finitely many people, sizes and bounds
are natural numbers, `Abstain` and `NoGrade` are no verdicts. Those of the judge are
`JudgeConstants`, with the judge a rater but not one of the people, and `ScaleIsRanked`:
the sentinels `ABSTAIN` (`types.ts` 17) and `NoVote` (no row) are no verdicts, the floor
of cases is one at least, and the scale has two verdicts or more, which the route that
stores a standard asks for (`app.ts` 3155) and without which the code gives no
statistic (`metrics.ts` 67, 283, 329).

`IInv` joins:

* `TypeOK`;
* `BlindInv`: results were sent only of closed rounds, a reader holds only a closed
  round, and no vote in flight is informed. Needed because `BlindVotes` alone does
  not exclude an open round that has been read;
* `QuorumInv`: a stored vote's owner is among the voters, and a close past its
  count already had two. Needed because the count and the write are two steps, and
  votes may be deleted in between;
* `ArmsInv`: items exist only in rounds that exist, a creator's two arms are
  disjoint and its items not yet inserted, and resolutions stand on calibration items
  of closed rounds. Needed because a creator inserts into a round that may already
  be closed, and must not change the arm of an item there;
* `EmbargoInv`: what a reader holds so far covers whatever was open when it read
  its rows and still is. It follows the reader from the rows to the listing to the
  embargo.

The refinement maps every step to one step of `BlindBallot` or to a stutter, under
`IInv`.

`JudgeInv` says, stage by stage, what a judge's request that was left alone has saved:
nothing while it reads and grades, all but what it has still to save while it saves,
everything once it has answered. Its types carry the fact that matters: once a request
is saving, every result is an answer, because a batch with one failure is given up
before the first verdict is stored.

`TextbookStatistics` needs of `JudgeInv` only that what a run has saved of the cases still
there, beside what the people said of them, is a `Table`: of finitely many cases, each
rater said a verdict, `ABSTAIN` or nothing (`UnitsAreTable`). The rest is a theorem about
every table, along these lines:

* *Common denominators.* The numbers the code divides by divide `Common`, `PairCommon` and
  `ShareCommon` (`CommonShares`, `PairShares`, `CommonShareOfAll`, from `ProductDivides`), so that
  no fraction of the model is rounded.
* *Alpha.* With u first there are t (n - 1) pairs in a case where t of n said u
  (`PairsWithFirst`), and each weighs 1 / (n - 1): the mass of u is how often it was said
  (`MassesAre`). Regrouping the pairs by their two verdicts gives the disagreement observed
  (`ObservedIs`, `DiffersByVerdict`); regrouping all pairs of values the disagreement
  expected (`ExpectedByVerdict`), where pairs of a value with itself weigh nothing. The
  ordinal distance scales with the square of the masses (`DeltaScales`). Nothing is
  expected just where all values are one (`NothingExpected`).
* *AC1.* t (t - 1) summed over the verdicts counts the pairs that agree (`AlikeInUnit`). For
  shares m of B, the sum of m (B - m) is B B less the squares, and these are not all zero,
  so agreement by chance stays below one on a scale of two or more (`ChanceBelowOne`); and
  the coefficient is one just where no pair of any unit differs (`NothingObserved`).
* *Its variance.* The linear parts of the values of the cases add up to zero, as the mean
  of their chance agreements is the chance agreement of the mean (`ChanceOfCases`,
  `StarsAddUp`). Where all units have as many verdicts the mean share is the share in all
  that was said, up to a factor (`SharesOfSameSize`). Where they have not, the two
  differ, and nothing is claimed.
* *The numbers beside them.* What the couples compare, and what they agree on, may be
  counted by couple or by case (`RatesOfCouples`, `CountedBothWays`). A pair that agrees is
  counted in both orders (`AlikeIsTwice`), as is every pair of a case (`CouplesAreHalf`);
  where all cases have as many verdicts the factor is the same for all of them.

### Panel runs

`RunClientProofs`:

| Theorem | States |
|---|---|
| `DrivesThePoll` | `ClientSpec => Spec`: what is proved of panel-run holds beside any client |
| `Invariance` | `ClientSpec => [](GateInv /\ AloneInv)` |
| `TypeCorrect` | `ClientSpec => []ClientTypeOK` |
| `SelfClose`, `SelfCloseForAnyCallers` | `ClientSpec => []SelfCloseIsComplete`, `Spec => []SelfCloseIsComplete` |
| `Gate` | `ClientSpec => []GateReadsWholePanel` |
| `Undisturbed` | `ClientSpec => []AloneItFinishes` |

`PanelConstants` assumes that a poll is opened over at least one seat and one case,
which the route refuses otherwise (`app.ts` 1475-1505).

* `PanelInv`: a call was begun for a seat that sat then, with all the cases of that
  moment; a seat that still sits has answered every case its call has no more to do
  (`CallOK`); calls are told apart by their number; and a close by a call rests on whole
  seats. The delicate conjunct is that a call that found the panel complete
  (`stage = "complete"`) still has whole seats when it writes the close, statements
  later: grades are never withdrawn from a seat that sits, and cases only become fewer.
* `GateInv` adds the client: a client that waits has a call that is served, and every
  seat it called before is whole, or gone (`Serving`, `CalledAreWhole`). A dead call
  ends its client, so that no seat is passed over.
* `AloneInv` is about a client nobody disturbs: only seats it called have answered, and
  a call reaches the close only when no seat is left to call. That the client has calls
  enough needs a count, `Cardinality(Called) <= calls`.

### Seats

`PanelSeatsProofs`:

| Theorem | States |
|---|---|
| `Invariance` | `Spec => []BenchInv` |
| `TypeCorrect` | `Spec => []BenchTypeOK`; two seats never have one name |
| `Removals` | `Spec => []RemovalsAreOnRecord` |
| `Stranded` | `Spec => []StrandedOnlyByARace` |
| `OneProposal` | `Spec => []BenchIsOneProposal` |

`BenchConstants` assumes that the registry's families are distinct and none is also an
endpoint, that there is one at least, and that the offline bench has no more than `Count`
seats besides the literalist.

* `RecordOK`: a seat about to be deleted is already on record. Handlers may be killed
  between the two statements, and then a seat is on record that still sits, but never
  the reverse.
* `RaceOK`: every family a seat has, or a rewrite has read or is about to write, is
  registered or raced; while a rewrite is on its way, every drop past its test counts as
  raced; a drop that does not has no seat on its endpoint.
* `Untouched`: as long as nobody edits, the bench is the beginning of one proposal, and of all
  the requests seating at once exactly one has got past its first seat (`Winner`). They
  race for the name of the first seat, the literalist, which every proposal begins with
  (`BenchesOK`): the constraint on names then stops all but one.

### Gateway, pins and scenario jobs

`ModelCallsProofs`:

| Theorem | States |
|---|---|
| `GatewayInvariance`, `GatewayTypeCorrect` | `GatewaySpec => []GatewayInv`, `[]GatewayTypeOK` |
| `Overshoot` | `GatewaySpec => []OvershootIsBounded` |
| `FewDoomed` | `GatewaySpec => []FewDoomedRequests` |
| `SeatsAsk` | `GatewaySpec => []SeatsAskTheirModel` |
| `CallsWindDown` | `GatewaySpec => [][WindsDown]_gatewayAll`, and what is left of a job is bounded |
| `JobInvariance`, `JobTypeCorrect` | `Spec => []JobInv`, `[]TypeOK` |
| `Whole` | `Spec => []DoneIsWhole` |
| `Serialised` | `Spec => []NoMarkIsLost` |
| `RunsTheJob` | `ClientSpec => Spec` |
| `Landed` | `ClientSpec => []LandedIsWhole` |
| `JobBehindThePage` | `ClientSpec => [](DoneIsWhole /\ NoMarkIsLost)` |

`PinConstants` and `GatewayConstants` assume that the two kinds of pins, and pins and
endpoints, are different things, and that a call may make one attempt at least.

* `SpentOK` bounds what is spent *and* what those past the check may still cost: each
  caller past a ceiling's check holds one answer, of `MaxCost` at most. A caller between
  the checks of the round and of the day is past one and not the other.
* `Doomed` counts, for a model, the refusals so far together with the requests for a
  schema that are on their way: a caller is in one account or the other. For a model that is
  not learned the account is empty, or the model has left the router's list after its
  pin moved, and then only creators that were already bound for it can still ask. The
  second case is the reason one refusal per caller, and not one in all, is what holds.
* `WindsDown` is the part of `CallsEnd` that is safety. What is left of a job is a number:
  the attempts of its calls, five each, and the place in the attempt, from the guard to
  the wait for an answer. Every step of a call lowers it, the retry that asks the guard
  again and the second call of a job too, and no step of anybody else raises it while the
  job is under way. `CallsEnd` needs besides that a call can always move, which is
  fairness and a list of pins that is read, and stays with TLC.
* `SeatsOK`: a small pin stands down but never moves (only the writer's does), and a
  worker's call names a small pin or an endpoint.
* `LandedOK`: what any copy of the row calls done, has landed. Copies are what the marks hold
  between their read and their write, so this holds even when marks of two processes
  overwrite each other.
* `ChainOK` and `ServedOK`: at most one mark per process, and with one process every mark
  holds the row as it is, and every part is settled or somebody still sees to it.
* `StreamOK`: the same for the page that reads the stream of a request nobody ran
  beside, in whichever process that is.

### Standards

`RubricVersionsProofs` proves, for any rounds, sentences, clauses and edits and any
number of requests at once:

| Theorem | States |
|---|---|
| `Invariance` | `Spec => []IInv` |
| `TypeCorrect` | `Spec => []TypeOK` |
| `Ordering` | `Spec => []VersionsInOrder` |
| `Acceptance` | `Spec => []AcceptedHasItsVersion` |
| `Standing` | `Spec => SettledVersionsStand` |
| `Finality` | `Spec => DecisionsStand` |

The assumptions are those of `RubricConstants`: the sentences of splits and edits are
sentences, `Keep` is no body, finitely many clauses, bounds are natural numbers.

`IInv` joins the types of the tables (`Tables`), `VersionsInOrder` and
`AcceptedHasItsVersion` with

* `PinsExist`: what a round pins is a stored version;
* `OpensOnce`: a round is opened by one request, and had no pin before. Needed so
  that a pin is never replaced;
* `RequestsSane`: what each request remembers is true of the tables: its base
  exists, its number is at most one more than the last, its patches exist, and once
  it has stored its version, that version was written for them. Needed because
  `AcceptedHasItsVersion` is re-established patch by patch from the request's own
  memory. Nothing is said of the number being free: that is the table's constraint,
  and the reason `InsertVersion` may end in an error.

`LastIsLen` and `CurrentExists` are where the order pays: under it, MAX(version) is
the number of versions. For the two action properties one more fact is needed, about
every step: what a request's new locals inherit (`Follows`, `NextFollows`). Only the
test for a pin leads to an update in place, clauses are only added to a row of one's
own, and only proposed patches are taken up.

### Closed rounds

`ClosedRoundsProofs` proves, for any panel, scale, cases, runs, people and bounds:

| Theorem | States |
|---|---|
| `TypeCorrect` | `Spec => []TypeOK` |
| `ReadersAlwaysAgree` | `Spec => []ReadersAgree` |
| `SettledForGood` | `Spec => []SettledStays` |
| `ReportsAlwaysAddUp` | `Spec => []ReportsAddUp` |
| `SameReadingsPass` | `Spec => []SameReadingsSameWord` |
| `ExportsAgree` | `Spec => []ExportsTellOneStory` |

The assumptions are `ReadingConstants` (a finite scale, ranks that tell its verdicts
apart) and `RunConstants`. `TypeOK` is inductive, since the weights on their way are
among the types; positive weights are what `ReadersAgree` needs: a stable vote then
counts in the ensemble, so two of them give it a verdict, and where they say one thing
nothing else has any weight. `SettledStays` needs a strengthening, `SettledInv`: a case
that was unanimous at the close has only that verdict among its real votes, all of them
stable, and no question about it is among those the passes have still to ask. The last
part is needed because a pass writes what it decided from a read made long before, and
holds because only a case that was contested then is asked about, which a unanimous
case never becomes.

The last three theorems compare readers in one state and hold because of what the
operators of `Readings` are, under the types and, for the people's words, `SpokenOnce`:
nobody has two words on a case, so a person's word and the consensus can be counted.
What they need of the operators:

* the verdict of the ensemble, and the consensus, are *chosen* as the one that nothing
  beats. `VerdictIsGiven` shows that the choice exists and is a verdict somebody gave:
  weights compare, a tie goes by rank, ranks differ, and of finitely many things in an
  order one comes first (`FirstOfAll`);
* `DecidedIsGraded`: a case has a verdict just if its pattern is not "ungraded", which
  is what makes the counts of the map, the report and coverage those of one partition of
  the cases (`PatternFacts`, `CountsAddUp`);
* `BaselineInSeries`, `NothingNew`, `NoDrift`, `FlipsAreFlips`: drift and the gate look
  for the run before in different ways and find the same one;
* `TaughtFacts`, `TopScoresFull`, `TaughtIsGolden`: every row of the five files comes from
  the golden label of its case, with a score that follows from its rank.

### Pairs, projects and keys

`PairsAndProjectsProofs`:

| Theorem | States |
|---|---|
| `Invariance`, `TypeCorrect` | `Spec => []PairInv`, `[]PairsTypeOK` |
| `Kept` | `Spec => []AnswersAreKept` |
| `WholeGrading` | `Spec => []WholeGradingIsOneVersion` |
| `ExportAgrees` | `Spec => []ExportSaysWhatThePageSays` |
| `ProjectsInvariance` | `ProjectsSpec => []ProjectsInv` |
| `OpenedWhole` | `ProjectsSpec => []OpenedIsWhole` |
| `GuestsKeep` | `ProjectsSpec => []GuestsKeepToTheirKeys` |

`PairConstants` assumes positive weights and a choice `None` that is no side;
`ProjectConstants` that an address may create one project at least.

* `HeardOK`: an answer is on record unless some request has deleted it and not yet
  inserted its own. `LoneOK` follows a grading that was alone: for each seat left, the
  orders it is past are on record under its version. Any other grading or fault takes
  `alone` from both.
* `ExportAgrees` is about sums of weights, see below: the page's winner is backed by a seat
  that did not flip because its weight is positive.
* `CreationsOK` and `WholeIfOpen`: of the creations of one project only one has done
  anything (the slug of the example is unique), what is stored of it is what that one has
  done, and every credential, public page and request about to be served belongs to a
  project that is stored whole. `KeysOK`: a credential is had as it was given and a key
  that is asked with is one its owner has; what a revoked key was granted before is still
  served, which is why the request remembers what it was asked with.

### Sums

The models take sums and products from the community modules, which fold a set by a
recursive function. `SumLemmas` shows what the theorems need of them: the function exists
on the subsets of any finite set (`SumsExist`, `ProductsExist`) and the fold is that
function (`FoldIsSum`, `FoldIsProduct`). Instead of an induction, which would need a
predicate as a parameter, the proofs take a smallest counterexample among the subsets
(`Smallest`, from the well-foundedness of the strict subset order), or let the induction
run over the *set* of the subsets for which the claim holds (`OneByOne`). From there:

* a sum takes its elements in any order, of disjoint sets it adds, a factor comes out of
  it, and what weighs nothing may be left out (`SumTakesAny`, `SumOfUnion`, `SumAdd`,
  `SumScale`, `SumOfPart`);
* the sum of the rows of a table is that of its columns (`Interchange`), and a set may be
  summed, or counted, in groups by a key (`Regroup`, `CountByKey`, `SumByKey`);
* a sum of naturals is zero just where all of them are, and sums of weights that are no
  larger are equal just where the weights are (`SumIsZero`, `SumAtMost`);
* a set of n has n (n - 1) ordered pairs, two for each couple (`PairsOfDistinct`,
  `TwoPairsEach`); and each of the numbers of a product divides it (`ProductDivides`).

### Only model-checked

* Liveness, `CallsEnd`, `PageTells` and `PanelClosesItself`: the prover has no rule under
  fairness and none for ENABLED. Of `CallsEnd` the half that is safety is proved
  (`CallsWindDown`).

## Where the code and its words disagree

Two runs show a disagreement with a line of the repository:

* **Verdicts under embargo** (`poll_embargo`). `shared/types.ts` says verdicts of a
  case in an open round are withheld so nobody can look up how everyone graded it.
  The redacted row keeps the list of distinct verdicts.
* **A failure taken for success** (`scenario_told`). A run that fails before its first
  part marks the job as failed and no part of it; the page that polls the job after its
  connection dropped looks for failed parts, finds none and lets the person go.

Others were met while modelling. They are part of the model as the code has them, and
the properties are stated so that they hold beside them.

* Polls: a vote whose request passed the guard before the close is stored after it
  (`app.ts` 3416, against its line 6).
* Panel: a repeat that failed counts as a disagreement (`app.ts` 1652 says the sample is
  one smaller, 1657 divides by the whole); a seat that graded nothing is answered with
  502 even if its call closed the poll; the second client of a poll is refused with
  409 as soon as the first has closed it. The page that waits for seats takes any three
  for the panel (`web/src/api.ts` 433).
* Jobs: parts that landed since a run read the job are run again (`app.ts` 773, 810);
  the page's retry makes a second job; the answer of a job that is done lacks the
  newline its reader waits for, and reads as a dropped connection.
* Standards: an edit that tested before the round was stored changes a pinned version
  (README 388, `store.ts` 554); two calls write the same sentences into two versions
  (`app.ts` 2087). Accepting two patches at once can leave the first one's sentence out
  of the newer version; a ship builds on the version its round pinned and drops what was
  accepted since; accepting and writing drop the clauses that ships had added.
* Gateway: retries pass the ceiling unasked (`spend.ts` 2). A pin that stood down is
  not named by the health answer.
* Closed rounds: reweighting is for "future rounds only" (`app.ts` 2397) but reports are
  computed with the weights of the moment. New splits are counted against the last run
  of any status, found only if it is finished. The comparison counts an abstention as a
  split, and so do alignment's false settles, unlike the training export's; a label may
  be an abstention, depending on the order of rows (`app.ts` 2846, `training.ts` 281,
  against `types.ts` 18). The ten cases "every reviewer sees" (`app.ts` 2226) change with
  passes and deletions. The bundle's false-settle rate is the one recorded when alignment
  was last read, and its archive is named for the current standard while it carries
  the round's. A literalist who abstains makes a real split theater. The Standards page
  counts blind spots as splits (`app.ts` 3821).
* Statistics: alpha's floor of cases (README 326) is not applied by two callers
  (`app.ts` 1884, 2287), whose units also include abstentions; the map counts a single
  stable vote as agreement. AC1 takes the prevalence from the totals and its variance
  from the mean of the shares, which differ where cases have different numbers of
  votes. A judge built from a version with another scale gives verdicts that alpha
  skips.
* Judge: a case deleted while the judge works fails a foreign key and leaves a part of
  the arm, despite the branch for a missing trace.
* Pairs: a winner may rest on a vote whose swapped half was lost (`pairs.ts` 14, 43); a
  pair deleted while it is graded ends in an error after all its calls (`app.ts` 1444).
* Projects: the worked example, cut off while it is seeded, stays private for ever, as
  the next visitor finds its slug taken (`app.ts` 3857).

## Not modelled, and why

* Creators, import, prompts, rendering, archives and CSV: text without state. What
  their calls do to spending and retries is in `ModelGateway`. The one-shot scenario
  route stores what a part of a job stores; drafting a standard stores nothing.
* Bootstrap intervals, normal quantiles and the length correlation: real numbers and
  random draws. The trajectory: a page of statistics over several finished human polls.
* Encryption and address policy of endpoints; the database driver and its migrations.
* The MCP server (one call per tool), API docs, the layout of the web pages.
* In `PollRound`: projects and authorisation, which `Projects` has. In `PanelRun`: the
  telemetry, which nothing there reads. In `PanelSeats`: the names of human graders,
  which `UNIQUE(project_id, name)` spans too and whose clash ends like that with a seat.
  In `ScenarioJob`: statements that fail for the
  database's own reasons. In `RubricVersions`: names, scales, questions, conflicts and
  the quotes a sentence rests on. In `ClosedRounds`: cases deleted after the close, and
  the marking of seats as of the family under test, which nothing sets. In `Projects`:
  the captured email, which nobody reads.
* Modules do not share state across components where the code's tables do: a vote in
  `PollRound` is not the row `Judge` reads. Each module leaves the other writers of its
  tables in as actions of its own where they matter (deletions, edits, closes by hand).

## Plan

The model is complete as far as the code's own logic goes, and its safety properties
are proved. What is left: for a scenario job and a panel run, as for a model call already
(`CallsWindDown`), a measure that every statement lowers, so that of liveness only
fairness is left to TLC.
