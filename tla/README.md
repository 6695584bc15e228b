# OddsFox in TLA+

OddsFox captures prediction-market contracts, compiles each into a reviewed
logical statement, proves which statements imply which, and publishes the
implications as *accepted assertions*. Its promise is about time: everything
accepted must rest on the current contract text, the current interpretation, the
current reviews, while threads capture, interpret, review, publish and crash.
This directory models that promise and checks it. Paths below are relative to
the repository; `store.py` means `src/oddsfox/store.py`.

## Inventory

| Component | State | Operations | What is hard | What makes it correct |
| --- | --- | --- | --- | --- |
| Node table (`store.py`) | `nodes` (immutable, content-addressed), `dependencies`, the column `current` | `insert`, `invalidate`, `current`, `require_current` | the recursive closure of a change; reverting content; the order of check and invalidation | current rows rest on current rows; one current version per name; history is final |
| Job table (`store.py`, `app.py`) | `jobs`, `attempts`; an in-memory queue | `enqueue`, `claim_job`, `complete_job`, `fail_job`, recovery, `retry` | two claimants, crashes, lost queue, obsolete inputs | bounded attempts, all accounted; finished is final; what is accepted is tried |
| Pipeline (`pipeline.py`) | nodes of kind configuration, registry, interpretation, review, assertion, quarantine | `configure`, `register`, `interpret`, `review`, `compare`, `publish` | work read before a transaction and committed in it | accepted assertions are justified, sound, correctly labelled, withdrawn precisely |
| Consensus gate (`consensus.py`) | consensus approvals | `approve_interpretation`, `accepted`, `acceptance_basis` | a veto racing a panel; opt-in publication | no consensus against a rejection; no human basis without human approval |
| Judge (`judge.py`) | panels, ballots, label sets | `run_ballot`, `collect_unanimous`, `freeze_label_set` | model timeouts, retries, calls lost between two transactions | one verdict for a question, from every member's vote; a label rests on current ballots |
| Reasoning (`reasoning.py`) | none (pure) | `verify`, `candidate_pairs`, `settlement`, feasibility | boundaries, sparse edges | agrees with the truth over the reals; kept edges entail the omitted |
| Comparison cache (`pipeline.py`) | `comparison_groups`, `comparison_rows` | `refresh_comparisons` in batches | a signature that changes in mid-batch; exact batch ends | complete means every pair was compared under the signature |
| Scheduler (`sync.py`) | `sync_state`, `lane_state`, futures | `request`, `pause`, `run_venue`, `tick`, `launch_lane` | pause, manual refresh, restart, checkpoints | a requested refresh happens; nothing is retired by a partial run |
| Discovery, catalogue (`discovery.py`, `catalog.py`) | `events`, snapshots | `pages`, `save_event` | partial captures, replayed pages | membership is complete or unchanged |
| Analysis lane (`explanations.py`) | explanations, suggestions | `step`, `compile_step`, `match_step` | one unit per tick; inputs that become obsolete while the model answers; signatures that recur | suggestions rest on current explanations; every event gets what it can have |
| Compiler (`compiler.py`) | measurements | `prepare_compile`, `run_compile_job` | one model at a time; configuration changes | an obsolete answer is never stored |
| Artifacts, backup, restore (`store.py`) | files beside the database | `put_artifact`, `cleanup_artifacts`, `backup`, `restore` | a crash between file and row | named files exist |
| Migration (`migration.py`) | the whole dataset | `purge_us` | what a retired venue drags along | nothing active is removed |
| Evaluation, validation, IR, documents, CLI, web | (reports, parsing, I/O) | | | |

Threads share one `Store`; `Store.transaction` holds a re-entrant lock, so a
transaction is atomic against the others and rolls back when it raises.
`Store.__init__` takes a file lock, so there is one process at a time. FastAPI
runs each request in a thread of its pool, the executor runs captures and
compilations one after the other, the scheduler runs discovery, analysis and
proof lanes. Two operations interact only through the tables.

The hazards of this code, each at its line with the properties that guard it,
are listed in `PROJECT.json`.

## Modules

| Module | What it is |
| --- | --- |
| `Nodes` | rows of the node table and the queries of `store.py` on them |
| `NodeStore`, `NodeStoreProofs` | the table under arbitrary callers |
| `Publication`, `PublicationProofs` | from a capture to an accepted assertion, by several threads |
| `Jobs`, `JobsProofs` | job table, executor, analysis lane, crashes |
| `Sync`, `SyncProofs` | scheduler and discovery of one venue |
| `Verdict` | what a panel promises (abstract) |
| `Ballots`, `BallotsProofs` | how `judge.py` keeps the promise: implements `Verdict` |
| `Reasoning` | predicates, `verify`, candidate pairs, closure (pure operators) |
| `Analysis`, `AnalysisProofs` | the analysis lane: explanations, suggestions, compilations |
| `Comparisons`, `ComparisonsProofs` | the comparison cache and its lane; extends `Reasoning`, whose lemmas are in the same proofs |
| `Artifacts`, `ArtifactsProofs` | database and artifact files: capture, backup, restore, migration, clean-up |
| `MC...` | instances of these for TLC |

A module `XProofs` extends `X` and holds the theorems about its specification and
nothing that TLC runs.

`Nodes` has the two variables `stored` (all rows) and `current` (rows whose
column `current` is true). A node is its content, `[kind, logical, data, deps]`,
because its identity is a fingerprint of exactly that; `deps` holds the nodes
themselves. `Affected(x)` is the recursive query of `Store.invalidate`, defined as
a least closed set.

`NodeStore` has `Insert` and `InsertHistorical` (`insert` with `make_current` true
and false) and `Invalidate`, over the contents in `Candidates`. `RankAssumption`
says what all inserts of the code have in common: a row depends on kinds closer to
the captured sources than its own.

In `Publication` `task[w]` is what thread `w` has read and not yet committed.
`Interpret`, `Consensus` and `Publish` are split in `...Read` (what the code does
before its transaction) and `...Commit` (the transaction); `Capture`, `Configure`,
`Register` and `Review` are one transaction each. `Drop` is an operation that
raised, or a process that stopped, before the commit.

`Jobs` has the rows of `jobs` and `attempts`, the executor's queue, the job each
thread runs, and crashes. `ExecutorTake` and `LaneTake` are the two ways a job is
claimed, `Restart` is the recovery in `Store.__init__` followed by the startup of
`app.py`. The lane does not look at the job table: `step` walks the active events,
their chunks and the signature their matches would have now. `named` are the jobs
this walk comes to, and `Rename` changes them at will, as captures, delistings and
explanations do; a job that is not named keeps its row and is not taken.

`Sync` has one action per transaction, because the code's transactions are where
its threads meet: a request (`PostRequest`) and the second statement that makes
the venue due (`PostDue`); `TickRead` and `TickAct` of the scheduler thread; the
scanning thread from `Claim` over `FetchPage`, `SaveEvent`, `SavePage` to one of
three ends, each of more than one transaction: `Complete` and `Close`; `Park` and
`SaveParked` (pause or stop); `AttemptFails`, `SaveFailed`, `Backoff`. `Stop`, `Stopped`,
`Crash` and `Restart` are the process. The scanning thread holds a copy of
`sync_state.data` from its claim on (`run.data`) and writes the whole copy back, as
`run_venue` does: most of what can go wrong comes from that.

`Ballots` follows one command-line call through the members of the panel: `Claim`,
`Record` and `End` are the transactions of `run_ballot`, `Reuse` and `Missing` its
early returns, `Freeze` and `Approve` what `approve_interpretation` does with the
ballots. `Crash` may come between any two; `Ask` opens the dataset again (recovery
included) and repeats the call; `Turn` replaces the question, that is the
interpretation or the panel configuration. `Verdict` knows neither jobs nor
attempts nor calls.

`Analysis` has one action for the part of `AnalysisEngine.step` before the model is
asked, by kind of unit (`Explain`, `Match`, `Compile`, and `Assemble`, `CompileHopeless`
that need no model), and one for the transaction after the answer (`Explained`,
`Matched`, `Compiled`, `Fail`). `Turn(e)` is the order of the events. Between the two
the catalogue changes (`Recapture`, `SaveEvent`, `Delist`, `Relist`) and the process may
be killed (`Crash`). `MODEL_LOCK` covers a compilation from its claim to its end, so the
executor's (`ExecutorStart`, `ExecutorEnd`) may be under way while the lane explains or
matches, and only waits for the lane's own compilations, as those wait for it. A job
is named as in the code, by stage, inputs and
configuration; in a match job that is the signature and the predecessor.

`Comparisons` splits a batch of `refresh_comparisons` where it gives up the lock:
`Launch` (reading group, signature, cursor), `Begin`, `Start` (reading the reviews),
`NextPair`, `StoreClaim` (one row), `Checkpoint`, `Finish`. `Interpret` and `Review`
come between any two of them. `Fail` is a batch that raises or a lost process.
The claims are really computed, by the operators of `Reasoning`.

`Artifacts` splits each command where a killed process leaves a trace: each file
put or unlinked, each transaction, each publication by renaming. `Kill` may come
anywhere; the command then has to be given again. `Purged` is `purge_us` with its
fixpoint.

Definitions marked *faulty variant* are plausible bugs of the definition that
follows them (a dropped guard, a missing reset, a shallow closure). No
specification uses them; each is the form in which some property must fail, and
`PROJECT.json` pairs them under `mutants`.

The modules share no variables, because the code they stand for meets only in
tables that one of them abstracts: `Jobs` leaves the job kinds of `Sync` and `Ballots`
to those, `Publication` takes a panel's approval as one commit, whose inside is
`Ballots`, and its `Proven` is one case of `Reasoning`.

### What is abstracted

*Publication.* `Store.capture` also appends to `snapshots`, `refreshes` and
`semantic_heads`, which no operation here reads; they are left out. A contract is a
name, a revision and whether its governing material is complete. An
interpretation is the threshold read (`value >= reading`), the registration its
observation resolved to, its mode, its revision and its dependencies; it is
eligible when there is such a registration. All registry names stand for one
observation, so registering a second name makes later resolutions ambiguous,
unless the document names one itself or a reviewed alias does: `Resolutions` has each
of these outcomes, also where the code would allow only some of them. The rules that the
derivations of a manual candidate name are any registrations, current or not. `Proven` is implication between two such thresholds
in one direction; feasibility is a free choice between `PublishCommit` and
`Quarantine`, which over-approximates it. `reviewed_at` and review times are
counters: two calls never have the same time. One `compare()` is one read: the
code reads the records under the lock and the labels afterwards, one by one, while
the longer window, between that read and the commit, is in the model. `allow` is chosen per publication, which includes all that a process
with one fixed setting can do.

*Jobs.* Prompts, answers and diagnostics are left out; an attempt ends well or
badly.

*Sync.* The venues share no row, so there is one. An event row is absent, active or
retired; volumes, terms, markets and the content of event semantics are left out.
Whether an event trades is what the page said when it was fetched (Polymarket), or
what the venue says at its turn (Kalshi): `SavedEvent` allows both.
An event whose markets are incomplete (`IncompleteEvent`) leaves what the code
leaves: the old row, or a new one that no scan has seen. `asked` is a history
variable: a refresh was answered "Queued" while no scan ran and its job has not
ended. `Overlap` decides whether a request may fall between the last job
transaction of a scan and the state saved after it. That window is one real
schedule and it breaks `ListedStaysActive` (run `late_request`); the run `sync`
leaves it out, in order to show that nothing *else* breaks the properties. A job
that a request enqueued without living to write its row is named by nothing and
is not represented.

*Ballots.* Only rows of the current question are kept, since `enqueue`, `insert` and
`current` refuse or ignore those of others. What a model returns is a payload or
one of four ways to abstain. That the producer and evaluator panels are disjoint
is a check on manifests and left out.

*Analysis.* What is read between the queries of one step and changes before its claim is
refused by `enqueue` and `insert`, so those queries are one action. An event has one
contract, every listed event of another venue is a candidate, and the text decides
whether an event calls for a compilation. The model configuration stays the same,
issues that an earlier version recorded as not terminal do not occur, and an
interpretation lasts as long as its contract. Jobs with obsolete inputs are dropped:
`enqueue` refuses to name them again. The executor's compilations run under the same
configuration as the lane's. A chunk is explained when its job is done,
because both are one transaction.

*Reasoning.* The code computes with exact fractions; thresholds here are even
integers, so that midpoints are integers as well and every cell of the line has an
integer in it. The cvc5 cross-check, `differences` and `constraints_feasible` are
left out.

*Comparisons.* `comparison_contexts` takes the node identities of interpretations
and reviews into the signature; neither is ever restored once superseded, so the
counters `rev` and `Len(reviews)` tell apart the same things. Payout mappings are
classes: two of one venue that agree or disagree, one of another venue, one that
is not Boolean.

*Artifacts.* Processes are killed, power is not lost: what the code does about
`fsync` is not represented. `Uses` of a row is the union of its dependencies and of the
nodes, jobs and events its JSON mentions. `purge_us` follows both from nodes and jobs;
an event's data names contracts (`discovery.py:409-465`), and those references are in
`Uses`, but it removes an event only for its own venue. `Semantics` is the column
`semantic_id` of an event, which `verify_integrity` checks: a purge that removes the
semantics of an event it keeps is rolled back (`PurgeRefused`). `Recorded` are the cached
rows under the signature that their group records; rows under earlier signatures,
which `refresh_comparisons` never deletes, go only when they mention a removed row.
Heads, snapshots and refreshes are deleted with the node they name and are left
out, as is the staging directory of a killed backup, which nothing opens. A file left by a capture
that was killed before its row is committed is never removed, which no document
promises.

## Runs

| Run | Question | Bounds | Result |
| --- | --- | --- | --- |
| `node_store` | Do the table's rules hold under any callers? | 9 contents | holds |
| `reviews` | Is acceptance justified at every moment, honest about its basis, withdrawn precisely? | 2 threads, 1 panel, 3 reviews, 2 contracts | holds |
| `sources` | Is what is current closed, and what is accepted true of the current readings? | 2 threads, 3 contract versions, 3 interpretations, 2 reviews | holds |
| `fresh_dataset` | Is a corrected or restored candidate admitted, from an empty dataset with replays, two registry names, incomplete captures? | 1 thread, 1 contract name, 2 nodes of each kind, no reviews | holds |
| `publication_race` | Can what is compared and accepted now be published now? | 2 threads, 2 reviews | **violated** |
| `jobs` | Are attempts bounded, accounted and exclusive through crashes; is what was submitted attempted; does what the lane names end? | 3 jobs, queue of 2, 1 crash | holds, under fairness |
| `sync` | Can a waiting scan be resumed, is what it skips seen, is nothing listed retired; is a refresh carried through, and what is gone retired? | 2 pages of one event, 3 faults, 1 change of the listing | holds, under fairness |
| `late_request` | The same, with a request while a failed scan saves its state | 2 pages of one event, 3 faults | **violated** |
| `ballots` | Is the panel's verdict what `Verdict` promises; does a label rest on current ballots; does a repeated call reach one? | 3 members, 2 questions, 2 payloads, 3 crashes | holds, under fairness |
| `analysis` | Do current suggestions rest on current explanations; does every event get explained, matched and compiled as far as its attempts go? | 2 events, 2 revisions of one, 3 chunks, one of them shared, 1 capture or retirement, 3 faults | holds, under fairness |
| `comparisons` | Is what the cache shows true and current; does a complete group lack nothing; does the cache complete? | 2 groups, 3 contracts, 5 bodies, batches of 2 pairs, 2 changes, 1 fault | holds, under fairness |
| `artifacts` | Is evidence always there, nothing lost unsaved, the purge exact; does the clean-up end? | every closed part of a dataset of 15 rows, 2 destinations, 2 kills | holds, under fairness |

*Why the bounds are enough.* `Limit` in `Publication` caps the nodes of each kind
and is a guard (`Room`) of the action that creates them; nothing else is cut. One
implication needs two contracts, two interpretations and two approvals; each run
lets one of its kinds grow beyond that: a third review (approve, reject, approve),
a third contract version with a third interpretation (a change and its
reinterpretation), a second of everything from empty. The runs that start from
`Seed` start where seven ordinary calls lead from an empty dataset. `MaxQueue`
bounds pending submissions, `MaxCrashes` crashes; three attempts are the program's
own limit. In `Jobs` the one crash may meet any job at any of its attempts, the third
one included, and lose the queue; failures use up the others. In `Sync` three faults are as many as the attempts of a job: they fail
it for good, or exhaust it by crashes, in every mixture with pauses, which are
unbounded. Two pages are a checkpoint in the middle and one at the end. In
`Ballots` three members and a panel's attempts can all be lost to three crashes.
In `Analysis` three faults fail a job for good, and one retirement with its return
makes a signature recur, with and without a predecessor; one capture overtakes a
match. The events have different venues, so each is the other's candidate.
In `Comparisons` three contracts in a group have three pairs: a full batch, and one
that is not; with the fourth body there are cross-polarity pairs, and a second
group to take turns with. In `Artifacts` two kills interrupt a migration and then
the clean-up resumed after it.

What the runs of `Publication` do not mix: contracts are captured again in `sources` and
`fresh_dataset`, not in `reviews`; registrations and configurations change in
`fresh_dataset`, which publishes nothing. That a registration between the resolving
and the storing of an interpretation, or a change of the configuration, leaves
nothing current on what is obsolete, and nothing accepted that does not hold, is
shown by the theorems `ClosureAlways`, `AcceptedAlwaysSound` and
`AcceptedAlwaysJustified`, which are about all operations together.

Only runs whose system may really stop (bounds exhausted, all jobs finished) switch
the deadlock check off; `node_store` and `sync` keep it on.

### What the two violations show

`publication_race`: `publish()` compares before its transaction. Two publications
overlap with one approval in between: the later comparison (with the label
`REVIEWED`) commits first, the earlier one (`SUPPORTED`) replaces it. From then on
each `publish()` derives the replaced content, which is historical, and raises
`StaleInput`, although every operand and review is current. It stays so until an
operand or a review changes.

`late_request`: a scan fails for the third time, with its checkpoint behind the first
page. `fail_job` ends its job (`sync.py:169`); `POST /api/sync` now finds no job that
is pending or running and creates one with empty data; then `set_sync_state`
(`sync.py:170-172`) writes the old copy, checkpoint included, over it. The new scan
starts behind the first page, meets no error, and its completion retires the
events of the page it never looked at.

### Limits of the code that the models show

* The labels of a claim are read with the comparison, acceptance and basis in the
  transaction (`pipeline.py:420`, `609`). An approval that commits in between gives an
  assertion with basis `HUMAN_REVIEW` whose operand is labelled `SUPPORTED`, which
  `tech_spec_v1.md:253` explains as pending. The opposite error, an operand called
  `REVIEWED` that no human has approved, does not happen (`LabelsNeverOverstate`).
* The first suggestions of an event are not made again when their signature returns
  after later ones were withdrawn: say without candidates, then with one, whose
  contract is then captured again. The job has the old name and is done
  (`explanations.py:355-358`), until the candidate's next revision is saved.
  `docs/validation.md:230` says such suppressed regeneration was fixed, and for the
  migration it is. `EventuallySettled` excuses this state (`Withdrawn`) and no other.
* An interpretation that a new registry version made obsolete is not compiled again
  by the lane: its job is done (`explanations.py:303-310`). This is outside the model.
* A manual refresh that joins a scan under way is not remembered: the scan's
  write-back (`sync.py:139-141`, `156-165`) overwrites the mark. `asked` therefore
  counts only refreshes that do not join one.
* A ballot job that lost its last attempt to a crash has no output. `run_ballot`
  returns the identity of the *job* as that of the missing ballot (`judge.py:374`),
  `Store.insert` refuses a label set that depends on it (`store.py:259`), and so does
  each repetition of the call, where `tech_spec_v1.md:448-451` has an abstention.
  `VerdictReached` excuses this state (`Exhausted`) and no other.
* A panel configuration once replaced cannot be chosen again (A, B, A): its content
  is historical and `insert` refuses it. `retired` in `Ballots` is this rule.
* The signature of a comparison group does not name consensus approvals. On a
  server that allows consensus, a group completed by the scheduler's lane may lack
  edges among interpretations accepted by a panel. The run has `Panel = {}`, the
  default of the program; with a panel `CompleteLacksNothing` fails.

### Fairness

Invariants and action properties do not depend on it. Where liveness is checked:

* `jobs`: the executor thread keeps taking from its queue (it is a
  `ThreadPoolExecutor`); an attempt ends (generation and HTTP have timeouts, and every
  exception reaches `fail_job`); the lane walks as long as there is something it can
  take (the scheduler ticks every two seconds); a crashed process is started again.
  All `WF`: no job of the lane is promised a turn of its own. `LaneJobsEnd` therefore
  speaks of jobs that the walk goes on naming, and holds because those before one use
  up their attempts; it promises nothing to a job whose event is delisted or whose
  signature has changed, and with jobs without end, which a catalogue that changes
  faster than the lane works would make, it would promise nothing to the last.
* `sync`: the scheduler ticks, time passes, a handler that did its first transaction
  does its second, the scanning thread goes on, a stop ends, the process is
  started again (all `WF`). Pausing, unpausing, requesting and the choice of
  `--no-sync` are free: the properties except what they excuse.
* `ballots`: a call goes on, since generation has a timeout; the operator repeats a
  call that has no label yet.
* `analysis`: the scheduler launches a step at each tick; what a step has claimed ends
  (time limit of the generation, `fail_job` for every exception), and so does what the
  executor has claimed. Changes of the catalogue, what the executor claims and crashes
  are free.
* `comparisons`: the scheduler launches the lane when it is idle, the batch goes on,
  the minute after a failure passes.
* `artifacts`: the operator opens the dataset again, and a command that runs goes
  on. Nobody need migrate, back up or restore.

### Refinement

`ImplementsVerdict` is `PanelVerdict!Spec`, where `PanelVerdict` is `Verdict` with
`votes` from the members' current ballots, `verdict` from the frozen label set,
`closed` from the questions replaced. Each transaction of a call is a `Vote`, the
`Decide`, or a stutter, and `Turn` is `Replace`. What it excludes: a second verdict
for a question, a verdict before all have voted, a vote after the verdict, a
question taken up again.

## Proofs

`tlapm` checks every proof to its last leaf; the theorems are listed in
`PROJECT.json`. Every invariant and every safety action property that a run
checks and finds to hold is also a theorem, for every value of the constants that
satisfies the module's named assumption. The theorems are about `Spec` (for
`Publication` from the empty dataset), without fairness; what the runs check under
`FairSpec` or from `Seed` is the same formula on an instance.

Each `XProofs` has an inductive invariant `Inv`, `InitInv`, `NextInv` and the theorem
`InvAlways`; the properties follow from it. What follows says what `Inv` adds to the
properties and why they alone are not inductive.

*Node table.* `Integrity` (grounded, closed, unique) is inductive. The hard step is
`Insert`: the code checks the dependencies of a newcomer *before* it invalidates
the version replaced, so a dependency could be inside the invalidated closure.
The argument is by rank: everything `Affected(o)` drags along has a higher rank
than `o` (`AffectedOutranks`, because the rows of higher rank are a closed set),
while the newcomer has the kind of `o` and depends on lower ranks only
(`DependenciesSurvive`). What remains current rests on what remains
(`DroppingClosedSets`). From `Integrity`, of which they are parts, follow `CurrentClosed`, `UniqueCurrent`, and
the action property `NoResurrection`. `LossHasOneCause` looks from the other end: the code
goes up from a row to its children, through obsolete rows too; the property goes
down from each row that is lost to what it was derived from (`RestsOn`), and
finds one row that was current, which no surviving row was derived from. That the
search may as well start at a row that is obsolete already, and that two searches of
one insertion are one, rests on `Integrity`. Assumed:
`RankAssumption` and nothing else; the contents may be infinitely many.

*Publication.* For any number of threads, contracts, reviews and panels.
`AcceptedJustified` is not inductive, because nothing in it says why an assertion
is withdrawn when an approval goes. `WellFormed` says it: the rows of each kind
have the shape the code gives them, and in particular an assertion is `Warranted`,
it names among its own dependencies an approval of each operand, and human ones
if its basis says so. `Table` keeps the current rows closed under dependencies and
one for a name, so an approval that is replaced takes the assertion with it. A
rejection has no row to be replaced when a panel approved; `Unvetoed` says that
`Review` withdraws those assertions itself. `Tasks` and `LabelsHold` are about what
threads hold between reading and committing: an operand once labelled `REVIEWED`
has a review for as long as it is current, since reviews are replaced and never
taken back; that gives `LabelsNeverOverstate`. `Numbered` (revisions and times are
those given out) gives `ManualCandidateAdmitted`. `Change` is what all transactions
have in common, some versions and their descendants against some new rows;
each action is shown to be one. `ClosureIsComplete` justifies the model's three
layers of children: they are the least closed set that `NodeStore` uses.

*Jobs.* `Inv` adds to the checked invariants what they leave unsaid: a process that
is down runs nothing (`DownIsIdle`), and the attempts counter fits the state
(`AttemptsFit`). `RunningIsHeld` is the key: the job a thread has is running and no
other thread has it, so a row can be appended for an attempt exactly once.
`ClaimInv` and `EndInv` serve both threads, `RestartInv` the recovery. `FinalStays`
follows from `Inv`. Assumed: `JobsAssumption` (the classes of jobs are disjoint).

*Sync.* `PendingIsResumable` holds in every behaviour (`AttemptsFit`). `CheckpointSound`
and `ListedStaysActive` are proved from `~Overlap`, that is without the window of the
finding `late_request`, in which they are false. The strengthening (`Resumes`)
speaks of three places at once: the row of a job that is not over, the copy the
scan is going to write over it, and the page in hand, of which what has not been
seen is still to do. `Overlap` is exactly what would let a row be new while the
copy is old.

*Ballots.* `BallotsWhole`, `OutputsRest`, `CallsFit` and `GotIsCurrent` tie jobs, ballots
and the call under way together: a ballot is current only as the output of a job
that is done, and what a call has collected is current unless the question was
replaced. `VerdictImplemented` is the refinement, with the mapping of the section
above: the initial states correspond, and each action is a step of `Verdict` or a
stutter (`VerdictStep`).

*Analysis.* With `TablesFit` and `JobsFit` (the attempts under way are the lane's and the
executor's, and never two compilations), `SuggestionsRest` is inductive. `Matched` stores an answer only while the
explanations its job names are current (`InputsCurrent`), and what makes one of them
obsolete withdraws the suggestions in the same transaction.

*Comparisons.* The invariant has to survive captures and reviews in the middle of a
batch, so all of it is conditional: what rows and batch say is true *as long as*
the interpretations in their signature last (`RowTrue`, `BatchTrue`). `Past`
signatures stay past, `Lasting` ones can only stop to be so, and `Exact` ones equal the
present (`ChangesShow`). `Done` has the same form for completeness: up to the cursor
of a row, or as far as a batch has advanced, the claims of every pair are stored,
if the signature is still exact; a checkpoint adds one pair (`OneMoreDone`, because
`PlacesDiffer`), and a batch that ends early has seen the last
(`Cardinality(Pairs(sig))`). That all pairs compared means nothing is missing
is about the operators of `Reasoning`: what holds for all values is proved by `verify`
(`HoldsProven`), any two contracts are a candidate pair in one order (`PairsCover`),
implication follows the order of a chain but for equals (`ChainOrder`), and a chain
whose neighbours are joined is connected by `closure` (`ChainsClose`,
`NeighboursEnough`), also in the part of it that is approved. Hence
`CompleteAlwaysLacksNothing`, and together with the soundness of the closure
`ClosureAlwaysExact`. Both assume `Panel = {}`, as the run does, and are false otherwise
(see the limits above). `VerifyDecides` is about `verify` alone, with bounds on the
domain: each value lies in the cell of one of its points (`CellHasPoint`; the
midpoint of two even numbers is an integer, `EvenHalf`). Assumed in
`ComparisonsAssumption`: `Values` has the points of every two bodies, so that "for every value"
means what it says.

*Artifacts.* For any number of rows, copies and kills; `ArtifactsAssumption` says what
rows the code writes (no row names a cached one).
`CommandFits` and `Saved` say what a command interrupted at each point has left: what
is being copied is a dataset, and from the staging of a migration's backup to the
purge the dataset in use is the one that was copied (`NothingLostUnsaved`).
`EvidencePresent` is inductive with them. `PurgeIsExact` is about the fixpoint of
`purge_us`: the passes grow (`PassGrows`, `PassMonotone`), so after as many as there are
rows nothing is added, and what is removed is the least set closed under `Consumers`
(`PurgedIsExact`). It says what the code removes, not more: an event that names a
removed contract stays, and so does a cached row of an earlier signature that
mentions no removed row.

The recursive functions of `Reasoning` and `Artifacts` are reasoned about by their
least counterexample (`LeastNumber`, `LargestSet`, from the well-foundedness of finite
sets), since an induction rule that takes a predicate cannot be instantiated here.

*Only model-checked.* The liveness properties `AcceptedIsAttempted`, `LaneJobsEnd`,
`ManualRefreshHappens`, `GoneIsRetired`, `VerdictReached`, `EventuallySettled`,
`EventuallyComplete`, `CleanupEnds`: liveness under fairness and `ENABLED` are out of the
prover's reach. The two violations are TLC's as well.

## Plan

1. An abstract specification of acceptance (accepted, withdrawn, never reinstated
   by itself) implemented by `Publication`: what each transaction may do to the set
   of accepted assertions, from `AcceptedJustified`, `WithdrawalIsPrecise` and
   `HistoryAlwaysFinal`.
2. Safety lemmas the liveness properties rest on, for any number of jobs and pages:
   an attempt, a page or a pair that is finished is never taken back while its
   signature or job lasts.
3. `differences` and `constraints_feasible` in `Reasoning`, should the publication model
   get more than one observation.

## Not modelled

Network, parsing and prompting (`ingest.py`, `documents.py`, `http.py`, `ir.py`,
`normalization.py`, `models.py`): functions of data the models abstract; what they
store goes through `Store.capture` and `Pipeline.interpret`. The command line and
the demo run the same operations one at a time in a process of their own. Metrics
(`evaluation.py`, but for `closure`) and the validation report (`validation.py`)
read a finished dataset. What `_initialize_schema` does for older versions (new tables,
the sort key of a volume) leaves the rows that `Artifacts` models as they are. The content of explanations and suggestions is model output. Views
and the web front end keep no dataset state.
