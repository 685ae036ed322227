# Surge engine: specification, model checking and proofs

The surge engine collects evidence about a set of locations in *iterations*:
it seeds queries, buys the answers from vendors under a budget, triages them with
a language model, tips follow-up queries, correlates, raises alerts and plans
the next iteration. Several processes (servers and command lines) share one SQLite
database; any of them may be killed at any point, and the rest of the design is
about what is left behind. This directory specifies that part in TLA+: who may run
an iteration, what an interrupted iteration may claim about itself, and what is
bought twice, lost, or reported as covered without being so.

Contents:

| file | what it is |
|---|---|
| `RunSlot.tla` | processes, epochs, the slot of a session, startup reconciliation |
| `Session.tla` | what a session promises, without slots and processes; `RunSlot` implements it |
| `Iteration.tla` | the eight stages of one iteration, cancellation, crash, recovery, debug walk |
| `Queue.tla` | the query queue, the budget and the money, from one iteration to the next |
| `Vendor.tla` | rate limiter, request loop, asynchronous jobs, ledger and monthly limit, for several threads |
| `Triage.tla` | the posts of an iteration, asked about in batches; city admission; re-triage |
| `Analysis.tla` | the scoring of the evidence, coverage gaps, correlations and alerts |
| `Replay.tla` | idempotency keys: the lookup, the start of a run and the record of the key |
| `RunSlotProofs.tla`, `IterationProofs.tla`, `QueueProofs.tla`, `VendorProofs.tla`, `TriageProofs.tla`, `AnalysisProofs.tla`, `ReplayProofs.tla` | theorems and their proofs |
| `Sums.tla` | lemmas about the library's sums over a finite set, for the proofs that need one |
| `MC<Module>.tla` | instances for TLC (`Queue` needs no definitions of its own) |
| `<Module>_<question>.cfg` | one configuration for each question; which are runs and which are kept counterexamples is said in section 3 |
| `PROJECT.json` | components, runs, mutants, the map from definitions to code, findings, hazards, theorems |

To check: `tlc -config RunSlot_peers.cfg MCRunSlot` and so on, with the module that
`PROJECT.json` names for the configuration; `tlapm RunSlotProofs.tla` and so on.

## 1. The system and its parts

Paths are relative to `src/`, modules to `src/surge_iw/`.

**Run slot and runner** (`api/runner.py`, `api/app.py`, `db/database.py`,
`db/schema.sql`). State: `process_epochs` (one row for each start of a process),
`sessions.running_iteration_id` and `running_epoch_id` (the slot), the owner of each
`iterations` row, and, in memory, one lock per session and the worker threads.
Operations: open an epoch and reconcile, submit, claim, run, release, step, shut
down. Hard: two processes pass every check before either claims; the loser has
written rows by then; a crash leaves the slot taken; whether an epoch is dead is
decided from a pid, which may have been reused or belong to another machine.
Correct when at most one iteration of a session runs, its worker keeps the slot
until it releases it, a dead holder's slot is freed, and nothing stays open unseen.

**Recovery service** (`services/recovery.py`). State: the interruption stamped on
the iteration, the status of queries and agent runs, notes. Operations:
reconcile at startup, plan, resume, finalise or abandon. Hard: it runs on whatever a
kill left, between any two commits, including its own; its resume point
may be one stamped by an earlier interruption.
Correct when no stage goes missing, no answer already stored is bought again,
and the interruption is visible in the outcome.

**Iteration orchestrator** (`agents/orchestrator.py`, `base/agent.py`). State: the
stage pointer, one `agent_runs` row for each stage, `skipped_stages`,
`degradations_json`, the outcome. Operations: run, step, resume, re-triage,
finalise. Hard: a cancellation noticed between stages, a stage that fails, a
driver statement that raises, and an outcome computed from notes of which some
are only in memory. Correct when COMPLETE means that nothing was lost, and every
stage is accounted for.

**Stages and rollback** (`services/stages.py`). State: none of its own; it deletes
what the last stage wrote, in separate commits. Hard: foreign keys from rows that
are never deleted, notes and rows that belong to another iteration.
Correct when steps and discards in any order leave pointer, records and notes in
agreement, and any stage can be reached.

**Tipping and queueing** (`agents/queueing.py`) and **collection**
(`agents/collection.py`). State: `query_queue`, `raw_results`, `signals`,
`api_calls`. Operations: enqueue (duplicate, cooldown, budget, caps), seed and
adopt, tip, escalate, revisit, carry forward; claim, check again, call, store,
derive, complete. Hard: a stage that runs again proposes what it proposed before; a
crash between the answer and its status; money known only after the call;
queries proposed between two passes.
Correct when nothing is bought twice unasked, the budget is kept, coverage is
honest, and nothing waits in an iteration that has ended.

**Budget guard** (`services/budget.py`), **rate limiter** (`services/ratelimit.py`),
**connectors** (`base/connector.py`, `connectors/*`). State: the ledger of calls, the
plan of an iteration, tokens, retries in progress, jobs being polled. Hard: each
attempt is billed, a timed-out one included; limits of several providers at
once; asynchronous jobs answered late. Correct when spending stays in the plan
and the rate limit is never exceeded.

**Triage** (`agents/triage.py`, `agents/triage_schema.py`). State: assessments for
each post, batches. Hard: a truncated batch is retried, an answer may omit or
repeat posts, a re-triage inherits from a parent. Correct when each post has one
assessment or is reported unassessed.

**Correlation and scoring** (`agents/correlation.py`, `base/scoring.py`),
**alerting** (`agents/alerting.py`). Functions of the signals stored, and one alert for
each correlation that deserves it. Hard: boundaries of the bands, alerts
after a resume.

**API, idempotency, security** (`api/*`). The requests, with the checks they make
before and after the slot, and the record of idempotency keys. Hard: the
key is recorded after the run was started.

**Storage** (`db/*`), **command line** (`run.py`), **retention, receipts, evidence rules,
geography, mission, configuration, redaction** (`services/*`, `config.py`,
`models.py`): see the list of components in `PROJECT.json`.

How they interact: a request reaches a process (API or command line), which checks
the session, inserts an iteration and claims the slot; a worker thread runs the
orchestrator, which calls the stages in order; seeding and tipping write the
queue, collection drains it through budget, rate limiter and connectors and
writes payloads and signals; the stages after it read those. Everything is
shared through the database, where each statement, or short transaction, is
atomic; the only other shared state is a process's memory lock and its set of
cancelled iterations. The recovery service runs in the startup of every process
and behind three requests; rollback runs behind one, when nothing runs.

The hazards, each at its line and with the properties that would catch it, are
listed under `hazards` in `PROJECT.json`.

## 2. How the models correspond to the code

Each module looks at one shared resource and leaves to the others what they hold.
They are related by what each one assumes: `Iteration` assumes one worker at a
time, which is what `RunSlot` shows of its processes; `Queue`, `Triage` and
`Analysis` assume the order of stages and the way a crash and a resume move
through them, which is what `Iteration` shows. `Vendor` is the inside of the
action `Call` of `Queue`, with the threads that share a connector; `Replay` is what a
request does before and after the submission that `RunSlot` takes over.

### RunSlot

One session, any number of processes.

| variable | in the code |
|---|---|
| `epoch`, `lastEpoch` | `process_epochs`: `ended_at`/`end_kind` as one field, the host |
| `proc` | a process: down, booting (between sweep and reconciliation), up, stopping; its epoch, and the set `alive` its startup computed |
| `iteration`, `lastIter` | `iterations`: absent, open, closed; `owner_epoch`; whether interrupted |
| `slot` | `sessions.running_iteration_id`, `running_epoch_id` |
| `task` | the memory lock of the process and the position of what holds it |
| `request` | a recovery request that has passed its check and not yet acted |

Actions: `BootSweep` and `BootReconcile` are the two halves of opening an epoch
(mark predecessors, then reconcile); `Begin`, `CheckOpen`, `ReadSeq`,
`Insert`, `Claim`, `ForgetLoser`/`CloseLoser`, `StartWork`, `FinishWork`, `Release` are
the statements of one submission, in order; `BeginStep`/`EndStep` the debug walk;
`AskRecovery`, `SubmitRecovery`, `CloseAbandoned` the recovery requests; `Discard` is what a
discarded stage does to the row of its iteration, which it opens again;
`Crash`, `ShutdownClean`, `ShutdownTimeout`, `Exit` the ends of a process. An action is
one database statement, or several that no other process can tell apart. A
command line is a process that receives `iterate`, which runs without claiming.

The pid of a dead process is modelled by the switch `PidReuse`: when it is set, a
dead epoch on the same host may look alive. Startups interleave with each other and with
whatever their peers do, as nothing in the code makes one wait.

### Iteration

One process and one iteration, in the detail `RunSlot` leaves out.

| variable | in the code |
|---|---|
| `row` | the iteration: `stage`, `interrupted_stage`, `skipped_stages`, outcome, error, `finished_at` |
| `runs` | the orchestrator's `agent_runs` row of each stage |
| `notes`, `remarks` | `degradations_json`: notes that name a stage, and others |
| `queue` | what the stages tell apart of the queue: outstanding, gaps, seeded, tipped |
| `task` | the worker: kind of run, stage, phase within it, in-memory notes, cancel flag |
| `boot` | the process: serving, dead, or at a step of its reconciliation |
| `torn` | history: the stages whose records were last written by half, where a driver or a discard was cut off |

A stage is four actions (`OpenRun`, `SetStage`, `EndStage`, `Advance`), since a
kill may fall between any of those commits; `SkipStage` and `Finish` are the
other ways on. `Raise` is any statement of a driver that raises, between these actions or inside one:
behind a worker stands `_fail`, which closes the row, behind a step or a discard nobody does.
A discard is four actions too (`Discard`, `PointBack`, `DropRun`, `Retract`), one for each commit that
this module can tell apart. What a stage had done when its driver raised or the process died is
`CutShort`. `Resume`, `AbandonAndFinalise`, `AbandonAndClose` are the exits from an
interruption, `Reconcile`, `MarkInterrupted`, `NoteInterrupted` the commits of the
startup. What happens inside a stage is a choice of `Effects`, which is bounded by
what the stage may change. A discard that the foreign keys refuse changes
nothing in this module; `Queue` models it.

### Queue

One session and one city over several iterations, and one budget for its vendors.

| variable | in the code |
|---|---|
| `rows`, `last` | `query_queue`, with what `raw_results`, `signals` and `api_calls` hold of each query |
| `run` | the latest iteration: the stages with a record (`ran`), the stage at work with its locals, where the pointer is while nothing runs, how it ended; `torn` says that some discard so far, in any iteration, was left half done |
| `clock` | the time, and how many upsets there were |
| `money` | units used this month and by this iteration, and its plan |
| `bought`, `returned` | history: requests sent per query, and how often an operator's action handed the query back |

`Propose` is the chokepoint `enqueue` with all its refusals; `Adopt` moves a
follow-on that has come due into the iteration; `Claim`, `RefuseBudget`, `Call`, `StoreRaw`,
`WriteSignals`, `CompleteQuery`, `FailQuery`, `SkipQuery` are the commits of one query;
`EndProposals` and `EndPass` move between the passes of a collection stage (flight
tips are proposed between two of them). `Crash`, `Reconcile`, `Resume`, `Abandon`,
`Discard`, `DiscardTorn`, `Cancel` are the interferences.

A query is its key: what it asks. Its source type decides who proposes it, at
which priority and in which pass it is collected. The key of a flight history
contains the time of the proposal, so it never repeats (`Recurs`).
What a call costs is chosen after the call, as the ledger learns it. A discard takes the
last stage that has a record, which after a discard and a crash need not be the
one before the pointer; hence `ran` is a set. Abstracted:
the depth cap, the count tripwire and the admission of cities; the limit of 500
queries of one drain; several providers; time passes between stages only; a
crash resumes at the stage it interrupted first.

### Session, and how RunSlot implements it

`Session` has one variable, the `status` of each iteration: absent, waiting, running,
over. An iteration is asked for, is run at most once and alone, and leaves.
`RunSlot` maps to it by `Status`: an iteration is *running* while the task of a live
process that owns its row is in its worker, *waiting* while that task
claims the slot, loses it, or is queued for its thread, and *over* once nobody serves it,
however that came about (end, refusal, crash). `ServesAsSession` is the
abstract specification under this mapping, as a temporal property.

### Vendor

Threads of one process, each with the iteration of one session, buy lodging data
through one connector.

| variable | in the code |
|---|---|
| `bucket` | a `TokenBucket`: tokens (counted in ticks of refill), time since the last refill, holder of the lock; a meter as history |
| `work` | a thread: query, call, attempt, what it sleeps for, the job it polls, what the vendor charged and no ledger row says yet |
| `cache` | the `LISTING_SET` entry |
| `money` | `api_budgets.monthly_limit` and the units of `api_calls` |
| `vendor` | external: credits left, charges of answers nobody reads |
| `served`, `booked` | history: calls the vendor carried out, units booked for each thread's query |

`Seed`, `SeedRetry` and `EndIteration` frame an iteration (`seed_budgets`,
`reconcile_staying`), `Refuse` and `Collect` start a query; `Acquire` and `Wake` are the
rate limiter, which sleeps with the lock held and goes from bucket to bucket; the
answer to a request is a choice of success, a status that is retried or not, a job, a lost
answer with or without a charge, each booked as the code books it; polling goes on to the job's deadline,
with polls that may be lost; `JobEnds` is the vendor's own step. The
`Tick` of time takes one from every timer; it may come late to a sleeper.

### Triage

| variable | in the code |
|---|---|
| `payloads`, `kept` | the social `raw_results` of the first iteration; those not yet purged |
| `iter`, `work` | the latest iteration, and the locals of the stage that runs in it |
| `skips`, `decisions`, `signals` | `triage_skips`, `triage_decisions`, `signals` |
| `admitted` | cities added to the iteration |
| `receipts` | the recorded calls, with what the model said to each (history) |
| `notes`, `hour`, `crashes` | degradations; time; upsets |

`gather` picks the posts (freshest copy of each, without those decided, stale or
unusable); `judge` is one call, whose reply is any assignment of answers to the items asked
about, valid, broken, repeated or left out, or a truncated, failed or malformed
whole; a truncated batch is asked again in halves. `admit_city` and `write_signal` are
the second half; each insert is a step, so a crash falls between any two.
`prepare_retry_triage` makes the child iteration of a re-triage,
`gather_for_retry` reads its posts, `purge_expired_raw` is retention.

### Analysis

`correlate` and the operators above it are `base/scoring.py` over integers: a quality or
a weight of 1.0 is `Unit`, a score of 1.0 is `Unit * Unit`, so every comparison with a
threshold is exact in the model's scale. Variables: `signals` and
`world` (what the earlier stages left: queries, refusals, unjudged posts, skipped stages, the samples of the baseline),
`rows`, `links` and `alerts` (tables), `receipts`, `stage`, `point`, `task`. `point` is the
pointer, the stages of the two that have a record, and `interrupted_stage`, which the first
interruption stamps and nothing clears: `resume_point` prefers it to the pointer. The actions
are the commits of the two stages and, around them,
`Crash` (while a stage works, or between stages), `Resume` (at the resume point or
earlier, with more evidence), `Abandon`, `discard_last`, `DiscardTorn` (the process dies in
the middle of a discard), and
`Age`, by which a sample leaves the baseline's window while nothing runs. A query of
`world` is not IN_PROGRESS when the evidence is scored: collection has settled it by then,
which is what `Queue` shows. An age is counted back from the iteration's anchor, and `made` from
the iteration itself: one that a discard opened again reads evidence of later ones, whose age is negative. `Airframe` is what
the code tells aircraft apart by; `frame`, the aircraft a row is of, is read by no action.

### Replay

`Receive`, `Lookup`, `Start` (or `Refuse`), `EndWait` and `Record` are the steps of one
request that carries a key, each one commit; `iterations`, `stored` and `answers` are
the iterations with the request that made each, the `idempotency_keys` rows, and
everything that was answered. `Close`, `Crash` and `Tick` go on beside.

## 3. What the runs show

| run | module | question | result |
|---|---|---|---|
| `slot_peers` | RunSlot | two processes of one host, triggers and re-triages, crashes, recycled pids, overlapping startups: does at most one run, does it keep the slot, is its row its worker's, does the loser leave nothing open, and is all of it an implementation of `Session`? | holds |
| `slot_restart` | RunSlot | startups that overlap: does each spare the runs of the live peers that were there before it; is the slot of a dead process freed; does every open iteration close or show as interrupted? (liveness; no pid is recycled here) | holds |
| `slot_solo` | RunSlot | one process that serves every kind of request, discards included, across restarts: is a new iteration opened only while no other is open? | holds |
| `recovery` | Iteration | up to two crashes anywhere, also in the reconciliation, with steps, resume at the resume point, finalise, close and drivers that raise at any statement: is every stage run or accounted for in its turn, is no stage shown as running that nobody runs, but where a driver raised? | holds |
| `walk` | Iteration | automatic runs, cancellations, steps and discards in any order, with a crash between any two statements: do pointer, records and notes agree of every stage not left half discarded, is COMPLETE honest? | holds |
| `queue_buying` | Queue | one iteration with up to two upsets: what is bought, how often, within which plan, and is COMPLETE covered by a stored answer? | holds |
| `queue_cooling` | Queue | two iterations: cooldown, follow-ons kept, nothing left waiting? | holds |
| `vendor_shared` | Vendor | two threads, one connector: is the rate kept in every span of time, does the ledger cover what the vendor said it charged, by how much is the month overshot? | holds |
| `vendor_alone` | Vendor | jobs that end late or never: does COMPLETE mean that the vendor carried the query out, and does every query end? (liveness) | holds |
| `triage_screening` | Triage | every kind of answer, a crash, a resume or a re-triage anywhere: is every post decided or its loss on record, is a verdict the model's and given once, is a city admitted only when corroborated, does cutting batches cost no more than three calls a post? | holds |
| `analysis_scoring` | Analysis | any part of the evidence under six courses of collection, with a crash and a discard anywhere, the crash also in the discard: does one report never alert; and, unless a discard died half-way, does a loss never read as quiet, is every correlation answered, does an alert say what was missing? | holds |
| `replay_repeat` | Replay | a request repeated under its key starts one run | violated |

Two runs join conditions that were checked apart before: `StagesInTurn` is
`NoStageMissing` (an iteration that closes has run each stage or says which it did not) and
`InputsReady`; `RecordsAgree` is `PointerIsNext` and `NoteHasStage`. `NoGhostRun` and `RecordsAgree`
speak of the stages that are not torn, `LossIsNotQuiet`, `EveryRowAnswered` and `AlertDiscloses` of iterations in which no
discard died half-way: what the code leaves behind in the torn ones is shown by `Iteration_raised` and `Iteration_torn`.

Further configurations hold a counterexample each, to a statement of a comment or
docstring or to a property that other configurations keep. TLC finds all of them
within a minute; `findings` explains them with the line they contradict.

| configuration | violates | by |
|---|---|---|
| `RunSlot_resume` | `OneRunPerSession` | a resume in a second process takes over a row before it asks for the slot |
| `RunSlot_hosts` | `RunnerHoldsSlot` | a startup on another machine frees the slot of a live run |
| `RunSlot_overlap` | `AnyPeerSpared` | a startup reads which epochs are alive; a second process starts and begins a run; the first marks that run interrupted |
| `RunSlot_discard` | `OneOpenIteration` | a discard opens a closed iteration again while another is open |
| `Iteration_reseed` | `FailedMeansUnseeded` | a crash at the end of seeding, and a resume that seeds again |
| `Iteration_forgotten` | `HonestOutcome` | a driver that raises closes the row without the failures it kept in memory, and a discard opens it again |
| `Iteration_skipped` | `NoStageMissing` | a cancellation, then a crash while it scores, then a resume: the list of skipped stages is lost |
| `Iteration_rewind` | `StagesInTurn` | a resume from an earlier stage and a second crash: the next resume starts at the stage the first crash stamped |
| `Iteration_raised` | `NeverGhost` | a step whose driver raises between the two writes of its stage's record |
| `Iteration_torn` | `AlwaysAgree` | a crash between the commits of a discard |
| `Iteration_ghost` | `NoGhostRun` | an iteration closed under its worker, a crash, and a discard that opens it again |
| `Queue_rebuy` | `NothingRecollected` | flight histories, whose key never repeats |
| `Queue_rollback` | `AnyPointReachable` | a discard that foreign keys refuse |
| `Queue_left` | `HistoryCollected` | a crash after the last pass: the flight history it returns to PENDING is collected by no pass |
| `Queue_behind` | `NothingLeft` | a crash in tipping stamps it; two discards go behind it; the resumed iteration never collects what the second handed back |
| `Triage_receipts` | `ReceiptHoldsVerdict` | a re-triage that asks about a post twice |
| `Analysis_unjudged` | `UnjudgedIsAGap` | posts that were never judged do not lower the completeness |
| `Analysis_stamped` | `LossIsNotQuiet` | a crash in alerting stamps it; two discards go behind it; the next resume starts at the stamp, with no correlation left |
| `Analysis_legs` | `OneAircraftIsOneReport` | one aircraft under two flight ids is two reports, and alerts alone |
| `Analysis_later` | `SaysNothingNew` | an iteration opened again after a later one collected is said to have no evidence of its own |
| `Analysis_relinked` | `EvidenceContributes` | evidence that counts no longer stays linked to its correlation |
| `Analysis_rescored` | `AlertIsItsCorrelation` | an alert written before its correlation was scored again |

Findings without a configuration were found by reading while the models were
written. Those of `Queue` (foreign keys on discard, the second purchase of a flight
history) were also reproduced by executing the functions of the repository
against a temporary database.

Deadlock is not checked: the server waits for requests which may never come,
and every run reaches a bound at some point.

### Bounds

- `RunSlot`: two processes, as the races are between a submitter or worker and
  one peer; four epochs, so that a process can die, be replaced and be replaced
  again while its peer lives; two or three iterations, so that a losing row exists
  beside the running one and a next one beside both. `MayStop` keeps epochs in reserve
  so that the bound does not end a behaviour with a dead process that has
  no successor. Symmetry of the processes is used in `slot_peers`, whose temporal property names no process.
- `Iteration`: two crashes, because the second one meets what the reconciliation of
  the first has stamped; failures in a critical stage, a paid one and one that
  only judges, as the driver treats stages of one class alike (`walk` adds the last
  stage).
- `Queue`: one query for each source type in use, as rows interact by key,
  cooldown and budget only; costs up to 2 with a plan of 4, so that a plan is
  crossed by a call and the next ones are refused; a monthly limit of 6 and
  a hard stop of 4, so that reserved and other priorities are told apart; two
  upsets in one iteration, or one across two; time up to 2 with a cooldown
  of 1. `MaxRows` is large enough that no proposal of the two
  passing runs is ever stopped by it.
- `Vendor`: `vendor_shared` has two threads (symmetric), as they meet at a lock, at a sum and
  at a limit; one bucket of three ticks' worth at two a request, so that a request
  finds enough, then too little; one retry; one poll; searches of two credits with
  two on the account, so that a charge may empty it. `vendor_alone` has one thread, jobs
  of up to two ticks and polls one or two apart, so that a job may end before, at or after its deadline.
  The rate over several buckets and threads is proved, so no larger instance is needed for it.
- `Triage`: two posts, one of them in two copies of different age, or beside a payload
  that cannot be read; batches of two, so that a truncated one is split; one upset, one hour, in which
  a post goes stale. A city named by one post and by both.
- `Analysis`: two cities and one track; every subset of seven signals (a story and its
  reprint, one flight in two records, a stay, a car that a later iteration looked for, a candidate), six courses of
  collection (healthy, with a history, with a failure and a pending query, with a
  refusal, with unjudged posts, with a skipped stage), one crash and one discard: with a second
  discard `LossIsNotQuiet` does not hold (`Analysis_stamped`). The
  thresholds are chosen so that each band, the cap and the floor occur.
- `Replay`: two handlers, two keys, one request of each kind, two iterations,
  two hours with a life of one, one crash.

### Fairness

`slot_restart` and `vendor_alone` check liveness.

In `RunSlot`, weakly fair are: startup (a process that is started
completes its startup or dies), the steps of a submission and its worker
(threads are scheduled, and a run ends because vendor and model calls have
timeouts), the answer to a request being handled, and the end of a stopping process. A process
that is down is started again by the supervisor for which `api/app.py` (38) keeps
an exit code. The timeouts are those of `base/connector.py` (146-167). Requests
need not come, and a crash or a shutdown is never forced. Strong fairness is
not needed: nothing that these properties wait for is disabled again and again.

In `Vendor`, time passes (weakly fair), and each thread's step is strongly
fair: a thread that queues for a bucket's lock finds it taken again and again by the
others, and the operating system's lock lets it in at some point. A step
includes the end of a request, which answers or times out. The vendor is under no fairness: a job need never
end, which the deadline of the poll is there for.

## 4. What is proved

| module | theorem | statement | under |
|---|---|---|---|
| `RunSlotProofs` | `TypeCorrect` | `Spec => []TypeOK` | the assumptions on the constants |
| | `SlotIsKept` | `Spec => []RunnerHoldsSlot` | `OneHost`, `OnlySubmissions` |
| | `MutualExclusion` | `Spec => []OneRunPerSession` | `OneHost`, `OnlySubmissions` |
| | `OwnersWork` | `Spec => []OwnerIsWorker` | `OneHost`, `OnlySubmissions` |
| | `PeersSpared` | `Spec => LivePeerSpared` | `OneHost`, `OnlySubmissions` |
| | `OneOpenAlone` | `Spec => OpensAlone` | one process |
| | `OneOpenUndiscarded` | `Spec => []OneOpenIteration` | one process, no discards |
| | `SessionImplemented` | `Spec => ServesAsSession` | `OneHost`, `OnlySubmissions` |
| `IterationProofs` | `TypeCorrect` | `Spec => []TypeOK` | the assumptions on the constants |
| | `NoGhost` | `Spec => []NoGhostRun` | `NeverReopened` |
| | `OrderOfStages` | `Spec => []StagesInTurn` | `NoDetours` |
| | `NothingLost` | `Spec => []HonestOutcome` | `NothingForgotten` |
| | `RecordsMatch` | `Spec => []RecordsAgree` | `NoWayBack` |
| `QueueProofs` | `TypeCorrect` | `Spec => []TypeOK` | the assumptions on the constants |
| | `NeverRebought` | `Spec => []BankedNotRebought` | the assumptions on the constants |
| | `BoughtOnceOnly` | `Spec => []BoughtOnce` | the assumptions on the constants |
| | `BudgetKept` | `Spec => []WithinBudget` | the assumptions on the constants |
| | `CoverageHonest` | `Spec => []HonestCoverage` | the assumptions on the constants |
| | `CooldownHolds` | `Spec => []CooldownKept` | the assumptions on the constants |
| | `FollowOnsSafe` | `Spec => FollowOnsKept` | the assumptions on the constants |
| | `NothingLeftEither` | `Spec => []NothingLeft` | not both crashes and discards |
| `VendorProofs` | `PaceIsKept` | `Spec => []Paced` | the assumptions on the constants |
| | `CompleteWasServed` | `Spec => []CompleteIsServed` | the assumptions on the constants |
| | `LedgerIsCovered` | `Spec => []LedgerCovers` | the assumptions on the constants |
| | `OvershootIsInFlight` | `Spec => []OvershootInFlight` | the assumptions on the constants |
| | `VendorTypeCorrect` | `Spec => []TypeOK` | the assumptions on the constants |
| `TriageProofs` | `NothingIsLost` | `Spec => []Accounted` | the assumptions on the constants |
| | `VerdictsAreTheModels` | `Spec => []VerdictIsTheModels` | the assumptions on the constants |
| | `NoSecondVerdict` | `Spec => []JudgedOnce` | the assumptions on the constants |
| | `GapsAreNoted` | `Spec => []HonestGap` | the assumptions on the constants |
| | `AdmittedOnEvidence` | `Spec => []Corroborated` | the assumptions on the constants |
| | `CutsAreCheap` | `Spec => []CallsBounded` | the assumptions on the constants |
| | `TriageTypeCorrect` | `Spec => []TypeOK` | the assumptions on the constants |
| `AnalysisProofs` | `EveryRowHasAnswer` | `Spec => []EveryRowAnswered` | `NoneIsNoRow` |
| | `LossIsSeen` | `Spec => []LossIsNotQuiet` | `NoneIsNoRow`, `UndoneOnce` |
| | `AlertsDisclose` | `Spec => AlertDiscloses` | `NoneIsNoRow`, `UndoneOnce` |
| | `NoLoneReport` | `Spec => []TwoReports` | `NoneIsNoRow` |
| | `OneAirframeIsOneReport` | `Spec => []OneAircraftIsOneReport` | `NoneIsNoRow`, and each airframe has one name |
| | `AnalysisTypeCorrect` | `Spec => []TypeOK` | `NoneIsNoRow` |
| `ReplayProofs` | `NoStrangersRun` | `Spec => []AnswersNameTheirRun` | bounds and times are numbers |

Each holds for every value of the constants its hypotheses admit: any number of
processes, epochs, iterations, crashes, threads, buckets, retries, queries, cities,
handlers. Where a hypothesis restricts the operations, it is because the code does not keep the
property without it, and a kept counterexample shows that; the exceptions are named below.

**RunSlot.** `OneHost` says that all processes are on one machine, `OnlySubmissions` that the
requests are triggers and re-triages. Neither can be dropped: `RunSlot_hosts` and
`RunSlot_resume` are the counterexamples. (Debug steps and the command line also run
without taking the slot.) Pid reuse and overlapping startups are allowed.
The properties are not inductive. That two workers exclude one another follows from the slot
naming the iteration *and* the epoch of each (`SlotInv`), and from two tasks never having
the same iteration (`IterInv`): the claim admits an iteration that already holds the
slot, so distinct iterations are needed for it to refuse the second. The slot
stays with its holder because nobody else can free it: a release frees the slot only
of its own iteration, and a startup frees it only when the
holder's epoch has ended or its pid is not alive. That needs an epoch of a live
process to be open and on the host of whoever looks (`EpochInv`), which a clean
shutdown must not break while a worker still has the slot (`TaskInv`). `RequestInv`
records that no recovery request exists. `IInv` is the conjunction; `InitIInv`,
`Inductive` and `Safe` are the three facts, and each conjunct has its step lemma
with one case for each action.

`OwnInv` adds who owns an open row: the epoch of a live process is named by no open row but the
one its task works on, from the insert to the close, and no row names an epoch
that was not opened yet, so a new process inherits nothing. With it, what a startup judges by
the owner's epoch it judges by the worker. `SeenInv` says that whoever serves under an older epoch while a process
reconciles was in the set its sweep saw alive. Of a younger one nothing of the kind is true, and its run
may be marked (`RunSlot_overlap`): this is why `LivePeerSpared` compares the epochs.
`AloneInv` is about one process only: the check and the insert are two statements, and between them
nothing is opened because the memory lock keeps other submissions, and discards, out; all
operations and restarts are allowed. That the session then has one open iteration at most needs
discards to be left out (`RunSlot_discard`).

**Session.** The refinement rests on `IInv` and on `StoppingInv`: a process that is stopping has
at most its last worker, so that nothing is served that was not numbered before.
Each action changes the status of at most one iteration: an insert is `Ask`, the start of
a worker is `Run`, whose guard is mutual exclusion, the end of a worker, a lost claim or a
death of the process is `Leave`; everything else stutters.

**Iteration.** `TypeInv` is the type invariant with what types depend on. A RUNNING
record is held by the task at that stage (`GhostInv`), or its driver raised there, or the startup has yet to
mark it; `NeverReopened` says that not both closing under a worker and discarding
are in use. For the order, `OrderInv` says of the driver (`DriverInTurn`) that all
before its stage is accounted for, of the walk (`WalkInTurn`) that its records end where
it stands, of a restart (`RestartInTurn`) that the stage stamped, or the pointer and any RUNNING record,
has nothing missing before it, and of a row at rest (`RestInTurn`) that the
pointer splits the records. `NoDetours` leaves out cancellations, discards and resumes
from an earlier stage, all of which move a pointer away from what was stamped:
`Iteration_skipped` is the counterexample for the first, `Iteration_rewind` for the last. Drivers may raise anywhere.

`HonestOutcome` reads the notes when the row is closed, but what puts them there happened stages
earlier, and some are only in memory. `HonestInv` says of each stage behind the pointer that it is
*clean*: it succeeded and left nothing to execute, or a note, written or held by the task, is
about it; and that nothing ahead of the pointer has run. It is a claim about
iterations that were neither interrupted nor given up, as the property is: an interruption
discloses itself. `NothingForgotten` says that where steps or discards are in use a driver does not raise,
since a step that raises leaves the row open without the note it had in memory, and a worker that raises closes the
row without its notes, for a discard to open again (`Iteration_forgotten`); and that where discards are,
iterations are not resumed from an earlier stage. This last part is one exception: TLC found no
violation without it, and the invariant for it would have to say which records a rewound driver will overwrite.
The process may die anywhere, between the statements of a discard too: what is half discarded is either
still recorded, or shown by the pointer to be still ahead.

`RecordsAgree` is about a row nobody drives, but a driver stops at any commit, so `PointInv` says for
every phase of a stage where pointer and records stand, for a walk as for a driver, and `NoteInv`
that a note has its stage's record, or that the stage is on the list of those skipped. Both are said of the
stages that are not torn: a stage becomes torn when its driver or its discard is cut off between two of these commits,
and is whole again when it is discarded or run to the end. `NoWayBack`
separates discards from the exits of an interruption: a discard takes back neither
the stamp nor the list of skipped stages, and these exits go by them. It also separates cancellations from
a resume: a cancellation is still on the row when the iteration is resumed, and the resumed driver
overwrites the list of what was skipped (`Iteration_skipped` is what that does to `StagesInTurn`).

**Queue.** `QInv` is the inductive core, and needs no restriction of the operations. It
ties each row to what its iteration does: only the query in hand is IN_PROGRESS, and how much of
it is stored is told by the step (`HeldInv`; after a crash one row may be left so, with or without its
payload, until the startup settles it); a row that waits has neither payload nor
execution, and one that has either belongs to a stage that has run (`RowInv`). From it follow
`BankedNotRebought` and `HonestCoverage`. `WithinBudget` is inductive beside it: every call passes the
check that runs just before, so what is spent is below the plan when the last query is sent.
`BoughtInv` counts: a query that recurs was sent at most once more than it was handed back, and if
once more, then a row of it is billed and no longer waits; that one iteration owns a query once
(`UniqueInv`) keeps a second row from being the one that waits. `CooldownInv` must also speak of a
row that has not run: what an earlier iteration executed is a cooldown old
*now*, which the check established when the row was proposed and time only improves. `LInv` says which
queries can still be waiting at each stage, between passes included, and what is still to be proposed. Its
hypothesis is that not both crashes and discards interfere: `Queue_behind` shows a crash and two
discards that leave queries waiting behind the stamp the iteration is resumed at (with two upsets in
all, TLC finds no violation).

**Vendor.** The meter of a bucket plus the tokens it would have now is at most its
capacity, and a sleeper will find its tokens when it wakes because it keeps the lock
(`PaceInv`); hence in any span of `d` ticks at most `(capacity + d) / gap` requests pass. A thread
reaches the second window only past the first, and passes a window only with an
answer that the vendor carried out, or one that says what it left out.

The ledger is a sum over all threads, so its proofs need to know what such a sum does when one
thread takes a step. `Sums` shows it for the library's fold: that the fold is a number at all, zero over zeros,
and changes with one element by as much as the element (`SumChanges`). The library's induction
theorems cannot be instantiated here; the induction is done on sets instead, from the order of the naturals being
well founded (`LeastNatural`, `SubsetsReached`). It needs the threads to be finitely many, which
`WorkerAssumption` says. `LedgerInv` then says that what the threads owe together is at most what the vendor
charged, which is at most what is booked, owed or will never be read about; and of each thread
(`LedgerRow`) that only a job is owed for, that a thread done with a call is done with its job, and
that it sends no search unless the month has a limit above zero. The last is what `OvershootInFlight`
needs when the first unit is booked; its own step is the admission of a query, where the sum starts anew
from below the limit.

**Triage.** Lists that the code fills by a loop with conditions are stated in `Triage` by the places that are
taken, in their order (`InOrder`), in place of filters and flattenings, whose recursive definitions could not be reasoned
about. `InPlaceLists` then says once that such a list has every element of its set, and once: each place has a rank of its own, since
the places before it are a different number for each (`RankIsTaken`).
`Shape` is the type invariant with what each phase of a run holds; its hard part is `AskInv`: when a part of a batch
is about to be asked, the posts before it have, each, a receipt whose call was asked about it, and one outcome, which is what that
call said (`Told`). A reply adds a part to that (`ToldMore`), and a truncated
batch forgets all of it. What is settled is settled from a batch that was told in full (`SettledIs`).

On top of it each property has an invariant of its own. `FirstInv`, for the verdicts, is about the rows
written and about to be written together: one for each post, none of them pending in the run or among its accepted posts, and each
what its receipt says. It is needed because a crash forgets the run but not the rows; the next gathering leaves out what has one.
`GapInv` says that while a gap or a lost payload is on record and nothing noted, the run still has to say so: it counts the gaps, or has not
passed the point where it counts the payloads. `HeardInv` says of each accepted post that some call of the iteration
said so, which the evidence an admission counts consists of; what was said stays said. `CoverInv` says of each collected post that it
has a row, will be seen by a gathering, or is in hand: pending, or accepted and not yet located. `OnceInv` counts
what was written off and is about to be: no more than the items of the payload with that fault; a second gathering
adds nothing for a payload and fault that has any row, which after a crash in the midst of them loses the rest, as the code does.
`CallInv` says what the calls of a batch come to in the middle of it: with parts of size `s`, at most two for each of the parts a
batch of that many posts needs, less two, and those asked at this size (`Within`). A round of `j + 1` parts that ends in halving
leaves at least `2j + 1` parts of the new size, which pays for it (`WithinHalved`); hence three calls a post, where a batch of
seventeen shows that two are not enough.

**Analysis.** For three of the theorems how a score is summed is not needed, only two facts about judging a pair: what was
lost is on the row and keeps the band below HIGH (`JudgedLoss`), and a band that alerts has counted
something, of this iteration unless the row says it is stale (`JudgedCounts`). `ShapeInv` gives the shapes of the
tables, `PhaseInv` what the task holds at each commit of the two stages, `AnswerInv` that an alert
or a refusal exists for every row the alerting stage is done with, whatever it did before it
crashed. This is enough for `EveryRowAnswered`, for any number of crashes and discards.
The discards that end are enough for it: a discard that dies half-way sets `torn` for good, and with it the
claim ends (`TornDiscard`, `TornStays`).
`NotQuietInv` and `ReadyInv` say that once scoring has ended, every lossy city has its rows,
judged on the losses as they are, and `StampInv` what the pointer, the records and the stamp
have to do with it: alerting is entered only over rows that are complete. `UndoneOnce`
bounds the upsets to none, or one crash and one discard, because the stamp is not
taken back by a discard: with one discard more, alerting resumes over no rows (`Analysis_stamped`).
`NoneIsNoRow` says that the value for the absence of a row is not a row.

`TwoReports` needs the arithmetic, and is not given up when a discard dies half-way. A band that alerts was given for the reports LOW asks for or for two
families (`_band_for`). The reports are counted from rows that are there: each set
`independent_reports` counts is part of one the evidence has (`ReportsAreTold`).
A family counts when one of its rows contributes: that is one report for flights, lodging and cars, and for posts
only if one of them has a publisher, which a contribution above zero implies, since the
breadth of posts without a publisher is zero and so is the product with the salience (`SocialIsNat`, `ContributionIsNat`).
The evidence only grows (`SignalsGrow`), so what was told stays told (`ToldGrows`), while rows come and
go and alerts stay behind; any number of crashes, resumptions and discards is allowed. `TypeOK`
rests on every quality being a number: sums and distinct counts (`Sums`), an age weight (a bounded maximum), the
baseline, which takes the samples of middle rank. That there is a sample of each rank is a counting argument (`RankIsTaken`):
the number of samples below is different for each, so all numbers occur. It needs one sample
for an iteration, which `WorldsAssumption` says. The assumptions on the mission (`CfgAssumption`) are the ranges of
`services/tunables.py`, except that `mediumTypes`, `highTypes` and `lowReports` are at least two: a
mission that sets them to one may alert on one report, and means to. Aircraft are counted by `Airframe`, the name
the code has for them. Since the first choice of a name is the id of a flight, this is less than the comment in
`scoring.py` says of aircraft (`Analysis_legs`); `OneAirframeIsOneReport` says when it is the same: `NamesAreFewer`.

**Replay.** Handlers past their start and stored rows carry an iteration made by their own key and
request, and a number once used is never given to another request. So a repetition may start a
second run (`replay_repeat`), but no client is told of a run it did not ask for.

Only model-checked:

- liveness: `SlotIsFreed`, `NoneStranded`, `QueryEnds`;
- `ReceiptHoldsVerdict`, which `Triage_receipts` shows to be broken, and `OneRunPerKey` likewise;
- where a theorem has a hypothesis, what lies outside it, within the bounds of the runs.

Every invariant and action property of the passing runs is stated by a theorem.

## 5. What is not modelled

- Text, prompts, the judgement of the model, parsing of vendor responses, geography,
  mission files and configuration, redaction: data the control does not depend on, or
  regular expressions and I/O a model checker says nothing about.
- The connectors other than Staying: each call is one request of the loop that `Vendor`
  models. Budgets of several providers at once, prices per record, dry runs.
- Of scoring: distances, alternatives, the trace text. Of governance: all.
- Authentication and response schemas; migrations, exports, reports, read queries.
- The plan of a recovery that is shown to the operator; the depth cap and the count
  tripwire of tipping; the drain limit of 500 queries.
- A second failure on top of a first: `_fail` itself failing while a driver raises, a statement of a submission or
  of a startup that raises (in `RunSlot` a process dies instead).
- The replacement of a stage's record is one step where `start_agent_run` deletes and inserts; the queue rows, payloads
  and signals a discard deletes are one step in `Iteration` (`Queue` and `Analysis` have the torn ones of their own tables).
  After a discard that died half-way nothing but `TwoReports` and `TypeOK` is claimed of scoring and alerting.
- The consistency of SQLite itself: a statement is atomic, a commit durable.

## 6. Plan

Done, in this order since each rests on the one before: `RunSlot` (who may run) and
its proofs, `Iteration` (what one run does), `Queue` (what it buys), `Session` with its
refinement, `Vendor` with the pace proved, `Triage`, `Analysis`, `Replay`; then the
theorems of `Iteration`, `Replay`, `Queue`, `Vendor`, `Analysis` and `Triage`.

What would come next:

1. `Purchase`, the abstract promise of collection (a query is open, bought, answered or
   given up; it goes back only by an operator's action), with `Queue` shown to
   implement it by a refinement mapping, on top of `QInv`.
2. `StagesInTurn` with discards and `HonestOutcome` with resumes from an earlier stage, by an
   invariant that says what a stamp may still be trusted for.
3. Several providers in `Queue`: endpoint limits, dry runs, the shares of an iteration
   against a reference.
4. Monotonicity of the scoring operators, stated over one signal more.
