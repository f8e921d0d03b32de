# Atlas ROS: specifications

TLA+ specifications of the stateful core of Atlas ROS (`src/src/atlas_ros/`), the TLC
configurations that check them on small instances, and TLAPS proofs for every value of
the constants. Paths below are relative to `src/src/atlas_ros/` unless they begin with
`docs/` or `tests/`.

Atlas ROS turns what Ryan writes into plans, has him approve them, and writes the approved
work to Todoist and Notion. Most of its 280 Python files are pure: contracts, compilers,
classification, scoring, presentation. What is hard to test is where it keeps state between
calls and acts on systems it does not control: SQLite tables shared by several processes,
providers that time out or change underneath, retries, leases, approvals. The
specifications are about that part.

## 1. Inventory

| Component | State it keeps | Operations | Hard because | Correct when |
|---|---|---|---|---|
| Event queue (`reconciliation/events.py`, `DurableEventQueue`; schema in `runtime/database.py`) | rows of `event_reconciliation_event` (state, attempts, lease, digest), `event_object_lease`, `event_reconciliation_receipt`, `event_runtime_control` | accept, claim, transition, bind_snapshot, fail, record_receipt | several workers; a SELECT is not in the transaction of the UPDATE after it; leases end by the clock | one worker per object; terminal states final; no report without a readback on record; retries bounded |
| Event processor, operator, backstop (same file) | a worker's locals across some twenty statements; the operator's controls | process, reject, release_dead_letter, pause/resume, backstop run | the provider's snapshot may change between load and apply; a crash at any statement; the operator acts on rows in work | what is applied is what was planned; every accepted event is decided |
| Webhook receiver (`reconciliation/event_http.py`) | none | verify and accept | duplicate deliveries | a delivery is accepted once |
| Execution journal (`adapters/local_sqlite.py`) | `execution_transactions`, `execution_operations` | begin, record_write, record_readback, fail, complete | retries of a half-done transaction; check and write are separate statements | write-ahead; identity and keys exclusive; completed means verified, for good |
| Attended execution (`application/execution.py`, `application/transaction.py`) | position in the plan, receipts so far | execute | a provider call between any two journal writes; timeouts whose request still arrives; crash and retry | each operation takes effect at most once, and only for a begun transaction |
| Exact Todoist adapter (`adapters/exact_todoist.py`, `adapters/todoist.py`) | none; the provider holds the tasks | create and fetch, readback | create is retried under one request id | readback agrees with what was written |
| Orchestrator (`orchestration/execution.py`, `execution_v780.py`, `contracts/orchestration_v2.py`) | stage of each command, applied operations, stored receipts | simulate, approve, apply, verify, compensate, replay | failure of one of several operations; compensation that fails itself; readback before a retry | legal transitions only; nothing applied is reported as not applied |
| Todoist/Notion execution adapters (`adapters/todoist_execution.py`, `adapters/notion_execution.py`) | none | apply, read back, compensate | create succeeds and its verification fails | idempotent under a retry |
| Reconciliation ledger and service (`reconciliation/state.py`, `service.py`, `planner.py`, `baseline.py`, `cli.py`) | the Notion ledger: a row per comment, the checkpoint | plan, authorize, apply, checkpoint, baseline | failure anywhere in an apply; a retry that meets what the first attempt left; plans made before they are applied; tasks that cannot be read; baseline re-run | an applied row is true; the checkpoint stands for settled events; a baseline is complete and inert |
| Field reconciliation engine (`reconciliation/engine.py`, `contracts/reconciliation_v2.py`) | checkpoint and keys of the writes that returned | plan, apply | edits on both sides between snapshot and write; failed readbacks; stale, replayed and repeated plans | no write twice; the checkpoint is earned; the sides converge |
| Quick initialization (`kernel/bootstrap.py`, `kernel/initialization_circuit_breaker.py`, `runtime/warm.py`) | state of the run, call budget, cached manifest | quick_initialize and its reads | authority moves between two reads; failed reads, one retry; a cache that is stale | READY only from one coherent authority read; the budget holds; no call after the terminal state |
| Comment and delegated lifecycle (`reconciliation/comment_lifecycle.py`, `delegated_lifecycle.py`) | none | classify a comment, compile a transition | | a comment means what it says |
| Capture and outbox (`capture.py`, `runtime/outbox.py`) | `pending_capture`, `outbox_event`, the files of the export directory | capture, enqueue, export | crash between the file's rename and the UPDATE; two exporters | exported means written; every event is exported in the end |
| Intent memory (`intent_memory_v760.py`, `intent_memory_migration_v760.py`) | none: the store is the caller's | score, propose, migrate | | its outputs satisfy their contracts |
| Release authority cutover (`release/`) | none: the documents are given whole | validate | | exactly one active authority |
| Planning (`planning/execution.py`) | none | plan_v2, plan_many_v2 | doubles found in one order; plans made from an index that is older than the tasks; limits | no candidate held back for one that was held back; one task per candidate |
| Command factory and the tree of tasks (`orchestration/commands.py`, `adapters/todoist_execution.py`) | none; the provider holds the tree | todoist_operations, upsert_parent, upsert_child, verify_tree | children are found by number and title; a tree half built | a plan carried out again finds what it made |
| Engines, intelligence, capabilities, contracts, policy | none | pure functions | | their outputs satisfy their contracts |

How they interact. A webhook or the backstop *accepts* an event; a worker *claims* and
*processes* it: it loads the provider's snapshot, binds its digest to the row, plans, asks
the policy evaluator, and applies or asks Ryan. The operator acts on the same rows through
`EventOperator`. Attended execution is the other way to the provider: a proposed plan is
authorized, `AttendedExecutionService.execute()` writes the journal around each provider
call, and `CanonicalReconciliationService` compares the result with the proposal. The
orchestrator is the older way out, with provider ports, retries and compensation and a store in
memory. Execution reconciliation is the way back: attended commands read comments from Todoist
and record in a Notion ledger what became of each; the field engine copies fields between
the two sides. Quick initialization precedes a session: it establishes which release is
active. The paths share no table; they share the provider, whose tasks people edit too. At the commit
modelled here, `EventProcessor`, `EventOperator`, `EventBackstop` and the
`SQLiteExecutionJournal` are constructed by the tests only, so nothing in the package says
how many workers or executors a deployment runs. The specifications take that as a
parameter.

One fact about Python's `sqlite3` matters to both: a connection begins its transaction at
the first *write*. A method that reads and then writes holds no lock in between, except
`claim()`, which says `BEGIN IMMEDIATE`. So a SELECT and the writes after it are separate
steps, and the writes of one method are one step.

## 2. Modules

```
EventQueue  <--  EventProcessor  <--  MCEvents (TLC)
                     |                EventProofs
                     +-- INSTANCE EventDelivery           (what the queue promises)

ExecutionJournal  <--  AttendedExecution  <--  MCAttended (TLC), AttendedProofs
                            +-- INSTANCE ExactTransaction (what attended execution promises)

Orchestrator  <--  MCOrchestrator (TLC), OrchestratorProofs
     +-- INSTANCE CommandOutcome                          (what a receipt promises)

QuickInitialization  <--  MCQuick (TLC),               QuickProofs
Reconciliation       <--  MCReconciliation (TLC),      ReconciliationProofs
     +-- INSTANCE CommentSettlement                       (what becomes of a comment)
FieldReconciliation  <--  MCFieldReconciliation (TLC), FieldReconciliationProofs
Outbox (TLC)         <--                               OutboxProofs
     +-- INSTANCE AtLeastOnce                             (what the outbox promises)

ExecutionPlanning  <--  TaskTree  <--  MCTaskTree (TLC), TaskTreeProofs
```

### EventQueue and EventProcessor

`EventQueue` holds the tables as functions of the event (`state`, `attempts`, `holder`,
`lease`, `digest`, `backoff`) and of the object (`objectRow`, `objectLive`), and for each method
the predicate its SELECT evaluates and the writes it makes. A lease is "none", "live" or
"lapsed": instead of clock values there are steps in which the clock passes a lease's end
(`LapseEventLease`, `LapseObjectLease`) or the end of a backoff (`EndBackoff`). A receipt is a triple:
event, snapshot planned from, and the mapping the applier returned. The table's key is the digest
of the mapping alone and the INSERT says OR IGNORE, so a mapping that is on record (`OnRecord`), under
whatever event, is not recorded again (`InsertReceipt`).

`EventProcessor` has one `pc` value per statement of `process()`. `transition()` is
`SelectRow` then `UpdateRow` (or `RefuseTransition`); `bind_snapshot()` is `FindDuplicate` then
`BindSnapshot`; `fail()` is `SelectAttempts` then `UpdateFailure`. `LoadSnapshot`, `PlanEvent`, `Decide`,
`Recheck`, `Apply`, `RecordReceipt` are the calls between them, and `CallFails` is any of them
raising: `PermissionError` and `ValueError` dead-letter at once, anything else spends an
attempt. The environment is the operator (`RejectSelect`/`RejectUpdate`,
`ReleaseSelect`/`ReleaseUpdate`, `SetKillSwitch`), deliveries (`AcceptSelect`/`AcceptInsert`), the
provider (`ProviderChanges`), the clock, and `Crash`, after which a worker's locals are gone.
Snapshots are opaque digests. The policy evaluator is a choice among its decisions; a
planner that answers "informational" is the constant `Informational`. The applier is a choice too: a
consistent readback returns any of `Mappings`, and nothing makes the mappings of two events differ;
the history variable `returned` has what was returned for which event and snapshot. The operator makes
one call at a time (`op`): that is an assumption, see "Disagreements".

`EventDelivery` is the abstract specification: an event is absent, queued, worked on,
waiting, closed or stranded; work starts only on an object nobody works on; what is closed is
reopened by a release only. The refinement maps a row to "working" while some worker has
claimed it and otherwise to what its state means.

### ExecutionJournal and AttendedExecution

`ExecutionJournal` has the two tables as functions of the transaction id and of the
idempotency key: UNIQUE (provider, idempotency_key) makes the key name the row. A plan is an
identity (authorization id and plan digest); `TxOf` says under which transaction id its caller
executes it and `KeysOf` which keys its operations have. Two plans may be given the same
transaction id, or share a key: that is what begin() must refuse. Metadata of an operation
is determined by its plan, so `_verify_existing_operations` is part of comparing identities.

`AttendedExecution` has one `pc` value per provider call or database access of `execute()`:
`Begin` (the SELECT), `Journal` or `JournalRefuses`, then for each operation `Create`, `Fetch`,
`RecordWrite`, `ReadBack`, `MatchReadback`, `Verify`, then `CheckCompletion` and `Complete`; an exception
in between goes to `Fail`, which is the except clause. `begin()` and `complete()` are outside the
try block, as in the code: when they refuse, nothing is written. The provider holds per key
nothing, the task as authorized, or the task as somebody edited it. A create may time out
(`CreateTimesOut`): its request is lost, or stays in `inFlight` and arrives at any later moment,
even after the executor has gone on or died (`Arrive`). `Edit` changes a created task at any
moment. `Crash` loses an executor's locals and may leave its create on the way.

`ExactTransaction` is the abstract specification: a transaction id has one plan and no key
belongs to two; a task is created at most once per operation, only for a begun transaction
that has not completed; a transaction completes once, when all its operations have taken
effect.

### Orchestrator

One command is run at a time (`run`), and a step is one call of a provider port with the state
changes up to the next call. `Submit` starts or simulates a command the store does not answer for;
`Succeed` and `Fail` are the answers of `execute_operation()`, `ReadBack` of
`readback_before_retry()`, `Undo` and `UndoFails` of `compensate_operation()`; `Complete`, `Store` and
`Raise` are the end of `_run()`. Every change of the transaction's state goes through `Legal`
(LEGAL_TRANSITIONS): a transition it lacks leads to "illegal", which raises. A behaviour has
one of two ports. "reporting" sets `uncertain_apply` on every error after which the write may be in
effect and can undo; "live" is what `todoist_execution.py` and `notion_execution.py` do: every error
is without the flag, nothing can be undone, and an error of the transport while Notion's schema
is read is none the orchestrator knows (`Escape`). A crash empties the store, which is a
dictionary.

`CommandOutcome` is the abstract specification: effects come and go while a command is
unsettled; the verdict "settled" is given only when all of its writes are in effect, and neither
changes afterwards unless the verdicts are lost.

### QuickInitialization

`op[p]` is the operation of `quick_initialize()` with its breaker: a step is the answer of one provider
with its checks and the next `Issue`. `Promote` and `Publish` move the active release at GitHub and
in Notion's System State, in that order, at any moment. The warm cache starts as anything an
earlier session may have left and ages at any moment. `Probe` is a call through the breaker that the
orchestration did not make, from inside a provider (then the answer nests) or after the end.
`live`, `docs` and `stated` are the releases that authority, documents and System State were read to
name; `active` is a history variable, the releases GitHub and Notion both named since the beginning.

### Reconciliation

`ledger`, `checkpoint` and the provider's records (`pages`, `opened`, `open`, `bound`) are what survives a
command; `cmd` is the command in progress; `plans` are the plans somebody has in hand.

*Planning.* `Listed` is what a plan looks at: the comments of the tasks it can read, and of subtasks that
are open or were completed in its window (`InWindow`), which begins 24 hours before the checkpoint, or
42 days ago for a full plan. `Age` moves a subtask out of the one and then out of the other. A task
whose `get_task()` raises is skipped with its comments and subtasks (`missing`), and only leaves a
conflict to record. Among explicit commands a plan may find some for which there is nothing to
change (`found`), be it because an earlier attempt has done it. `closes` is the list, made now, of the
checkpoint tasks each delegation is to close.

*Applying.* The command line makes the plan it applies (`Run`): it needs an activated ledger, and an
approval of that very plan if the plan touches providers (`Review`, `Authorized`). A session applies a
plan it presented earlier (`ApplyPresented`), whatever has happened since. A delegation is `WritePage`,
`CloseObsolete` for each task of its list, `UpsertTask`, `Bind`, and is carried out whether or not the ledger
has it settled by now; explicit commands and conflicts come after (`Mutate`, `RecordConflict`), and are
skipped if it has (`SkipProcessed`); an operation that apply() does not know is `Refuse`. Two delegations
that agree in parent, title and date share the marker of their task (`MarkerOf`). Then the events are
marked one by one (`Mark`; a row that is settled stays) and the checkpoint moves (`Advance`, and `Restore`
where a session puts it back). Any call may fail before its effect (`Fail`) or after it (`Answered`); the
events are then marked failed. A checkpoint records, as history, the events of the plan it was
written for (`covers`), and `past`, the subtasks it no longer looks at.

*The baseline* has a dry run that fixes its cutover, which leaves historical Action Records out, and
rows that are written, recognised or found in conflict one by one.

`CommentSettlement` is the abstract specification: a plan may take up open comments; a command gets its
record while it is open, a delegation while some plan has it, then tasks, the latest of which the record
names, any number of times; an open comment is settled once, as applied only if what it asks for is
there, and that outcome stays. The refinement maps a row to its status if that is terminal and to
"open" otherwise, a failed one included.

### FieldReconciliation

Two sides hold the fields of one object. `ReadTodoist` and `MakePlan` are the caller's two snapshots and
`plan()`; a plan is known by what `plan_id` digests, so equal contents are one plan with one set of
keys. `Apply` is the entry of `apply()` with its refusals; then per mutation `Write`, `Skip` (the key
says the write returned) or `WriteRaises` (before or after its effect), and `Readback`; `Finish` moves
the checkpoint, `Fail` is the except clause, which keeps the keys. Any plan ever made may be applied
again. `done`, `returned`, `repeated` and `run.held` are history variables.

### Outbox

A transaction is a step. `Capture` and `Enqueue` add rows; `export()` is `Select`, `Replace` (the file
under the digest of its content: a file is the set of its events) and `Mark`, with any number of
exporters and a failure at every place in between.

`AtLeastOnce` is the abstract specification: events are accepted, written any number of times once
accepted, and settled once written; nothing is taken back.

### ExecutionPlanning and TaskTree

`ExecutionPlanning` has no state: it is the planner as operators. A candidate is a record of what the
decision looks at; texts stand for their normal forms, and which titles resemble each other and
which Done-when texts are specific are constants. An order is a set of pairs of positions (`ById`,
`ByItem`: Python's sorts are stable, so the keys are followed by the position), and `InOrder` sorts by the
number of positions before each. `Analysis` is the loop of `DuplicateAnalyzer.analyze()` over the
candidates sorted by identifier, a recursive function of the position; `Findings` is what it returns,
in which the last candidate with an identifier overwrites the others. `Match` is the comparison
with the index; `Passes` and `Status` are the projection test and the first reason against a candidate;
`Plan` and `Plans` are `plan_v2()` and `plan_many_v2()`. Steps are selected by identifier and looked up by it, so
that two with one identifier come both, and both as the last of them; that is what the code does.

`TaskTree` composes it with the command factory and the Todoist adapter. `MakePlans` plans with the
candidates as they are (`NewEvidence`, `Complete`) and the index as it was last read (`ReadIndex`).
`Start` is the factory's refusal of a plan without an outcome; then `UpsertParent`, `ReadChildren`, an
`UpsertChild` per step, `VerifyTree`; a run may end at any of them (`Fail`), and any plan may be
started again, with or without the outcome's task named. The provider is `FakeTodoistAdapter`, which
keeps request keys for ever: Todoist's own `X-Request-Id` is assumed to last as long as a plan is
retried. In the package only tests call the planner, the index's constructor and the factory, so
the order in which a caller uses them is a choice. `mixed` is a history variable: a plan was
started that did not know a task another plan had made for the same outcome.

## 3. What the runs check

Every run takes seconds to two or three minutes with two workers. Runs that must pass:

- **EventsTimely**: two deliveries about one object (the second with a digest in its
  envelope), two workers, two attempts, one provider change, one dead-letter release, no crash, and
  an applier whose mappings for the two may be equal.
  `OneWorkerPerObject`, `AppliedSnapshotIsBound`, `TerminalIsFinal`, that the queue implements
  `EventDelivery`, and that through retries, backoffs, a changed snapshot and a release every accepted
  event is eventually decided. Leases outlast their holders and operators reject waiting proposals
  only: what happens otherwise is under "Disagreements".
- **EventsUntimely**: leases that end under a working holder, rejections of a row whose change is
  being written, a crash: still nothing is reported without a consistent readback whose mapping is
  on record. One attempt and one snapshot: what the races change here is who writes, not what.
- **AttendedExclusive**: three plans, two for one transaction id and two sharing a key; two
  executors; one crash; two edits (an edit and its undoing). What is executed is journaled, what is
  completed is verified, and the executors implement `ExactTransaction`, while no two of them
  execute one transaction. What the journal's keys guarantee even without that restriction is
  proved (section 4).
- **Orchestrator**: a command as the factory builds it (reads, writes and verifications of both
  providers), one whose operations can partly be undone, and one without operations; both
  ports, three attempts, two runs, one crash. Receipts are true, effects are listed, flagged
  timeouts are read back first, "compensated" is true of what compensation covers, every run ends,
  and the store implements `CommandOutcome`.
- **Quick**: one initialization among three releases (one without a usable date), two promotions,
  every cache, one retry, one foreign call. READY is one release that was active meanwhile and
  followed the plan; no read after the end; the operation ends.
- **Reconciliation**: a delegation on a subtask and a transition on one Action Record, an explicit
  command on another, historical one; two baseline runs, three commands, scoped or not, incremental
  or full; one failed call, unreadable task or crash. Applied rows are true, nothing unrequested
  happens, the baseline is complete and inert, the checkpoint stands for settled events, and
  reconciliation implements `CommentSettlement`. Three commands are what it takes to settle a comment and
  meet it again: the baseline, the apply, and another apply, of a later plan or of an earlier one. One
  plan is in hand at a time (`MaxPlans`), but a plan may be applied any number of times, before or after
  what the command line plans for itself. The proofs are about any number.
- **Fields**: a field of each authority and one without a rule, one edit (of the authority, of its
  spelling, of the copy, of the unknown field), one call that raises. A plan is applied once, no
  write returns twice under one key, the checkpoint is earned, the sides converge.
- **Outbox**: four events, batches of two, two exporters, two failures. What is marked is written,
  undisturbed exports write nothing twice, the outbox implements `AtLeastOnce`, and every event is
  exported.
- **TaskTree**: seven packages of three to five candidates, each made for one case (a step renumbered
  when an earlier one becomes ready; a chain in which the third resembles the second and the
  second doubles the first; one identifier twice, and twice with the second no double of any; two
  outcomes with a common step and a double of one; one step more than the threshold, in time;
  steps that never become tasks), limits 1 and 2,
  two rounds of planning, two changes, one failure. The analysis of doubles agrees with its definition as
  a kernel (`KeptIsKernel`) and does not depend on the order of the candidates (`OrderIrrelevant`); a
  candidate has one task (`OneTaskPerCandidate`) and no tree outgrows the threshold
  (`TreesWithinBudget`) while plans know of each other's tasks. All but the last suppose distinct
  identifiers: with one identifier for two candidates the order they are given in decides, and a
  candidate may get two tasks (the second package of that kind).

Of the type invariants a run checks that of **Quick**, whose bounds are the read budgets. The others
are proved for all instances (section 4), the bound on an operation's attempts and the limit of an
outbox batch included, and cost no run.

Runs in which TLC must find a violation, each against a sentence of the repository that
`PROJECT.json` quotes:

- **EventsDuplicates** (`DuplicateHasOriginal`): a failed delivery and its twin close each other
  as duplicates; the change is applied by neither.
- **EventsCrash** (`EventuallySettled`, with fairness): a worker crash after the first transition
  leaves a state that `claim()` does not select.
- **AttendedReopened** (`CompletedIsFinal`): two executors of one transaction; the one that fails
  last moves it from completed to failed.

Disagreements met while modelling that are in the models but are no runs of their own. Each is
an ordinary behaviour of the model; the passing runs state their properties around it.

- `reject()` of a row a worker is processing is written over by the worker's next transition
  (`RejectStates` beyond waiting proposals), and deletes the object lease the worker relies on.
- A worker whose lease lapsed fails a row another worker closed: `fail()` updates by event id alone
  (`Timely = FALSE`).
- The operator's calls are one at a time in the model. Two racing `release_dead_letter()` (SELECT
  events.py:1205, UPDATE by id :1213) could reopen a row that was released and applied in between.
- Two events whose applier returns equal mappings share one receipt row (events.py:669-683,
  database.py:70): the second is reported applied with none of its own, and `inspect()` shows none for it,
  although docs/architecture/V830_EVENT_RECONCILIATION_CONTRACT.md:35 says "Each successful operation and
  readback is receipted". No applier is part of the package; the one in the tests puts the plan digest,
  which covers the event, in its mapping. What holds for any applier is what `AppliedHasReceipt` and
  `AppliedSnapshotIsBound` say: a consistent readback took place, and its mapping is on record.
- The kill switch is stored where `process()` does not read it.
- `complete()` SELECTs the operations and writes the transaction in two steps; a second executor
  may take a verification back in between.
- With the live ports a timed-out write is tried again without a readback (the flag is never set),
  a command may be stored as failed although something is in effect, and an error of Notion's
  schema read leaves effects without any receipt.
- The blocked receipt of an initialization parses a date nobody has validated and may raise.
- The checkpoint that ends a reconciliation drops the baseline's evidence, which the command line
  demands of the next one: the first apply that succeeds closes it.
- The checkpoint advances past comments that were never planned: of a task that could not be read
  (service.py:398-410, 694), of a subtask completed before the window, of Action Records outside
  `--task-id`, of historical ones a baseline leaves out (baseline.py:163). They are not listed again, not
  even by a full plan once 42 days have passed. ADR-0082 says "Ordinary comments are never silently
  discarded". `CheckpointCoversSettled` says no more than the code keeps: the events of the plan the
  checkpoint was written for are settled.
- A plan presented earlier is applied without asking whether its ordinary comments are settled by now
  (service.py:595-606): a delegation is then carried out again. Two delegations in one plan leave two open
  checkpoints, since neither list of tasks to close has the other's (service.py:411), against ADR-0082's
  "At most one active Ryan-owned checkpoint".
- A failed apply that had executed an explicit command leaves it to the next plan, which finds nothing to
  change and records it as informational.
- An ordinary comment that asks to wait, block or complete makes every apply that lists it fail.
- A delegation whose apply fails after its task was bound is planned again with that task among
  the obsolete ones (`_active_checkpoint_ids`): the retry closes it and creates a second.
- A new plan for an outcome that has a task has no outcome, and the factory refuses it: steps that
  were retained, deferred or lost to a failure are reached by the old plan only.
- Two plans made before either is carried out may number the same steps differently, and then both
  create them; two candidates with one identifier suppress each other, or get a task each with the
  content of the second.

Bounds. `MaxAttempts` is a parameter of the code; 2 (3 for the orchestrator) has a first, a last and
a released attempt. `MaxChanges`, `MaxCrashes`, `MaxReleases`, `MaxEdits`, `MaxFailures`, `MaxPromotions`,
`MaxProbes` bound what the environment does in one behaviour and `MaxRuns`, `MaxCommands` how often
somebody starts something; they appear as guards of those actions only. One change is enough to
make a loaded snapshot stale and to distinguish the digests of two attempts; one crash, to
strand a row, to forget the orchestrator's store after effects, or to leave a create on the way for a
retry to meet; two edits, to have a task edited and back between write and readback; two
promotions, to pass an initialization twice, or to roll back to the release it has read; three
commands, for a baseline, a failed apply and its retry; two plannings of the task tree (its `MaxPlans`),
for one before and one after a change. The limits of the task tree (3 and 5 in the code) are 1 and 2, so that four
candidates reach each side of both. Two workers, executors or exporters
suffice for a race on one row. One object makes workers meet; that different objects do not
disturb one another is part of what is proved. Executors, workers and baseline runs are
interchangeable, so safety runs use them as a symmetry set; liveness runs use none.
`CHECK_DEADLOCK FALSE` appears where the system may really stop: an initialization that has ended is
not begun again (Quick), after the commands of the bound nothing is left to do
(Reconciliation), and a completed transaction is not executed again
(AttendedReopened).

Fairness.

- Events: weak fairness of each worker's `Claim` and `Process` (a worker loop polls claim() and runs
  process() to its end), and of the clock passing leases and backoffs. Nothing is assumed of
  providers, webhooks, operators or crashes.
- Orchestrator: weak fairness of `RunStep`: the call in progress returns or raises. Nobody has to
  submit, withdraw or crash.
- QuickInitialization: weak fairness of `Reading(p)`: a provider answers or raises.
- FieldReconciliation: apply() runs to its end (weak); the caller goes on reading and planning, and
  applies the plan made last, if that is possible again and again (strong: an older plan in
  progress, an edit or a failure may interrupt it each time). `Converges` also assumes snapshots that
  carry the object's version, as the tests' do; with the contract's default version it
  fails, which is its mutant.
- Outbox: weak fairness of each exporter's `Export`: somebody keeps calling export().
- Attended execution and Reconciliation are started by a person and have no loop, so no fairness
  and no liveness is stated for them: a failed transaction waits until somebody retries it.

Each property of a passing run has a mutant in `PROJECT.json`: an operator named in the module
beside the one it replaces (`ClaimableIgnoringObjects`, `CompleteAnyway`, ...), a plausible bug that
makes the property fail.

## 4. What is proved

TLAPS proves the following for all values of the constants, assuming only the named
assumptions in the modules (events are naturals in receipt order, `MaxAttempts` is positive, a
plan has at least one operation and no key twice, normalizing twice is normalizing once, the null
values are none of the others).

`EventProofs`, without any assumption about leases or operators:

- `TypeCorrect`, `TypeOKCorrect`. `TypeOK` is not inductive: the digest a worker binds and the target
  of a transition come from its locals. `TypeInv` adds `LocalsOK`, what a worker holds at each
  statement.
- `ReceiptsCorrect` (`AppliedHasReceipt`). `ReceiptInv` adds that every receipt on record is the mapping
  of a consistent readback, that a worker about to record one holds the mapping of its own, and that
  one about to write READBACK_VERIFIED or APPLIED has recorded it or found it recorded: between the
  readback and the report there are three statements and any number of other actors, one of which
  may have stored an equal mapping first.
- `BudgetCorrect` (`FailedHasBudget`), inductive by itself given the types.

and then assuming `TimelyAssumption`: no lease ends while its holder works, and operators
reject waiting proposals only. `fail()` and `reject()` write by event id alone, so neither half can
be dropped.

- `SerialisationCorrect`, `LeaseTablesCorrect`. `LeaseInv`: the two lease tables agree, and a busy
  worker holds the live lease of a row that is still in work. The serialisation of an object
  follows because an object has one lease row.
- `FinalityCorrect` (`TerminalIsFinal`), from `LeaseInv`: whoever writes a row holds it.
- `ApplierCorrect`, `BindingCorrect`. `StageInv` says for each statement which state the row is in
  and that it is bound to the snapshot the worker planned from.
- `RefinementCorrect`: `Spec` implements `EventDelivery`, step by step.

`AttendedProofs`, first without any assumption about who executes what:

- `TypeCorrect`, `TypeOKCorrect`: the position in the plan stays inside it.
- `EffectsCorrect`, `IdentityCorrect`, `KeysCorrect`, from `JournalInv`: the rows of a begun plan exist
  and only those, an executor past `begin()` has its own plan under its transaction id, and a
  row's plan is one executed under that id. `begin()` reads and inserts in two statements; the
  proof is that the INSERT itself refuses what the SELECT missed.

and then assuming `Exclusive`: nobody executes a transaction that is being executed
(AttendedReopened shows that it is needed):

- `CompletionCorrect`, `EvidenceCorrect`. `ExecutionInv`: executors are in different transactions, none
  of them completed; the operations before an executor's position are verified and its
  current one has the evidence its `pc` implies. Other executors cannot disturb this because
  keys are exclusive.
- `FinalityCorrect`, `NoLateEffectCorrect`: the rows of a completed transaction do not change, and
  a late request finds its task already there.
- `RefinementCorrect`: `Spec` implements `ExactTransaction`.

`OrchestratorProofs`. `RunInv` follows the run: what returned and writes is in effect (`WorkInv`), with a
port that reports every effect is listed but for the one to be read back (`ListInv`), compensation
has still to undo whatever may be undone and is in effect (`UndoInv`), and a settled command is
complete and not the one that runs (`SettledInv`), without which a second run could take its effects
away. From it: `VerifiedCorrect`, `ListingCorrect`, `RetryCorrect`, `CompensationCorrect`,
`VerifiedFinalCorrect`; `TransitionsCorrect` (only a command without operations asks for a forbidden
transition), `StorableCorrect` (no validator refuses an outcome), and `OutcomeCorrect`, the refinement of
`CommandOutcome`.

`QuickProofs`. `ReadyWasActive` is the interesting one: authority and System State are read at different
moments, and READY must still be a release that both named at one moment. `Sound` says that until
System State is read, a release that was never named by both is still the one at HEAD and not the
published one, so that no promotion can pass (a promotion waits for the publication of the last).
`ReadyCoherent`, `ReadyPlanned`, `NoLateRead`, `EndFinal` come from the same invariant.

`ReconciliationProofs`, for any number of plans in hand. `IInv` says of the command in progress that what
it took off its lists is done, settled or set aside as a conflict (`Applying`, `Baselining`); of every plan, in
hand or in progress, that its comments exist and none of them was set aside by the founding baseline
(`PlansAreSound`); of the first checkpoint, that its baseline's rows were there before it and
that nothing was applied before them (`FoundingIsSound`); and of any checkpoint that its plan's events are
settled. `AppliedCorrect`, `RequestedCorrect`, `InertCorrect`, `BaselineCorrect`, `CheckpointCorrect` and
`SettledCorrect` (rows of settled events are never rewritten, and nothing but a delegation of an earlier plan
is carried out again) follow. So does `SettlementCorrect`, the refinement, action by action: what a plan
takes up is open, the delegation in progress is in a plan and has its record, and at the binding its
task; what is marked "applied" has left the list of what is to be done.

`FieldReconciliationProofs`. `Inv`: the keys are the writes that returned; a plan expects keys of earlier
plans only, so that the checkpoint which includes its own keys makes it stale for ever; what
a run has passed is keyed and was in effect. `PlanAppliedOnce`, `NothingWrittenTwice`, `CheckpointEarned`.

`OutboxProofs`. `ExportedWritten` holds whoever exports at once: what is to be marked has its file.
`EachWrittenOnce` needs that an undisturbed exporter is alone and its batch still pending. That a
batch respects the limit is a lemma about `Oldest`, with the finite-set theorems of the library.
`AtLeastOnceCorrect`, the refinement, needs that what an exporter holds was captured (`Batched`).

`TaskTreeProofs`, for any candidates with string texts and integer identifiers, at least one of
which is an outcome, and any limits, has two halves.

- *The planner.* `InOrder` sorts: places grow with the order (`RankGrows`), every place is taken
  (`RankOnto`), and two sequences whose positions correspond are sorted the same (`InOrderSame`). The
  analysis is a recursion over positions, and the library's induction theorems take an operator
  as a parameter, which the provers cannot instantiate; but naturals are well-founded, and so there
  is a least position up to which no function satisfies the equation, unless there is none
  (`Least`, `AnalysisIs`). With that, `KeptIsKernelCorrect`: identifiers ascend along the sorted
  candidates, so "kept before" is "new with a lower identifier". `OrderIrrelevantCorrect` follows the
  candidates from one order to another through the analysis (`SameFindings`), the plan (`SamePlan`), the
  parts of several outcomes (`SamePart`) and their plans (`SamePlans`). `PlansAre` says what else the tree
  relies on: no more steps than the threshold, none of them the outcome, no identifier twice, and
  no outcome that the index lists.
- *The tree.* `TreeInvariant`: `Inv` says that every task is of the outcome or of a step of the plan that
  made it, with that step's number and title (`TasksOfPlans`); that a plan makes one task of a step
  and a number has one outcome's task (`MadeOnce`), which is what request keys, the caller's link and
  the listed children have to achieve together; that an index which lists a task lists its
  outcome's (`IndexOfTasks`), so that a plan with an outcome was made when none of that number was known
  (`NoneKnown`); and that without a mixed start the tasks of one number come from one plan
  (`OneMaker`): a second plan could be started only knowing all of them, and then has no
  outcome. Candidates change meanwhile, but neither identifiers nor types do (`SameOutcomes`).
  `OneTaskPerCandidateCorrect` and `TreesWithinBudgetCorrect` follow.

Only model-checked: liveness under fairness, which is beyond TLAPS (`EventuallySettled`, `RunsEnd`,
`InitializationEnds`, `Converges`, `EventuallyExported`), and the violations, which are single
executions. Every other property of a run is a theorem. No module with a theorem declares a
RECURSIVE operator.

## 5. What is left out

- **Events**: audit timestamps and metrics; SQLite lock timeouts and I/O errors; `FeedbackLoopGuard`,
  `ApprovalBinding` and the Universal Inbox assessment.
- **Attended execution**: the mode of `execute()` without a journal; the write guard, whose refusal
  happens before anything changes; payload validation in the Todoist adapter, which refuses
  before the create and is indistinguishable from a lost request. That Todoist creates one task
  per request id is assumed, as `FakeTodoistAdapter` does it and the live adapter relies on it by
  sending `X-Request-Id`. Tasks are edited in the model but not deleted. The readback is compared with
  the response to the write, both fetched after the create; that it agrees with the *authorized*
  content is stated nowhere in the code and not here.
- **Orchestrator**: runs at once (the store is a dictionary of one process and its runs are
  sequential); edits by others; the values of backoffs; the legacy orchestrator; the digests and the
  event sink of the journal; operations that ask for no readback (`requires_readback=False`, which
  the command factory never builds); a simulation that fails because a provider has no port; two
  authorizations of one command whose idempotency keys, which leave the authorization out, meet at
  the provider. Of the adapters, payload and schema validation.
- **Quick initialization**: the other entry points of `bootstrap.py`, which read less; malformed documents
  are one step (`Contradicted`), whatever is wrong with them.
- **Reconciliation**: two commands at once; the mirroring of steps; the second key of a resolved
  blocker; a workspace without the Delegated Work table; rewritten comments (an event is known by the
  comment's identifier). A task that cannot be read uses up the bound on failures.
- **Fields**: a restart of the process, which loses the state; authorizations that do not match,
  which are refused before anything changes; threads; a provider that is missing for good.
- **Outbox**: loss of power (the directory is not synced), temporary files left by a crash.
- **Planning and task tree**: that the comparison with the index has a layer that looks at section and
  item only, whatever the workstream (planning/execution.py:380-385), and layers that look at more: `Matches`
  takes the three together as one source reference, which no candidate lacks; how texts become candidates and when two titles resemble each other;
  the legacy `plan()`; explanations, rationales and digests; the section move and compensation of a
  tree; tasks that people edit or move (that they complete them is modelled).
- **Components not modelled at all**. Intent memory, release cutover, the comment and delegated
  lifecycle, engines, capabilities, contracts, policies, presentation and scripts keep no
  state between calls: they are functions of the documents and texts they are given, and correct
  in matters of wording, weights and validation. They are most of the package's lines, which is
  why the mapped share of it is small. `PROJECT.json` gives the reason for each. The intent store and
  the commits of a cutover, where the hard behaviour would be, are outside the repository.

## 6. Plan

Done, in this order: events; attended execution; the orchestrator; quick initialization;
execution reconciliation; field reconciliation; capture and outbox; planning and the task tree.
What remains worth doing:

1. The event path's feedback guard and approval binding, composed with `EventProcessor`: an approval
   is bound to a digest, and the provider changes in between.
2. Two reconciliation commands at once over one ledger. The code has no lock for it, and the
   runbook forbids it; the question is what the ledger's rows still guarantee.
3. The tree of tasks under the orchestrator: its retries and readbacks composed with `TaskTree`, so that
   a timed-out child is looked for before it is created again.
4. Reconciliation with step mirroring and the choice of the Delegated Work table.
