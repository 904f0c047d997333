# TLA+ models of The Heat

The Heat is a bot that watches public climate and disaster feeds, has models write drafts about
what it finds, and publishes the approved ones on X. Its production state is one JSON document in a
GitHub Gist; GitHub workflows run the Python bot over it, and a Next.js dashboard lets an operator
edit, approve, reject and reconcile drafts. Beside it the repository keeps SQLite journals for paid
provider work (spending holds, batch submissions, checks) and a transactional command authority that
is to replace the document.

What can go wrong in this program is seldom inside one function. Several processes write one
document without a compare-and-swap, platform calls are not idempotent, answers get lost, runs are
killed, approvals are withdrawn while a run is already acting on them. These modules model that.

Paths below are those of the repository; the Python package is `src/src/`, the dashboard
`src/dashboard/`, the workflows `src/.github/workflows/`.

## 1. Inventory

| component | state it keeps | operations | status |
|---|---|---|---|
| publication (sender): `orchestrator/posting.py`, `cli.py`, `posting/outbox_outcome.py` | its in-memory copy of the document; the publish-ledger row of the attempt | `run_manual_tweet`, `process_due_drafts`, `post_approved`, `_reconcile_publish_ledger`, run start and final save | `Publication` |
| editorial revisions and approval: `editorial/revisions.py`, `editorial/publication.py` | a draft's content and decision revisions, review and approval bindings; retired publication epochs | record, bind, revoke, invalidate, currency checks, `observe_publication_policy` | `DraftRevisions`, `Publication` |
| shared document: `state.py`, `state_schema.py` | drafts, publish_ledger, posted_events, publication_control (and 30 other keys) | read, per-key merge, `write_state` (GET, merge, PATCH) | `PublishLedger`, `DraftRevisions`, `Publication` |
| dashboard operations: `dashboard/lib/state-store.js`, `draft-operations.js`, `app/api/drafts/route.js` | nothing of its own; one PATCH under way | edit, review, approve, schedule, reject, cancel | `Publication` |
| delivery reconciliation: `commands/delivery_reconciliation.py` | the ledger row | confirm with a receipt, cancel | `Publication` |
| draft generation and saving: `orchestrator/draft_save.py` | a new draft | save, arm | its effect, in `Publication` |
| spending journal: `commands/spend_journal.py` | limits, one event list per intent | configure, reserve, dispatch, uncertain, release, settle | `SpendJournal` |
| batch worker: `commands/batch_worker_journal.py`, `batch_journal.py`, `two_bot/batch_transport.py` | leases with fences, the one submission grant, doubts, acknowledgments, adoption | register, acquire, begin, uncertain, observe_ack, adopt; `submit_batch_once` | `BatchWorker` |
| sender outbox: `dashboard/lib/gist-sender-outbox.js` | one entry per publish intent | plan, start attempt, dispatch, observe runs | `SenderOutbox` |
| command route: `dashboard/lib/gist-command-consumer.js`, `gist-write-route.js`, `gist-route-submit.js`, `commands/gist_commands.py`, `scripts/gist_command_inbox.py` | inbox artifacts, results files, settled runs, route record | seal, dispatch, admit, fetch, consume, acknowledge, activate, roll back | `CommandRoute`; its effect on publication is the constant `Serialized` of `Publication` |
| command authority: `commands/sqlite_authority.py`, `reducer.py`, `postgres_authority.py` (abandonment) | drafts, command intents in order, results | accept, consume in order, abandon | `CommandAuthority`, `OperatorDecisions` |
| batch results and collection: `commands/batch_result_journal.py`, `two_bot/batch_collector.py` | retained result files, the chosen one | record, evaluate, review | `CandidateChecks` |
| check journals: `commands/check_journal.py`, `check_execution_journal.py`, `two_bot/check_executor.py` | check sets, attempts, observations, receipts; the job's lease | intake, begin, complete, record, lease, execute | `CandidateChecks`; the domain and media journals are planned |
| scheduler and staging: `orchestrator/scheduler.py`, `staging.py`, `telemetry.py` | batches, worker stages, the circuit breaker's counts, the staged copies | dispatch, await, settle, promote, discard, late evidence | `Staging`, `StagedMerge` |
| queues: `orchestrator/triage_queue.py`, `world_cache.py` | bounded queues, inside one thread | drain, merge | not modelled |
| job recovery and writer fencing | job attempts, writer generations | recover, fence | planned |
| two-bot pipeline: `two_bot/pipeline.py`, `negative_cache.py`, `retry.py`, `memory.py` | caches, retry rows | kill, retry, merge | planned (caches), otherwise data |
| PostgreSQL authorities and projections | mirrors of the above | the same operations as stored procedures | abandonment in `CommandAuthority`, otherwise not modelled |
| feeds, scoring, media rendering, voice, evaluation, previews, read-only pages | none, or data | | not modelled |

How they interact. A bot run reads the document once, works on its copy for minutes and writes it
back merged; between its read and its write the dashboard may have written. A manual publication
starts at the dashboard: the approval is written with a fresh publish intent, then the workflow is
dispatched with that intent, and the run rechecks everything before it sends. An automatic one
starts at a run that saves a reviewed story armed under the current publication epoch; the hourly
run sends it when due. Both go through `post_approved`, which writes the intent durably before the
platform call. A dashboard
command of the serialized route travels as an artifact of a workflow run of its own, until a drain,
which is part of a bot run, consumes it. Spending, batch and check operations are single SQLite
transactions, but the workers that string them together talk to a provider between them. Inside one
bot run, sources work in threads on private copies of the document, which the main thread promotes
one after the other.

Hard behaviours, with their lines, are the "hazards" of PROJECT.json: the unguarded PATCH
(`state.py:1737`), decisions on a stale copy, death between the durable intent and the answer,
silent outcomes, edits and re-approvals after a silent outcome, merges of stale rows, retired
epochs that come back, allowances across midnight, lost grants, leases that run out in mid-call,
misfiled acknowledgments, result files that disagree, paid checks whose grant or answer is lost,
commands that arrive late, twice, after their abandonment or under another activation, drains that
die between applying a command and recording it, and worker threads that outlive their budget.

## 2. Plan

Done, in this order:

1. `SpendJournal`: spending holds; its proofs are the first half of `SpendingProofs`.
2. `DeliveryOutbox`: the abstract promise of publication; proofs in `PromisesProofs`.
3. `PublishLedger`, `DraftRevisions`: the pure operators of the ledger and the drafts; the lemmas
   about them are in `PublicationProofs`.
4. `Publication`: bot, dashboard, operator and X over the shared document, which EXTENDS 3 and
   implements 2; `PublicationInv` (its inductive invariants) and `PublicationProofs`.
5. `BatchWorker`: the paid batch submission, over the journal 1, which it EXTENDS; the second half of
   `SpendingProofs`.
6. `SenderOutbox`: the dispatch entries of approvals and the runs they start; `SenderOutboxProofs`.
7. `StagedMerge` and, over it, `Staging`: the merge of staged documents, and the scheduler's workers;
   `StagingProofs`.
8. `OperatorDecisions`: the abstract promise about operators' requests; proofs in `PromisesProofs`.
9. `CommandAuthority`, which implements 8; `CommandAuthorityProofs`.
10. `CandidateChecks`: from a batch's result files to the paid checks of a candidate;
    `CandidateChecksProofs`.
11. `CommandRoute`: the serialized route, which implements 8 too; `CommandRouteProofs`.

Next, most important first:

12. `NegativeCache`, retry rows and the other merge rules of `MERGE_SPEC`: algebra of the merges
    (idempotent, no resurrection), as operators over bounded inputs and as theorems.
13. Job recovery and writer fencing; the domain and media journals.
14. Compositions: `SenderOutbox` with `Publication`, of whose `requested` (a dispatch may start any
    number of runs) it is a refinement, and `CommandRoute` with `SenderOutbox`, whose drains are one
    process.

Of the properties the runs check, every safety property is also stated by a theorem; what is left to TLC
alone is in section 5.

## 3. The modules

### SpendJournal

`spend_journal.py` keeps an append-only event list per intent and derives everything from it.
`rec[i]` is what `_records` derives: state, reserve, the times of the first and last event, the
bill. `limits` is the configured allowance (a set, so that a second configuration is visible),
`latest` the journal's clock. `grants[i]` counts the answers `dispatch_granted = True` and is the
only ghost. There is one action per action of `apply`. A repeated request that the code answers
without writing is a stutter. Time is a day number and a month is `DaysPerMonth` days, which
is all `_totals` looks at.

### PublishLedger and DraftRevisions

A ledger entry is a primary row with the other known attempts nested in `attempt_conflicts`. The
merge flattens, deduplicates and re-elects, so the entry is modelled as the set of its attempts and
the primary as a function of the set (`Primary`). `MergeAttempts` is `_merge_publish_ledger`,
`UnresolvedAttempt` the judgement `has_unresolved_publish` passes on one row.

A draft carries a content identity (revision and text), a decision revision, a review binding and an
approval binding. The operators are the functions of `revisions.py` and `_merge_draft_pair`. Text
is a model value, so a fingerprint is the text itself. The editorial policy fingerprint, media and
evidence are left out of the identity; the effect of a changed policy is a run that refuses
(`ManualSkip`, `HoldBeforeTransport`).

### Publication

| variable | code |
|---|---|
| `gist` | the document: drafts, publish_ledger, posted_events, publication_control |
| `run`, `mem` | the bot process: where it is, its release variables, its copy of the document |
| `patch` | its PATCH under way: the document its GET saw and the one it will write |
| `dash` | a PATCH of the direct dashboard route, likewise |
| `requested` | dispatched manual publications; a dispatch may start a run at any later time, more than once |
| `posts` | what X published |
| `lost`, `erased` | ghosts: some PATCH replaced a document other than the one it had read; the events whose attempts one replaced unread |

A run goes `StartRun` (read, observe the policy, repair from the ledger), then `work`; a claim is
`Claim` (the row and the draft in memory), `ClaimGet` (write_state's GET, the comparison with the
draft the run decided on, the merge), `ClaimPatch`, and `send`. There the answer is silence
(`SendSilent`: published or not), a receipt, or a proven refusal; or the last live checks hold the
draft. The final save is tried twice (`SaveGet`, `SavePatch`). A write may fail having been applied
or not, and `Crash` and `CrashAfterPatch` kill the process anywhere. The release variables `rel` are
read anew by each run, so every pattern of switching automation off and on, and of new epochs, occurs.

`Serialized` chooses the dashboard's route. FALSE is the direct route, check now and PATCH later.
TRUE is the command route, whose consumer runs in the bot's own concurrency group: an operation is
applied between runs.

Bounds: `MaxRev`, `MaxDec`, `MaxIntents`, `MaxAttempts`, `MaxFaults` (failed reads and writes and
crashes together).

Nondeterministic instead of modelled: whether an armed draft is due, the spacing between posts,
fire history, safety verdicts, source freshness, the daily cap. Left out: attached media
(`posting.py:336-352`), the audit trail, retention trims of drafts and ledger, the tie-break of equal
timestamps by fingerprint (a touch is newer than every copy), bulk rejection (a sequence of
`Reject`), operations that only refresh `updated_at`, receipts for other content (they add an error
note). Trusted: X's contract that a rate limit or a complete refusal proves no post, as
`outbox_outcome.classify` reads it.

### DeliveryOutbox

The promise, without drafts, approvals and documents. An attempt is admitted durably only when every
earlier attempt of its event is durably known not to have been sent. Only an admitted attempt
is sent, once. A record settles an attempt as sent only if it was, as not sent only if it was not
and cannot be any more. `Publication` instantiates it as `Outbox`, reading `open`,
`sent` and `notSent` off the document and `flight` off the process between its claim and its call.
It is checked through that refinement (`publication_outbox`), and its own promises are proved.

### BatchWorker

`batch[j]` is the rows of the five worker tables about one job; `work[w]` is how far a worker is in
`_attempt_once`; `created` is what the provider made. The journal's operations are operators of one
transaction each, with the caller's time. The worker's steps call them and may lose the answer: a
lost answer to `begin` is the branch in which the operation happens and the worker goes on to
`doubt`. `Doubt` is `_uncertain` of the transport, `Reconcile` the current owner adopting a retained
answer, `LateAck` an acknowledgment that arrives late or is filed under another job's grant, `Die`
the end of the process (the collector, which only leases, is `Lease` then `Die`). `Spending` is
anyone else using the spending journal directly. `Register` writes the job and its hold in one
transaction; it may find the identical hold already there (`ReservedAlready`), which the journal answers
without writing. The worker uses the journal's own operators, so everything proved of the journal holds of it.

A plan's context is not modelled: a changed one is an operation refused, and any operation may be.
An acknowledgment is either a batch identifier or a member of `Garbage`; two byte strings that name
the same batch count as one answer. Leases and the spending journal share one clock, whose unit is
the lease's; allowances are exercised in SpendJournal's own run. `Workers` may share an owner name,
which the code cannot tell apart.

### SenderOutbox

| variable | code |
|---|---|
| `outbox`, `order` | the entries of the results file, and their order in it |
| `mode`, `activation` | the route record: serialized or not, and its last activation; an entry keeps the one it was made under |
| `config` | the jobs' environment: the variable says legacy, or serialized with the route's credential refused or given |
| `approved`, `ledger` | what the outbox reads of the state: does it still approve the draft under this intent, what does the publish-ledger row say |
| `runs` | the `manual_tweet` runs of `bot.yml`, oldest first |
| `drain` | the process in `runSenderOutbox`: its copy of the document and what it has left to dispatch |

`Reconciled` is one turn of `planOutbox`'s loop, its cases split into `Judge`, `Interrupted` and
`GiveUp`. A drain is `Plan`, then for each due entry `Journal` (durable `dispatching`), `Post`,
`Record`, then `EndDrain`. What it still has to dispatch is kept as the set of those entries, taken in
the document's order. A write that fails, applied or not, ends it, and `Die` may at any step.

`Configure` is root changing the variable or its secrets, `Activate` and `Deactivate` the control commands,
each refused under the wrong variable as `applyRouteControl` does. `runSenderOutbox` returns at once unless the
route serves (`RouteServes`), so after a rollback an entry waits: a queued one is not dispatched and a
dispatched one not judged, for as long as the route is off. After the next activation, a drain ends what the
rollback left behind as `route_generation_changed`; if only the variable or the credential was away, drains
go on where they stopped. Nobody clears the entries of a route that is
never activated again. What an operator approves on the direct route in the meantime is a new intent, and
`Publication`'s matter.

`Post` chooses whether GitHub accepts and what the drain learns: the run's id, an acceptance without
one, a refusal, or nothing.

GitHub's concurrency group keeps one running and one pending run; a new one cancels the pending one
(`Enqueued`). A drain is a job of a run of this group: before the sender's job, after it
(`finishing`), or in a run of another kind. `SenderJob` is `run_manual_tweet` reduced to what the outbox can see:
a claim with or without its outcome, a refusal, or a process that dies with its claim's PATCH on the
way (`Land`). `Settle` is `RUN_SETTLE_MS` having passed; that a PATCH lands within it is the code's
own assumption (`gist-sender-outbox.js:15`).

Bounds: `MaxActivation`, `MaxFaults`. `MaxActive`, `MaxAttempts` and `MaxDispatches` are the code's
constants. Left out: retention of terminal entries, the page limit of the run listing, an approval
that a policy change takes away and a later one gives back, an operator who dispatches the workflow by
hand with the same intent. Trusted: a 4xx answer means not accepted, and a failed PATCH of the results
file has been applied, or never will be, by the next drain's read. A run that completed without being
cancelled is judged at the first drain that sees it (line 92), with no wait for a claim's PATCH still on
its way: the entry may then end as unclaimed and never show the claim, but the state is terminal and
nothing is sent twice.

### StagedMerge and Staging

`StagedMerge` is `staging.py`'s three-way merge as operators: a document has counter fields (`_plan_dict`),
a capped log, a windowed log of candidates by key, a generic list and queues that are appended
(`_plan_list`, `_plan_capped`, `_window_edit`, `_queue_delta`). An edit is what a runner does to its
copy; `MergeDocuments` says whether a stage may be promoted and what the live document becomes.

| variable of `Staging` | code |
|---|---|
| `today`, `timeouts` | the wall clock's day; `source_health`'s timeouts in a row, which open the breaker |
| `main` | where the main thread is in `run_stage1_sources` |
| `live` | the live document |
| `batch` | the open `Batch`: its base snapshot and the days live edits since may carry |
| `stage`, `verdict` | each source's `WorkerStage` and thread; what the main thread observed of it |
| `late`, `attached` | evidence a worker left after its stage was closed, and what of it reached the run's report |
| `serial` | ghost: the document the promoted runners would have produced one after the other |

A worker's edits are one step, at the stamp of its completion: nobody reads the private copy earlier. The
edits still carry the days between the worker's start and its stamp. A budget is counted in ticks
left; a tick that brings it to 0 lets the main thread time the worker out, and the worker goes on,
hangs, or notes that it is late (`ExecuteDiscarded`, `NoteLate`). Serial runners are settled one by
one, the pool's are awaited together and settled in the order of their declaration; both loops run over
positions of these lists. Left out: a runner's own `TimeoutError`, which the code reads as its budget's;
an unchanged re-observation of a candidate, which is not merged (the candidates log is therefore
compared by key); nested documents below the fields; and the content of records.

### OperatorDecisions

The promise: a request takes effect at most once, whole, on exactly the copies its operator saw, and
never once it was closed. `copy`, `applied` and `closed` are all its state, and one step may apply
several requests about different drafts, as a drain does with one PATCH. `CommandAuthority` and
`CommandRoute` each instantiate it, reading `applied` and `closed` off their results.

### CommandAuthority

| variable | code |
|---|---|
| `drafts` | `authority_state` |
| `intents` | `command_intents` in sequence order; a closure is what `abandon_submission` inserts for a request never accepted |
| `results` | `command_results` |
| `sent`, `abandoned` | requests an operator sealed, which may arrive any time and any number of times; those their operator was told are abandoned |
| `revoked`, `now` | the operators the resolver no longer knows; the clock |

`Accept`, `Consume` and `Abandon` are one transaction each. `Decided` is the reducer's draft actions over the
operators of `DraftRevisions`, shared with `Publication`. A rolled-back transaction leaves no trace and is no
step. Left out: the reducer's other actions (media, sources, candidates, generation), roles beyond a
revocation, the read-only hold on imported drafts, outbox rows and leases of deliveries.

### CandidateChecks

One job, one candidate. The journal variables are the tables (`receipts`, `choice`, `packet`, `grant`,
`charged`, `observed`, `verdict`) with the lease of the worker journal; `run[e]` is where a process is in
`execute_check_once`; `calls` is a ghost that counts executions. A file either says nothing complete
or has a meaning, and two files may share one; two meanings are a disagreement. Between a process's
transactions others act, the clock moves, a file arrives, a review is recorded or the batch itself
comes into conflict (`AckConflict`, of `BatchWorker`). An executor whose answer to `begin` is lost
stops with a grant nobody calls on: the call is then never made, which the code prefers to paying
twice. For the same reason, and because a retained observation whose context has changed may stay
without a verdict, no liveness is claimed. Left out: the journals' capacities, bytes changed in place,
requests a caller makes up, the content of prompts and answers.

### CommandRoute

| variable | code |
|---|---|
| `day`, `variable` | the calendar; the repository variable `THEHEAT_GIST_WRITE_ROUTE` |
| `commands` | sealed commands, in the order of `requested_at`, with the copies they are about and the activation they were sealed for |
| `runs` | the runs of `gist-commands.yml`: dispatched, with an artifact, over without one, artifact deleted |
| `gist` | the state Gist: draft revisions, route record, results and settled runs |
| `feedback` | the feedback Gist's results |
| `drain` | the process: its view of the variable, what it fetched, what is left of it |

A drain is `Fetch` (the inbox scan: any part of the listing may fail), `Consume` (all state commands in
order in one PATCH, with the pruning of old results), a `ConsumeFeedback` per feedback command, and `Acknowledge`
(deletions and settled runs on a fresh read); `Die` anywhere. A PATCH fails applied or not.
Bulk commands take effect on all their targets or none. `taken` and `ended` are history.

Assumed: a PATCH whose drain died is applied or lost before the next drain reads; a drain reads its clock
once; the scan is atomic. Left out: what keeps a command pending whatever the drain does (keys,
credentials, a full results file), envelopes that do not open, ids used twice, delivery
reconciliations, generation numbers, status queries, the pruning of settled runs beyond the horizon,
a failed read of the settled runs, and PATCHes of the bot's own job, which this group excludes while
a drain runs. Times are scaled and keep their order: a command lives up to a day, its run is scanned
for somewhat over a day, and its result outlives every scan that can still show its artifact.

## 4. What the runs check

| run | question | bounds | distinct states |
|---|---|---|---|
| `spend_journal` | Do allowances hold over any order of holds, late bills and clocks? Is a grant given once and charged? Does an overrun stop all spending? | 3 intents, 2 jobs, amounts 0-2, 3 days, months of 2 days, two limits | 150,614 |
| `publication_serialized` | Over the serialized route: does every post have its evidence, does a retired epoch stay retired, does a receipt in the ledger reach its draft? | 1 draft, 2 epochs, 2 attempts, 1 fault, fairness | 363,166 |
| `publication_outbox` | Does the detailed system implement the outbox? | 2 drafts of one event, 2 attempts, 1 fault | 999,903 |
| `publication_edits` | Over the racing route: can edits, re-reviews and re-approvals after a silent outcome publish an event twice or without evidence, is what is sent authorized, do merges keep evidence and revive nothing? | 2 texts, 2 revisions, 2 intents, 2 attempts, 1 fault, a bot and a dashboard PATCH in flight at once | 2,981,016 |
| `reconciliation_conflict` | Can an operator always confirm an attempt that did reach X? Expected violation, see section 7. | 2 attempts, 1 fault | |
| `batch_worker` | One batch per job, both journals agreeing, nothing reported and taken back? | 1 job, 3 workers of 2 names, 3 leases, 2 answers | 256,586 |
| `batch_conflict` | Is a reported batch ever evidence of another job? | 2 jobs, 1 worker, misfiled answers | 291,265 |
| `sender_outbox` | Is a dispatch repeated, or given up, while an earlier one may still publish? Do the attempts count every run asked for? Does every entry move on once the route serves for good? | 1 intent, 5 attempts, 2 activations with the rollbacks between and after them, 3 configurations, 3 faults, fairness | 856,287 |
| `staging` | Is the live document what a serial run of the promoted sources would leave? Is a refusal justified, a late worker harmless, and does the stage end with every source reported? | 1 serial and 2 concurrent sources, 2 workers, budget 1, logs of 2 rows, window of 1 day, 2 days | 399,403 |
| `command_authority` | Does the authority keep the decision promise through late, repeated, reused and abandoned requests? Are results in order, approvals of what was seen? | 2 drafts, 3 ids, 3 requests, 1 operator, 1 epoch, a clock of 2 instants | 1,640,479 |
| `candidate_checks` | Is each paid check made at most once, in order, charged, on the chosen text? Do records stay, does a disagreement stop everything? | 2 executors under one owner name and a second owner, 3 files (two disagree, one is unusable), an allowance of 3, leases of 1 tick, days of 2, 3 ticks, at the last of which the plan's window ends; symmetric in the processes and in the two files that disagree | 1,212,694 |
| `command_route` | Does the route keep the same promise? Is an artifact deleted, or a run settled, too early? Does a rollback strand what was sealed before it, does every admitted command settle? | 3 scripts of commands on 2 drafts, one resubmitted, lifetime and horizon 1 day, 2 commands per drain, 3 runs, 3 days, 1 fault, fairness | 753,804 |

Why these are enough. Two posts of one event need two attempts; a third adds no new kind of
predecessor, since an entry is judged row by row. One fault is one lost answer or crash, at every
step it can happen at; the second attempt that follows it is fault-free or bound to the same
choices. Two epochs are the retired one and its successor, which is what a stale writer can confuse.
Two days and a month boundary give a hold open over midnight and a bill in a later month; three
intents give an overrun, a hold reserved before it and one that comes after it. The racing
route is checked without epochs, which only the serialized run needs. A third
worker under a second name gives a takeover while two processes share the first fence. The
outbox runs the code's five attempts in full on one intent; what other entries do to it, cancelling its
pending run, `EndRun` does too. That the cap on dispatches per drain starves no entry is not checked:
with one intent nothing is ever deferred.

Two concurrent sources are the least that can conflict, and a serial one before them changes the base
they start from; logs at a cap of 2 overflow with one promoted stage after another, and a window of one
day expires rows at the only midnight. Three requests are two rivals for one view and one that is
abandoned or reuses an id. Two processes of one owner hold one fence together while a third takes the lease
over; three files give a disagreement and an unusable one, in any order of arrival and review. A route's
scripts hold rivals, a bulk command, feedback, and a rollback with a new activation; a run listed on its
last day, a command that expires on it and a result pruned after it all meet in three days.

Over the racing route a write may replace what it has not read: `write_state` documents that it is no
compare-and-swap, and `state-store.js:1171` that its race remains. What such a write loses is lost, and
no property denies it. `AtMostOncePerEvent` and `EvidenceBeforeEgress` bound how far it reaches: only an event
whose own attempts were replaced unread (`erased`) is exempt, and an overwritten edit, approval or row of
another event is no excuse. The properties about authority are stated up to `lost`, since a lost approval or
rejection is exactly what they speak of. Over the serialized route neither exemption ever applies: the
theorem `SerializedPublishesOnce` says so for the two about posts.

`CHECK_DEADLOCK FALSE` is set where the system may really stop: all intents used, all bounds reached,
all drafts published. `sender_outbox` does without: its configuration can always change.

### Fairness

`ReceiptReachesDraft`, `EveryEntryMovesOn`, `StageEnds` and `EveryCommandSettles` need it. In the first, a run that has started goes on or dies: weak fairness of its
steps (GitHub runs the process or kills it after its timeout). The hourly automatic run starts again
and again: strong fairness, because a pending run of the concurrency group may be replaced by
another one (`bot.yml:54-59`), so that a start is not continuously possible. Nothing is assumed of
the dashboard, the operator or X. Faults are bounded by `MaxFaults`: they may strike any run, but not every
run for ever. The second has a premise: that the route in the end serves for good (`<>[]RouteServes`), since a route
rolled back keeps its entries waiting. Its drains
(`DrainStep`) are weakly fair: every run of the group drains before and after its own job, and the
hourly schedule starts runs without end. Nothing is assumed of the runs they dispatch. The same
schedule drives the drains of `CommandRoute`: they begin and end again and again, which is weak fairness
of `DrainStep` written as a condition on states, and nothing is assumed of GitHub's runs, so the property
speaks of admitted commands. In `Staging` the main thread is scheduled and time passes; nothing is
assumed of the workers, which may all hang. Other runs assert safety only and use no fairness.

### Mutants

Every property has a mutated definition, a plausible bug of the very code (a dropped guard, a
missing check, a stale winner), kept beside the definition it replaces as `Mutant...`. Replacing the
definition by it must violate the property.

## 5. What is proved

TLAPS proves the following for all values of the constants that meet the modules' assumptions. Each
inductive invariant is named: the property alone is seldom inductive.

**Publication** (`PublicationInv`, `PublicationProofs`). Types first: `TypeCorrect`, over `PubTypeOK` and
`PatchIsMerge`, which says that a PATCH under way carries the merge of the document its GET returned.
Properties of the racing route are proved with the exemptions they are checked with.

* `PublishedAtMostOnce`: X has at most one post of an event. `EgressLeavesEvidence`: every post is an open
  attempt or a receipt of the document. Both from `LedgerInv`, which relates three sets per event: the
  document's rows, the rows of the run's copy, and X's posts. All rows of one attempt are about one
  call, at most one attempt is live, every post is live in the document, and the copy holds no live
  attempt that the document lacks, but for the claim being written. It says so of every event outside
  `erased` on its own (`LedgerAt`), so that an overwrite of one event's rows leaves the others' standing. While a claim is being written no
  earlier attempt is live (`run.prior`); once it is durable and until X answers it is open and unpublished.
* `AuthorizedWhenSent`: what is sent is authorized by the document as it then stands.
  `NoAuthorityRevived`: only a new decision makes an approval current. From `ClaimAuthority` (the run's
  claim carries the authority of the draft it decided on), `DashAuthority` (a dashboard PATCH is a later
  decision) and `MemAuthority` (the copy's authority is the document's, or has been superseded by a
  greater decision revision, which is what the merge elects).
* `NoEvidenceLost`: a written document keeps every attempt, receipt and cancellation that either
  side of its merge knows. It rests on the lemmas on `MergeAttempts` over entries of any size:
  `MergeKeepsReceipts`, `MergeKeepsOpenAttempts`, `MergeInventsNothing`.
* Over the serialized route (`ASSUME Serialized`): `SerializedPublishesOnce`, one post per event and its
  evidence with no exemption, from `LedgerInv` and `RouteInv` (no dashboard PATCH is under way, and the document
  stays what the bot's GET returned, so nothing is ever in `erased`); `RetiredStaysRetired`, from
  `RetiredInv`; and `PublicationImplementsOutbox`: every step is a step of `DeliveryOutbox` or a
  stutter, over `TypeInv`, `LedgerInv` and `RouteInv`. So the promises of the outbox hold of the detailed system.

**The promises** (`PromisesProofs`). `AtMostOnceDelivery` and `PublishedIsRecorded` of `DeliveryOutbox`:
`OutboxInv` adds that an attempt in flight is open and unpublished, that an attempt has one outcome,
and that at most one attempt of an event is live. `OneWinner` and `ClosedForGood` of
`OperatorDecisions`: of two requests made from one view at most one takes effect, and a closed one never
does. `WinnersInv`: what took effect on a draft was about an older copy than the present one.

**Spending and batches** (`SpendingProofs`).

* `GrantSafety`: one grant per intent, and the granted are the charged. Inductive with the shape of records.
* `WithinAllowance`: the foreseen charges of a day, a month and a job fit every configured allowance at
  any time the journal may next be asked at. `ExposureInv` says so of all later times at once, because a
  later query moves charges to other days. It rests on lemmas on the sums: what one record's
  change does to the sum over a finite set, and that a day's, a month's and a job's sums only
  lose foreseen parts as time passes.
* `OverrunLatch`: after a bill above its reserve nothing is reserved or granted.
* `BatchCreatedOnce`: one provider batch per job, always charged; `BatchInv` joins the journal's
  invariant with `SubmitInv`: a worker at `granted` holds the job's only grant, and nothing was created.
* `DoubtReachesSpending`, `ReportedUndisputed`, `ViewOnlyAdvances`, `BatchTyped`: doubt is shared by both
  journals, a reported batch is evidence of no other job, a job's view never goes back, types. From
  `JobsInv`, which says of each row what its grant, doubt, adoption and acknowledgments say of each
  other and of the reservation; the step lemmas list the seven ways an operation can move a row (`Moves`).

**Checks** (`CandidateChecksProofs`). `CheckedOnceInOrder` from `ExecInv` (a process about to call holds the
stage's only grant); `ChecksOfTheChoice` and `NothingOnDispute` from `ChoiceInv` (the packet is of the
meaning the files agreed on); `RecordsStay`; and `ChecksTyped` from `RecordsInv`, which also says that the
charged stages are exactly the paid ones granted.

**Authority** (`CommandAuthorityProofs`). `AuthorityImplementsDecisions`: a refinement of
`OperatorDecisions`, by `JournalInv` and `AppliedDecides` (an applied command found every target as its operator saw it and
moved it on). `ConsumedInOrder`; `AuthorityTyped`; `ApprovalsAsSeen`, assuming that no draft starts with a
manual approval, since the property speaks of this authority's requests (the run's initial states satisfy it).

**Route** (`CommandRouteProofs`). `NothingDropped`, `Stranded`, `RouteTyped` and `RouteImplementsDecisions`.
`RouteInv`: what a Gist recorded of a command it keeps until the retention is over, when every run
the command may still be of has left the scan; so what a drain fetched without a result was never
recorded. The last theorem also needs what one PATCH that applies many commands does: `Done`, an
induction over the documents between two commands. The assumption `Horizon <= Retention + 1` is what
makes pruning safe; the code has a scan horizon of 24 h 15 min (`gist_command_inbox.py:61`) and a
retention of 3 days (`gist-command-consumer.js:32`).

**Sender outbox** (`SenderOutboxProofs`). `NeverResentBlindly` and `EveryRunJournaled`, for any intents and any number of
runs. `SenderInv`: each run is one counted attempt of its entry, only the last attempt's run can still
claim, an entry queued again is unsent, and between two of its writes a drain holds the outbox as it
last wrote it.

**Staging** (`StagingProofs`). `LateNeverPromoted`: main thread and worker agree on who was late, by
`StageInv` (one dispatch per source, settled only when its future was observed done; both judge by the stamp).
`StagesTyped`: types, and the cap of the errors log through any edits and merges, by `LogsInv`. The
assumptions on scripts are what the runner gives a worker: edits of known kinds, observations dated
between its start and its stamp. `NothingRefusedWithoutCause`: promotion fails only over a field that
a runner promoted before it from the same base changed too. `CauseInv`, five parts:

* `FlagsInv`: what the flags of an open stage say of its deadline, so no runner observed in time is cancelled;
* `OpenInv`: whom the main thread still has to settle, all of them on the base of the open batch;
* `BatchInv`: the live document is something edits of the batch's days can have made of its base (`Moved`:
  an errors log that is full or still begins with the base's, a candidates log as observations between
  the two days leave it, reports only appended);
* `BlameInv`: a field in which live document and base differ was changed by a promoted runner of the batch;
* `RefusedInv`: the property, with the edits the refused runner had made.

`BatchInv` is what makes every merge of logs succeed. It rests on lemmas on the helpers, by induction over
positions (`UpTo`): what `Survivors` and `KeptHead` pick (`SurvivorsOK`, `KeptHeadOK`), that `WindowEdit` and
`CappedEdit` recognise every such log, and that the merge of two of them is one again (`WindowedMerge`,
`CappedMerge`, `GenericMerge`, `DocumentsMerge`), as is a copy with a script replayed (`ReplayMoves`).

`PromotedInOrder`: whatever order the workers end in, the live document is what a serial run of the
promoted sources would leave (`LiveIsSerial`). `SerialInv`, besides the invariants above:

* `DocsOK`: live and serial document are `Alike` (equal, except that an event of the run may carry another
  day or stand at another place), and the live one is the batch's base with exactly the error rows of
  promoted workers after it, its older candidates in their order;
* `Own`: a worker's edits are those of a script of its own source;
* `QueueOK`: the queue rises in the order of declaration, and holds no row of a source still to be settled.

The argument has two halves. The edits of a worker make the same change of any document they are made
in (`EditsMake`, by induction over the edits): rows to append, keys seen, counts to add. And a merge makes
just that change of the live document, though it sees only three documents and no edits (`MergedAsMade`).
For the errors log the merge has to tell what was dropped at the cap from what was added
(`ErrorsMerge`): both sides may have filled the log, and it counts only that the last rows agree
(`SameEnd`). For the candidates it is that of the rows from before the run the merge keeps what
both sides still have, and of the run's keys what either has (`SeenMerge`).

This needs `RowsAssumption`, which no other theorem uses. No two error rows are equal: each has its source,
a time in microseconds and a message (`state.py:1943-1951`), and `_plan_capped` could not tell equal ones
apart. A queue row has its source. And the run is over before an event it saw leaves the window
(`MaxDay <= Window + 1`): the window is 7 days (`state.py:2298`), a runner has 120 seconds.

The theorems assume what the constants' ASSUMEs say, which TLC evaluates in every run, and the two
hypotheses named above.

Model-checked only: the liveness properties under fairness, `ReceiptReachesDraft`, `EveryEntryMovesOn`,
`StageEnds` and `EveryCommandSettles`, which are out of the provers' reach, and the expected violation of
section 7. Induction over
data is done by hand where a proof needs it: by a least counterexample among the naturals, or by the
existence of a recursive function with its equations (`StagingProofs`, `CommandRouteProofs`), which is
why the models recurse by functions over positions and not by operators.

## 6. Not modelled

The planned components of section 2, and what section 3 lists as left out of each module. The SQLite and PostgreSQL variants of the document store, which
replace the race by a transaction. Feeds, scoring, rendering and voice, which are functions on data
with little control. The stored procedures of the PostgreSQL authorities, which mirror the journals
modelled here. Security of the route (signatures, tokens) is not a subject of these models.

## 7. Disagreements between code and documentation

`delivery_reconciliation.py` says (lines 5-7, 11-12) that an unknown attempt stays unknown until its
receipt is supplied and that an exact later receipt may still confirm it. Line 161 refuses every
decision on an entry that has `attempt_conflicts`. An earlier attempt proven not sent stays in
the entry as such a conflict when the draft is tried again; if the retry is silent and did reach X,
the exact receipt is refused. The run `reconciliation_conflict` shows the sequence: attempt, rate
limit, approval again, attempt, silence, and no decision possible. The code
shows the refusal as a hold of its own (`inspect`, lines 127 and 142: `attempt_conflicts_require_review`), and a
fixture expects it for a conflict that is itself unknown (`w14_delivery_reconciliation_vectors.json:406-410`).
Neither covers a conflict that is only a proven not-sent row, which leaves nothing to review. Nothing is published twice; the
draft stays blocked until the document is repaired by other means.

## 8. Running

    tlc -workers 2 -config PublicationEdits.cfg MCPublication.tla
    tlapm CommandAuthorityProofs.tla

PROJECT.json lists every run, mutant, theorem and, for each definition, the lines it models.
