# Scani in TLA+

Scani is a portfolio tracker: a TypeScript monorepo with an api, a worker, a
data provider, a web app and the packages they share. This directory models the
parts of it whose correctness depends on what happens at the same time as what,
or on long sequences of legal calls: the jobs users start, the jobs that start
themselves, the outbox that carries committed events to browsers, the rebuild of
portfolio history, the review of transfers and the cost basis. Paths below are
relative to `src/`.

## Inventory

| Part | State | Operations | What is hard, and what must hold |
|---|---|---|---|
| User job rows (`packages/business/domain/src/repositories/UserJobRepository.ts`) | one row of `user_jobs` per job id | thirteen guarded statements | every caller writes from its own idea of the job; a cancel stands, the first verdict stands, a completed row is not dead |
| Enqueue (`packages/infra/queue/src/producer/bullmq-enqueue-service.ts`) | none of its own | mirror row, evict, add, check, deadline, compensation | five store calls, any of which can fail, be overtaken or land after the deadline; a receipt means work |
| User job processor (`.../consumer/user-job-processor.ts`) | the attempt's place | gate, active, progress, completed, failed | attempts overlap after a stall or a hand-back |
| Worker client (`.../consumer/worker-client.ts`) | jobs in flight, cron semaphore, dead-letter queue | run, failed listener, close, hand-back | the listener runs after the queue has moved on |
| Jobs router (`apps/backend/api/src/presentation/routers/jobs.ts`) | none | retry, cancel, remove | two stores, two statements, no transaction |
| Orphan reconciler (`apps/backend/worker/src/processors/reconcile-orphaned-user-jobs.ts`) | none | find, ask, mark dead | each answer is stale when the next is asked for |
| BullMQ (external) | one entry per id: state, lock, attempts, stalls | add, take, commit, stall, promote, trim | `add` onto an occupied id does nothing |
| Outbox (`packages/business/domain/src/services/outbox`, `OutboxEventRepository.ts`, `apps/backend/worker/src/outbox`) | `outbox_events`, `kicked`, the abort signal | append, kick, drain, mark, prune, stop | at least once, in order, nothing lost; two workers overlap during a deploy |
| Advisory lock (`packages/infra/db/src/advisory-lock.ts`) | a database session | try, assert, release | the session can die without its holder noticing |
| Deadline (`packages/infra/deadline`) | none | `withDeadline` | what timed out is still running |
| Job scheduler (`.../producer/job-scheduler.ts`) | schedulers in the queue, a fire record | upsert, reconcile, replay | machines of two versions boot side by side; no due run is lost or doubled |
| Scheduled groups (`.../consumer/scheduled-job-group.ts`, `scheduled-job-processor.ts`) | saved progress of a group | run steps, save, lock, deadline | a timed-out step is still running; attempts overlap; a crash between step and save |
| History backfill (`packages/business/jobs/src/user-jobs/portfolio-history-backfill.ts`, and the worker's processor) | job ids, requested windows, saved progress | coalesce, absorb, defer, retry, resume | no stale day is forgotten |
| Portfolio rollup (`packages/business/domain`, `RollupPortfolioValueDaily`) | one row per user and day | read the ledger, write the days | two rollups of one user: a row must not go back |
| Transfer review (`TransferReviewService.ts`, `LinkTransferPairsUseCase`, ...) | answers, groups, arrivals, holdings' anchors | resolve, reopen, part, unlink, bulk, rules, match | transactions that overlap; what an answer wrote must be withdrawn with it |
| Cost basis (`CostBasisService.ts` and its matching rules) | lots of one portfolio | walk a ledger in order | money must be neither lost nor made; two jurisdictions' rules of identification |
| Resource locks (`packages/infra/queue/src/locks`) | a lease per key | acquire, release | release does not name the holder |
| Cron semaphore (`.../consumer/semaphore.ts`) | holders, waiters | acquire, release | admission next to user jobs |
| Other domain services (pricing, household, payments, returns, ...) | SQL tables | one transaction each | arithmetic and queries rather than interleavings |
| Api, data provider, clients, importers, frontend | caches and forms | requests | I/O, parsing and presentation |

How they interact: the api's enqueue writes the row and then the queue; the
worker takes the job from the queue and writes the row before it tells the
queue; the failed listener writes the row after the queue. The owner's
mutations write both, in two orders: retry the queue first, cancel and remove
the row first. The reconciler reads the row, asks the queue and writes the row.
No transaction spans the two stores. The outbox is read and marked by one
worker at a time, as far as the advisory lock says so, and is woken over Redis.
The scheduler parks occurrences in the same queue; a worker runs an occurrence
as a group of steps, each behind an advisory lock of its own. The nightly group
contains the matcher of the transfer review and, after it, the rollup. Every
change to the ledger asks the queue for a rebuild of history, and a rebuild and
the nightly rollup meet at the user's rollup lock.

`PROJECT.json` lists every component with its status, and every hazard at the
line where it bites.

## Plan

Done: `UserJobRow`, `UserJobs`; `OutboxDelivery`, `Outbox`; `Schedules`;
`JobGroup`; `Backfill`; `LotMatching`, `Lots`; `TransferReview`. Each component
has a module of proofs; of the cost basis three properties have none, of the
transfer review one (below).

Left, in the order in which they would say most:

1. The balance engine (`engine/balance-at.ts`, `lib/balances/drift-rows.ts`,
   `DriftLedgerService`): balances at an instant, residual steps, and the drift
   rows that repair a ledger; a repaired ledger adds up to the anchor, and
   repairing twice changes nothing.
2. The declared pairs of the transfer review, which share its rows.
3. The worker's capacity: semaphore and slots, user jobs admitted beside the
   hourly crons.
4. The proof of `OnlyUsedHoldingsKeepMoney`.
5. Leases: nothing in `src/` renews one, and the one hazard is listed.

## Modules

| Module | What it is |
|---|---|
| `UserJobRow` | the row and each repository statement as a function from row to row |
| `UserJobs` | one job id: EXTENDS `UserJobRow`, composes api, queue, worker slots, reconciler |
| `OutboxDelivery` | abstract: what the outbox promises a reader |
| `Outbox` | detailed: writers, kicks, loops, lock, faults; `Promise` instantiates `OutboxDelivery` |
| `Schedules` | the repeatable jobs of two versions of the worker over deploys |
| `JobGroup` | one occurrence of a grouped schedule: attempts, steps, locks, record |
| `Backfill` | one user's rebuilds and the nightly rollup |
| `LotMatching` | draws of lots and Section 104 identification, as pure operators |
| `Lots` | the order of the walk and the walk itself: EXTENDS `LotMatching` |
| `TransferReview` | sessions, their transactions, and the nightly matcher on one user's rows |
| `*_proofs` | the theorems of the module of that name; `Outbox_proofs` holds the refinement too |
| `Sums_proofs` | lemmas about sums over finite sets, for `TransferReview_proofs` and `Lots_proofs` |
| `MC*` | values for TLC |

### User jobs

The model follows **one** deterministic job id. `row` is the database row,
`job` the queue's entry under that id (`none` when there is none), `run[w]` the
attempt in slot `w`, `enq[r]` the enqueue of request `r`, `retry` and `detach`
the halves of the owner's mutations still to come, `reconciler` the
reconciler's place. Every `await` on a store is a step boundary, and a
statement with a WHERE clause is one atomic function, because PostgreSQL makes
it so.

| Code | Action |
|---|---|
| `BullMqEnqueueService.add` | `EnqueueRow`, `LookForNamesake`, `EvictNamesake`, `AddToQueue`, `AssertWorkWasQueued`, `EnqueueTimeout`, `EnqueueFault`, `EnqueueFailed`, `ApiCrash` |
| `UserJobProcessor.process` | `CheckGate`, `ThrowEarly`, `FireActive`, `ReportProgress`, `FireCompleted`, `FireFailed` |
| `WorkerClient` and BullMQ's commit | `PickUp`, `CommitCompleted`, `CommitFailed`, `ListenerMarksDead`, `HandBack`, `Die` |
| BullMQ on its own | `PromoteDelayed`, `ReclaimStalled`, `EvictFinished` |
| `jobs.retry`, `jobs.cancel`, `jobs.remove` | `RetryReads`, `RetryJob`, `RetryResetsRow`, `RetryCrash`; `CancelMarksRow`, `DismissMarksRow`, `DetachFromQueue` |
| `ReconcileOrphanedUserJobsProcessor` | `ReconcilerFinds`, `ReconcilerAsks`, `ReconcilerMarksDead`, `CutoffPasses` |

Abstractions. A deadline that passes lets the caller go on while the enqueue
continues (`call` and `step` are separate). A mirror write may fail and be
swallowed (`Write`). The handler is one opaque stretch between `FireActive` and
its outcome. An attempt that lost its job keeps running and writing, since a
handler cannot be stopped, but the queue no longer accepts its outcome. The
orphan cutoff is a flag on the row; it cannot pass while the enqueue that
stamped the row is waiting, because its deadline (10s) is shorter than the
cutoff (30s). The guard a mutation reads and the statement after it are
one step where the statement repeats the guard (`cancel`, `remove`), two where
it does not (`retry`). History, which no guard reads: `ran`, `cancelled` (the
owner has cancelled with no retry under way, and nobody has asked for the id
since), `pastGate` (who was past the gate then), and of
each enqueue `evicted`, `landed` and `saw`.

### Outbox

A row is its id. `txn[i]` is the transaction that appended it, `published` the
mark (a pruned row counts as marked), `disp[d]` the loop of process `d`, `lock`
the lock's holder as the database sees it, `flight` the publishes abandoned by
their deadline, `delivered` what reached the owner's channel, `heard` a history
variable.

| Code | Action |
|---|---|
| `OutboxWriter.append`, its transaction, `kick` | `Append`, `Commit`, `Rollback`, `Kick` |
| `startOutboxDispatchLoop`, `run` | `Start`, `WakeOnKick`, `WakeOnSweep`, `Stop`, `Stopped` |
| `withAdvisoryLock` | `TryLock`, `LockFault`, `LoseLock`, `Release` |
| `drain`, `dispatchBatch`, `prune` | `ReadBatch`, `Publish`, `PublishFails`, `LateArrival`, `MarkPublished`, `PassFault`, `Prune` |
| process death | `Crash` |

Transactions of one owner may be open together and commit in any order. The
code has no caller of `append` yet outside its tests, so nothing says that they
will not. `ahead[i]` is history: the owner's older rows that were committed when
row `i` was. Rows without an owner are left out: `append` refuses them.

A loop may be `dead` in a process that is up: an error of the lock's session
leaves `run()`, `startOutboxDispatchLoop` logs it (line 54), and nothing starts
the loop again before the process is restarted.

`OutboxDelivery` has two actions. An event is committed, behind the events of
the same owner with a smaller id that were committed before it; an event is
delivered when those have been. Repeats stutter. Its `committed` is the set of
committed rows of `Outbox`, its `ahead` and `delivered` the same variables.

### Schedules

Time is an instant up to `Horizon`, and `Due` says at which instants a schedule
comes due. `armed[n]` is the occurrence the queue has parked for schedule `n`,
`machine[m]` where a machine of one version is and what its boot remembers;
`came`, `dropped`, `raced` and `disputed` are history.

| Code | Action |
|---|---|
| `upsertAll` | `Snapshot`, `Stamp`, `Upsert`, `Reconcile` |
| `replayMissed` | `Replay` |
| the worker's start | `Boot`, `ReplayDone` |
| queue and worker | `Tick`, `TakeOccurrence`, `TakeCatchup`, `Stop`, `Crash` |

The known gaps, each excluded by name in the properties: an occurrence that
comes due between `getJobSchedulers` and its own upsert is lost; one that the
snapshot shows and a running machine takes runs twice, once on its schedule and
once as a catch-up (the id derived from the missed fire time, `job-scheduler.ts:96`,
joins the catch-ups of two machines and not these two); an older machine that boots
removes the newer version's schedules, and swallows a new schedule's occurrence.
Left out: the eviction of a catch-up id after 100 completions, and an occurrence
of a removed schedule that was already promoted.

### Job groups

`run[a]` is the group loop of attempt `a`, `call[a][s]` its call of step `s`,
which may outlive it, `lock[s]` the lock of a step, `job` the queue's entry with
the saved record.

| Code | Action |
|---|---|
| `ScheduledJobGroupProcessor.process` | `PickUp`, `NextStep`, `SaveProgress`, `Finish` |
| `runStep` | `Settle`, `Timeout` |
| `ScheduledJobProcessor.execute`, `withAdvisoryLock` | `Enter`, `FindLocked`, `HandlerReturns`, `HandlerThrows`, `LoseLock` |
| the queue | `Stall`, `HandBack`, `Crash` |

Left out: the jitter before a start and the heartbeat of a schedule with a
single step.

### History backfill

A day is its distance from today, so a window is a number; a row is the set of
changes its value, or its absence, was computed from. `past` is the day of the
user's earliest record.

| Code | Action |
|---|---|
| `enqueuePortfolioRollup`, `afterLedgerRows` | `Commit` |
| `enqueueCoalescedBackfill`, `absorbWindow` | `LookAtSlot`, `ReadPending`, `WritePending`, `AddJob` |
| `PortfolioHistoryBackfillProcessor.handle`, `runBackfill` | `PickUp`, `TakeLock`, `LockHeld`, `RunPhases`, `SaveStart`, `MemoryStop`, `Finish`, `Skip`, `AttemptThrows` |
| `runChunkedRollup`, `RollupPortfolioValueDaily` | `RollupReads`, `RollupWrites`, `RollupWritesLate`, `RollupBreaks`, `SaveChunk`, `RollupLockHeld`, `CronReads`, `CronWrites` |
| queue and database | `Die`, `ReclaimStalled`, `LoseSessions`, `EnqueueFails` |

A rebuild is narrowed to the history when its phases are done (`boundToHistory`:
`Bounded`), or keeps its window when the span cannot be read. The day before the
earliest record is the last it walks, and a walk that reaches it deletes the rows
further back (`deleteBefore`), one more statement of its last chunk
(`LastStatement`), behind the same assertion of the lock. So a row further back than
a window may be owed to that window too (`DaysLeft`). The nightly rollup clears in
the same way when its days reach that far.

`missed` is history: the pairs of change and day that a path has let go of. Some of
those paths report an error. Others are silent: an add that lands on a live id, a
payload written back over what had joined it since it was read, the days beyond a
lookback that a rebuild's own phases touch, and the rows a rebuild under way was to
clear when a record is put before the end of its window (`Outrun`). A day leaves
`missed` when a row is written with the change, or deleted, after all.

Abstractions. Three bases of ids stand for the ones in use; a wide retry and the
30-second buckets share one. A finished entry counts as none, since the next add
evicts it. The phases change something at most once. A late write is a lock lost
between the assertion and the autocommit that follows. `maxStalledCount` is left
out: a dead worker's job is always handed out again.

### Cost basis

`LotMatching` holds the draws and the plan of Section 104
(`planSection104Matches`). `Lots` puts a ledger in order (`Ordered`: the sort, then
`OpeningsFirst`, `UnlinkedArrivalsFirst` and `DeferEarlyArrivals`, the middle two by
`FirstWithinInstant`) and walks it row by row.

| Code | Action |
|---|---|
| `walkPool`, one row | `Begin`, and per kind `Acquire`, `Sell`, `PayFee`, `Carry`, `CorrectUp`, `CorrectDown`, `DriftOut`; `Skip` for the rows that move no lot |
| arrivals and their buffers | `InheritShare`, `InheritAll` |
| the end of the walk | `FeeShare`, `RealizeShare`, `HoldShare`, `Settle` |

A decimal is an integer count of its last digit, and a division rounds. A row's
worth includes its trade fee. The kind `opening` is the drift row with the opening
mark, `skipped` a fall answered as growth (`CostBasisService.ts:1173`) or a row of a
kind the walk does not know. Left out: income totals, grades of confidence, the
review counts, price series, rows hidden by a rule. `paid`, `writtenOff` and
`gone` are history. Groups that are still open at the end are settled in any
order.

### Transfer review

A session makes one call at a time and each call is one transaction. It goes by
the rows it has read (`read`); `stale` are those of them another session has
changed since, and `raced` is history: some transaction has committed on a stale
row.

| Code | Action |
|---|---|
| `resolve`, `resolveSplit` | `Resolve`, `ClaimLooks`, `ClaimWrites`, `GiveBackClaims`, `ArriveLooks`, `ArriveInHolding`, `ArriveInNewHolding`, `Stamp` |
| `reopen` | `Reopen`, `WithdrawArrivals`, `UndoArrivals`, `ClearAnswer` |
| `resolvePart` | `ResolvePart`, `ClaimPart`, and the steps of `resolve` |
| `unlinkPair` | `UnlinkPair`, `UnlinkWrites` |
| `bulkResolve` | `BulkResolve`, `BulkWrites` |
| `applyDisposalMarks` | `MarksLook`, `MarksWrite` |
| `LinkTransferPairsUseCase.execute` | `LinkTransferPairs`, `LinkPair` |
| `UpdateHoldingUseCase` | `EditHolding` |
| any of them | `Rollback` |

A holding is [balance, stated, left, touched]. `stated` is what its owner said it
holds. The amount a holding is opened with is not that: the opener records it as
money that moved in (`TransferDestinationOpener.ts:62-73`), so it belongs to the
arrival that opened the holding. `left` is history: what such arrivals have left
behind when their answers were taken back and the holding was kept.

Left out: the refusal of one's own wallet, declared pairs, same-holding
withdrawals, the received quantity, destinations kept by a feed, and
`TransitReviewService` beyond `resolvePart`: its answers about an outflow with one
internal part take back and answer in one transaction, where `Reopen` and `Resolve`
are two, and whether an offered deposit has the right size is not asked. The caller
takes an outflow for one of several parts by the `internal` parts of its split,
those a deposit has taken the place of included (`severalHoldings`); `ResolvePart`
counts the arrivals and the group's deposits that lie in a room. Time windows are
one relation, `Close`; the picker's holding id is the account. A deposit that is put
back gets a new id.

## Runs

| Run | Shows | Distinct states (about) |
|---|---|---|
| `owner` | the owner's mutations against blocked workers, a deploy and a restart of the api: nothing an attempt, the listener or the reconciler writes undoes a cancel and no handler starts after it, until the id is asked for again; attempts stay in budget, verdicts stand | 2.6M |
| `enqueue` | two clicks, a timeout, a store error, an api crash and a dismissal: a receipt means work | 3.0M |
| `settles` | one request, a cancel, two deaths, an api crash, retention: the queue's completion reaches the row, never_delivered is not said of a job that ran, and (liveness) a row in flight comes to a verdict | 14k |
| `order` | outbox, two processes, every fault but a stop, transactions that commit in any order: nothing lost, the refinement (nothing uncommitted or out of turn reaches a channel); until a fault, each row published once and every heard kick served | 2.4M |
| `recovery` | liveness, every fault once: every committed row is published, or the loops of all processes have ended with an error | 690k |
| `schedules` | a deploy that adds a schedule, the older machine booting twice, a stop and a crash: due runs are kept and not doubled, the list is armed, and (liveness) due runs happen | 150k |
| `group` | two steps, two attempts, two faults: one handler per lock, steps in order, successes earned and not repeated, and (liveness) the occurrence settles | 1.1M |
| `backfill` | two changes, two slots, the nightly rollup, one disturbance: every stale day is owed, rows do not go back | 1.5M |
| `rebuilt` | liveness, one change, two disturbances, a history that reaches as far as the window or is not there: every stale day is rebuilt, cleared or let go of | 137k |
| `lots` | every ledger of three to five rows out of seven vocabularies, under FIFO and Section 104: six properties of the walk | 715k |
| `transfers` | two sessions, two departures, the matcher, a balance edit: links are whole, arrivals answered, balances and deposits add up while no call went by a stale row; money is left behind only in a holding something else has used; rules and matcher overrule nobody, ever | 230k |
| `retry_race` | ends in a counterexample: the worker finishes a retried job before the api resets the row, and the row says `queued` for good | |

Some properties carry their conditions, because they do not survive every
combination of events. The combinations they leave out are behaviours of the
models too:

- `CancelStands` and `NoRunAfterCancel`: a retry that has asked the queue before
  the owner cancels resets the row afterwards and takes the cancel with it, and the
  job runs. `jobs.ts:375-377` calls the cancel durable ("The cancellation is already
  durable", "the worker enforces it on its next processor entry"); no property here
  covers that cancel.
- `EveryCommitIsPublished`: when every process's loop has ended with an error of the
  lock's session. The processes are up, so nobody restarts them, and no sweep comes.
- `VerdictStands`: a listener that arrives after a retry's reset or a new enqueue
  finds no verdict to respect, and marks the new run's row.
- `LinkedLotsArrive`: an arrival stamped before its departure, or with it where the
  departure has made way for its holding's opening, when another row of the arrival's
  holding lies between.
- `BalancesAgree`: ledgers with a correction or with a row the walk skips.
- `AnchorsAddUp`: the amount in `left`, which `OnlyUsedHoldingsKeepMoney` confines to
  holdings that something else has used.
- `ReceiptMeansWork`: a missing entry counts as work only when somebody else has
  taken it away (`TakenAway`): a dismissal removes the finished job an add has
  collapsed onto, and `assertWorkWasQueued` takes the missing entry for success.
- `NeverDeliveredMeansNeverRan`, outside one request without retry, dismissal,
  retention or timeout: the job runs, completes and is trimmed or evicted
  between the reconciler's read of the row and its question to the queue, and
  `markDead` has no state guard.
- `CompletionReachesRow`, outside one request without retry, hand-back, lost lock
  or lost write: the verdict of a stale listener, or the failure of a handler
  that was handed back, takes the row out of flight, and the later success
  cannot bring it back.
- `HeardKicksAreServed` and `PublishedOnce` after a fault: the lock holder leaves
  its drain and the other process has skipped the kick; the next sweep finds the
  rows. A row may then be published again, as at-least-once delivery allows.
- `RebuildsAreOwed`: what is in `missed`.
- `GroupsAreWhole`, `ArrivalsAreAnswered`, `AnswersAndLinksAgree`, `AnchorsAddUp`
  and `DepositsAreKept` once a call has committed on a stale row (`raced`).

### Behaviours that contradict a comment

One has a run, `retry_race`. The others are reached by the models, with the
bounds named, and have no run of their own:

- User jobs. The reset of a retry in flight erases a cancel made in between
  (`jobs.ts:375-377`). A handed-back handler still writes its outcome to the row
  (`worker-client.ts:491-493`). With three clicks a stale eviction removes the
  live job another click has just added (`bullmq-enqueue-service.ts:194-196`), and
  a missing job can be taken for success although another click evicted the
  finished one (`:215-235`).
- Outbox. Ids are not commit order when one owner's transactions overlap, so a
  later row may be delivered first, though "id order is commit order per user"
  (`OutboxEventRepository.ts:27`); what is left of the order is `OutboxDelivery`.
  The dispatcher does not run "for the worker's life" (`outbox-dispatch-loop.ts:29`):
  one error of the lock's session ends it (`OutboxDispatcher.ts:177`), and when that has
  happened in every process rows wait for the next restart.
- Backfill. Two `absorbWindow` calls on one pending job overwrite each other, so
  with three requests the days of one are dropped; the comment says "A pending job
  takes the earlier start day and the wider lookback of whatever joins it, so
  neither request's oldest days are dropped". The days show up in `missed`. The
  lookback is not widened by what the phases change, though "The rebuild reaches
  the earliest of them" (the worker's processor, line 546). The rows before the
  earliest record are to be deleted by the window that includes the day before it
  (`RollupPortfolioValueDailyUseCase.ts:350-354`). When the first record is deleted and
  a new, earlier one is committed before that rebuild's last chunk, the rebuild does
  not delete, and the window of the new change starts at its own day and does not
  reach the day before the record either: rows before it stay until some rebuild
  with a longer window.
- Job groups. A group's heartbeat says success when a step was only `locked`, by
  an attempt that dies later (`scheduled-job-processor.ts:60-63`); a stale
  attempt's save overwrites its successor's record; `transfer-linking.ts` says
  linking must complete before the rollup, and a timed-out linking step runs on
  beside it.
- Cost basis. "Summing the non-null gains over a walk reproduces `realizedPnl`
  exactly" (`CostBasisService.ts:293`) does not hold for holdings that go short or
  pay fees; `GainsAddUp` states it with those exceptions. A group whose arrivals
  are of two tokens books the moved lots twice after a partial arrival; such
  groups (`Mixed`) are left out. An arrival of a departure that found no lots
  inherits nothing. `openingsFirst` puts the rows of the opening's instant behind it,
  into the places they already held, so a departure may come to stand behind its
  linked arrival of the same instant, although outflows rank first so that "a
  transfer_out buffers its lots before the paired transfer_in needs them"
  (`CostBasisService.ts:896-897`). `deferEarlyArrivals` repairs that unless another row of
  the arrival's holding lies between; then the arrival opens a lot at market value and
  the departure's lots wait for ever.
- Transfer review, without a race. An answer opens a holding, a second answer uses
  it, the first is reopened: its arrival is deleted and the amount it brought stays in
  the holding, for good. The comments on `withdrawArrivals` forbid that for the holding
  that can be deleted (`TransferReviewService.ts:2092-2096`) and for the balance that was
  moved (2120-2125); this one was neither. The model books the amount as `left`.
- Transfer review, two tabs on one row. Both answers succeed, since the SELECT
  takes no lock and the UPDATE goes by id (the comments at
  `TransferReviewService.ts:733-735` and `routers/transfer-review.ts:313` say one is
  refused). Two `internal` answers into one holding move its anchor twice, and a
  reopen puts back one. The matcher may link a row that was answered
  `left_control` between its read and its write.

Smaller ones in the backfill: a job absorbed while it already has progress keeps
the progress; `memory-deferred-n` ids collide between chains; a rollup's errors
are swallowed and progress advances; a failed lock-held retry is swallowed; a
crash between the phases and the saved start forgets the widening; saved
progress and a widened payload overwrite each other.

### Bounds

`Limit` (or `Events` with `Budget`) names the events a behaviour may contain and
how often: the owner's mutations, crashes, lost writes, timeouts. Each run
budgets those its question is about, usually one of each, two deaths or failed
publishes where a repeat matters. The rest is unbounded: any number of sweeps,
stalls within `MaxStalled`, progress reports.

- User jobs: two attempts are enough for a first, a retried and a last one
  (`enqueue` has one: its question ends with the receipt, and a job that failed
  for good is what a second click meets); two slots for a stale attempt beside
  its successor; two requests for an enqueue that meets another (`settles` has
  one: with two, `CompletionReachesRow` speaks of none). `settles` has no lost
  write: a swallowed write may leave a row behind for good, and the code says so
  (`job continues`).
- Outbox: two rows of one owner show any order; `recovery` has one, for liveness.
  One backoff stands for seven, since only the first and the last behave
  differently.
- Schedules: two versions, two schedules, two instants, each fault once.
- Job groups: two steps, one of them behind a lock and one weekly; two attempts
  that may overlap; two faults of any kind.
- Backfill: two days in chunks of one give a day beyond each chunk; a memory chain of
  one link. `backfill` has two changes, one id of a base and one fresh one, and a
  history as long as the window; `rebuilt` has one change, two ids of each, and starts
  from that history or from none (`Firsts`). The phases and the changes move the
  earliest record in both runs.
- Cost basis: quantities in tenths, so that divisions round; two instants a day;
  windows of one day stand for 30. The vocabularies are the kinds of rows that
  meet one rule: trades, fees, shorts, corrections, linked transfers, early
  arrivals, two holdings of one token.
- Transfer review: three calls, one edit of a balance. Four calls
  were explored for five minutes (2.2M states) without a violation.

Slots, requests, sessions, changes and processes are interchangeable and
symmetric; the liveness runs use no symmetry.

### Fairness

- `UserJobs!FairSpec`: weak fairness of each step of an enqueue, of an attempt
  and of the reconciler, since the event loops keep running and every handler
  ends; of `PromoteDelayed` and `ReclaimStalled`, which are timers; strong
  fairness of `PickUp`, because a slot that is free again and again is given the
  waiting job at some time.
- `Outbox!FairSpec`: weak fairness of the loop's steps and of `Start`, since the
  platform restarts a worker that has exited; the sweep is a timer. Kicks,
  commits, crashes and late arrivals are not fair.
- `Schedules!FairSpec`: weak fairness of each machine's boots, boot steps and work.
- `JobGroup!FairSpec`: weak fairness of the pick-up, of the loop's steps (a
  deadline is one of them) and of the queue's notice that a holder is dead.
  Nothing is assumed of the handlers.
- `Backfill!FairSpec`: weak fairness of an enqueue's steps, of a slot's steps, of
  the reclaiming of a dead worker's job and of the nightly rollup's write.

Nothing is assumed of the owner or of faults. Faults are finite, as a budget, so
every outage ends; a loop that an outage has ended does not come back with it.

`CHECK_DEADLOCK FALSE` is set where a behaviour may end: when every budget is
spent and nothing is left to do, in `recovery` when every loop has ended.

## Proofs

All theorems hold for every value of the constants that the named assumptions
allow, so for any number of requests, slots, rows, processes, days and events.
Most assumptions say what kind of value a constant is. Those that say more:

- `TransferReviewAssumption`: finitely many outflows and deposits (a ledger is a
  finite table, and a balance adds up its rows), and a holding belongs to one
  account (`holdings.account_id` is a column of the holding).
- `LotsAssumption`: a ledger's row has its columns, a quantity that is not 0
  (`walkPool` skips the others), and the link of a row is one of the groups.

**`UserJobs_proofs`.** `Invariance` proves `Spec => []IInv`. `IInv` adds two
things to the properties it implies: that a row is dead exactly when it has a
reason (a cancelled row must be dead for `MarkDead` to leave it alone), and
that a job that will run again has an attempt left (an attempt counts one more
than the queue does). From it follow `TypeCorrect`, `BudgetHolds` and
`CancelStandsHolds`: of the statements only `InsertEnqueued` and `MarkRequeued` take a
row out of cancelled, dead and failed. `CancelHolds` adds to `IInv` that after the
owner's cancel (`cancelled`) the row says so, and that no reset of a retry is still to
come (`CancelOnRow`), so whoever was not past the gate by then is turned away by it. The argument is one of statements first: `PlainStatements` and
`CountedStatements` say what each statement of `UserJobRow` preserves, and each
action is a statement and a move of its actor. `FirstVerdictStands` is the action
property, from the same invariant.
`ReceiptsMeanWork` follows the entries of the queue: a request adds at most
once, so a finished entry that carries its id is its own, and an entry goes away
only when somebody else takes it. `NeverDeliveredIsTrue` and `CompletionReaches`
share `SettlesInv`: with one request and no timeout the entry is that request's
(`Sole`); the reconciler misses an entry only if none was ever inserted
(`Undelivered`); without faults and lost locks one handler is at work at a time
(`HandlersHold`) and the row follows it step by step (`RowFollows`).

**`Outbox_proofs`.** `NothingLost`: published rows were delivered. The strengthening carries the batch: what
a loop has read is committed, what it holds as done was delivered. Until the
first fault more is true (`Calm`): the holder of the lock alone is inside a drain,
its batch is apart from what is out, and what is delivered is what is published
or held by it as done, so a row is published once (`RowsArePublishedOnce`). A kick
that was heard is in hand: its row is published, or some loop will read again; a
loop that has come to its end with no kick pending has read an empty batch, and
then nothing heard is left (`KicksAreServed`; the least unpublished id would have
been in the batch).

The refinement: `OutboxKeepsPromise` proves `Spec => KeepsPromise`, and
`DeliveriesFollowCommitsHolds` says the same of two rows. The invariant says that
whatever is in a batch, in flight or delivered has the rows of its `ahead` delivered, or
in front of it in the batch, and that a batch cut off by id is closed downwards
(`OldestIsClosed`, by cardinality). No part of it mentions the lock: order survives two
drains at once, and the lock only saves repeats.

**`Schedules_proofs`.** `IInv` says where a boot is and what it remembers there,
that an occurrence parked since before a snapshot is in it, and that one that
came due is parked, taken, waiting as a catch-up, remembered, or dropped by a
known gap. Two facts carry it: what is armed is the next due instant after its
predecessor (`NextDueIsLater`, by a well-founded minimum), and arming only moves
on. `DueRunsKept`, `OccurrencesRunOnce` and `ListsArmed` follow.

**`JobGroup_proofs`.** `HandlersHaveLocks` gives `HandlersAreApart`;
`CallsHavePlaces` (a call is the one its loop waits for, or one it left behind at a
deadline) gives `StepsAreInOrder`; a success known to a loop, saved on the job or
reported by a heartbeat was earned by a handler (`SuccessesAreEarned`); attempts
that were replaced are past, and what the record holds the next attempt knows
(`RetriesSkipSuccesses`).

**`Backfill_proofs`.** `RowsOnlyGrow`: whoever holds the rollup lock has read at
least what any row and any other reader holds (`RowInv`), so what it writes only
adds. `RebuildsOwed` follows a debt. Its invariant adds to the types that a rebuild
holds the job it was handed out with, so that nobody else's step touches it
(`HoldsJobs`); what a rebuild's payload says at each of its steps, and that it asks
the queue only to hand over, for at least what it has left (`InShape`); and that
every stale day is let go of or owed (`OwedInv`), where an ask of a rebuild counts
only for what the rebuild itself had left. That last restriction is what makes it
inductive: an enqueue that fails loses no more than the rebuild owed. `RowInv`
comes in again: a row written by the lock's holder never becomes stale for a
change it had. One lemma per action shows that the debt is handed on whole or
recorded in `missed`. Narrowing a window to the history loses nothing, because what it
no longer walks it clears (`NarrowingKeeps`); a change that moves the earliest record
takes away only what a window was to clear, and that is in `Outrun` (`ShiftKeeps`).

**`TransferReview_proofs`.** The types are stated row by row and place by place.
`LocksAreExclusive`: a session's uncommitted writes are its locks. For
`RulesNeverOverruleHolds` the invariant says that an uncommitted row claims a
rule's authority only for what a rule has answered, so only the UPDATE that
repeats `ruleWritablePredicate` can bring one in. `LinksAreNotStolenHolds` follows
from the matcher's statement, which writes only rows that are in no group then.

The second half of the module is about what holds while no call has committed on
a stale row: `GroupsAreWholeHolds`, `ArrivalsAreAnsweredHolds`
and `AnswersAndLinksAgreeHolds`, from `WInv == IInv /\ Always /\ Unraced`, with one
lemma for each of the 24 actions (`...Stands`). `Always` is what no overlap of calls
can break: a group has one departure, because an answer's group is one nobody else
has and stays so while the answer is under way (`GroupUnused`, `GroupsApart`); an
arrival has its holding, because it is written beside it and the DELETE of a
holding takes its arrivals along, uncommitted ones included (`WrittenBeside`,
`DeletedWhole`); what a call has written of legs is in its own group or in none.
`Unraced` is what holds while nobody has committed on a stale row: the committed
rows are whole (`Whole`), and of each session none of whose rows has changed, what
its call knows still stands (`Stands`): the row it answers is still pending, the
answer it takes back still has the review and the group it read, a part it leaves
behind is still there. Two lemmas carry the steps: `StandsStable`, by which what
others commit either leaves a session's rows alone or makes it stale, and
`WholeAfter`, by which a write inside one group leaves every other group as it
was. `raced` is in the invariant because the code needs it there: two answers to
one row both commit (two tabs, above), and then a group may be half.

The last part of the module is about the money: `AnchorsAddUpHolds` and
`DepositsAreKeptHolds`, from `BInv == AllMarks /\ Balanced` on top of `WInv`. `Marks` is what an arrival's
row says of itself: whether it opened its holding, moved a balance, or took over a
deposit. `Even` says of each holding that its balance is its owner's figure, the
sum of the arrivals that count (those that moved it and the one that opened it) and
what was left behind, and that a deposit is in the ledger or on one
arrival; it is stated of the committed rows and, for a session none of whose rows
has changed, of the rows as that session has written them. `Settled` says place by
place what a call still has to give back or take. The theorem needs all of it at
once: an answer writes an arrival and the balance it moves in one transaction, a
reopen undoes them in two steps of one, and only a session that has read nothing
stale does both to the same row. `AddUpShifts` and `KeptShifts` say what one written
row does to a holding, from the lemmas of `Sums_proofs`; one lemma per action
(`...Balances`) follows.

**`Sums_proofs`.** A sum over a finite set is the value of a function on its subsets
(`SumsExist`, `SumsAgree`), which makes it one whatever order the elements are counted
in; from that, what becomes of it when an element is added, changed or taken away
(`SumMore`, `SumChange`, `SumWithout`), when the set is cut in two (`SumParts`) or its
elements are renamed (`SumNamed`). Each rests on a least counterexample over
cardinalities, because the library's induction theorems cannot be instantiated.

**`Lots_proofs`.** `LinkedLotsArriveHolds` is about whole ledgers: every sequence of
rows, under both methods, with any other rows between departure and arrival. Three
things carry it. *Order*: `Pick` puts its elements where an order puts them
(`PickIs`: a place is one more than the number before it), `SortLedgerEvents` sorts,
`OpeningsFirst` and `UnlinkedArrivalsFirst` swap rows of one holding and instant only,
the one nothing of a holding without an opening there, the other no linked leg, and
`DeferEarlyArrivals` takes a deferred arrival behind its departure, so the walk comes to
the departure first (`DepartureFirst`), by the clock, by the rank at one instant, or by
the deferral.
*Lots*: whatever a draw takes or leaves, by either method and with the claims of
Section 104, is a sequence of lots, and what it takes is the holding's (`DrawnFrom`);
a share that arrives leaves lots of the same holdings behind (`SharedLots`). *Groups*:
`Underway(i)` says of a departure that nothing waits in its group before the walk
comes to it, and that afterwards what waits is of its token and an arrival is still
to come. `CInv` is that with the shapes; it needs the second half because an arrival
takes nothing up when a lot that waits is of another token, and an arrival that is
not the last leaves something.

`OldestFirstHolds` and `BalancesAgreeHolds` are about the method first in, first out,
again for every ledger. The first says that what a lot gives to a disposal or a fee is
fixed by the units of the older lots ahead of it (`AheadGrows`, `PickUnits`), so that a
lot that gives has nothing older left (`OldestGo`); `Walk` adds to `CInv` that the
walk is at a share the row has (`PortionsAre`) and that nothing is planned. The second
follows what a holding owns through the walk. In between rows, and in between the
shares of one row, it owns the balance of the rows gone by less the shares already
taken, nothing is short, and what waits for an arrival has units: `AgreedAt`, which
with the walk's first state is `Balanced`. `TakesAddUp` says that a draw takes what was
asked or all there is, `ShareUnits` and `HomeUnits` that the parts of a rounded share
add up to it, `SharesFit` that the shares of a row are its quantity. *Nothing is short*
is what makes it inductive: a row that finds too little would leave a short that a
later arrival closes, and that a balance never below zero excludes (`RowFinds`,
`ShareFinds`). Both theorems have a hypothesis, `[]NoneBelowZero`: rounding has left no
lot with less than nothing. It is true of every state of the run `lots`, and not of
every ledger: where a share is divided over several lots, all but one part of it are
rounded and the last gets the rest, which falls below zero when the units are so few
that the others round up too far (four lots of one unit that arrive in two halves). In the code that is at the last of many
decimals. `LotsAssumption` says of the words of a ledger what the schema and the
review's validation say of its rows: no quantity is zero, only a correction is
negative, and every part of a split has units.

**Only model-checked.** The liveness properties (`RowReachesVerdict`,
`EveryCommitIsPublished`, `DueRunsHappen`, `OccurrenceSettles`,
`StaleDaysAreRebuilt`), since liveness under fairness and ENABLED are outside the
prover's reach. And four properties of the cost basis: `MoneyIsConserved`,
`GainsAddUp`, `PlanIsLawful`, and `BalancesAgree` under Section 104. They are not true of
every value of the constants. The code's decimals have many digits, the model's integers
none, so a ledger of single units rounds in the model where nothing is rounded in
the code. Pro-rata parts rounded one by one can exceed what is there (`SameDay`
over four lots of one unit and a disposal of two: `PlanIsLawful`), or leave a lot with
less than nothing, which is then dropped (`DrawPooled`, five lots of one unit and a
disposal of two: `BalancesAgree`, `MoneyIsConserved`); and the parts of a disposal's worth add up only when
they divide (`GainsAddUp`). The run `lots` uses quantities in tenths for that reason. For
first in, first out one hypothesis about the lots was enough (above); here it would
have to speak of every intermediate quotient of the walk, and the theorem would then
say little. And `OnlyUsedHoldingsKeepMoney`, not proved yet: it needs, for a call between
the DELETE of an arrival and the undo, that nobody else can delete the holding it
leaves open, whose arrival is locked.

## Not modelled

The columns of a job row that only a listing reads, and `markActionTaken`; the
dead-letter queue, alert hooks and cron semaphore of the worker; several job
ids at once (no code relates two); Redis beyond lost and late messages; what
a client does with a repeated or reordered event; the pacing between the chunks
of a rebuild and the stored returns. The components marked `not_modelled` in
`PROJECT.json` are planned above, or are I/O, parsing, presentation or arithmetic.
