# A verification project for prstklab-stk-detector

The repository publishes market data and briefs and tells people about them. Its
data transformations are ordinary; what is hard about it is the machinery around
them: a mail outbox inside a Cloudflare Durable Object, an incident store that
decides what a mail says, a git branch used as an append-only release store by
several workflows, a delivery ledger that lives in a file of that branch, and the
runs that restore it, send Telegram messages and write it back. This directory
models that machinery in TLA+, checks it with TLC on small instances, and proves
every safety property of the passing runs for every instance with TLAPS.

All paths below are relative to the repository.

## 1. Inventory

### Incident coordinator (`worker/src/incident_coordinator.ts`)

One Durable Object with a SQLite store. Requests come in from workflows
(`/internal/evidence`, `/internal/import`), from a heartbeat (`/internal/tick`)
and from verification (`/internal/mail/verify`); the object runs one request at a
time *between* two awaits, and requests interleave at every `await`.

*State.* `incidents` (lifecycle, generation, state_version,
last_notified_state_version, severity, evidence integrity), `incident_impacts`,
`evidence`, `outbox` (one row per decision: state, draft_id, lease_until),
`admin_fallbacks` (one alert per key), `mail_receipts`.

*Operations.*

| operation | what it does |
| --- | --- |
| `storeEnvelope` | advances an incident from one envelope, in one transaction |
| `ingest` | stores envelopes and reserves an immediate mail for a critical one |
| `tick` | selects what a digest says, reserves it, then reconciles pending rows |
| `reserveDecision` | inserts the outbox row, checks the quota of 24 hours |
| `createDraft`, `sendDraft` | claim the row, call Gmail, record the answer |
| `reconcileUnknown` | looks for the mail by its Message-ID, in sent mail, then in drafts |
| `markSent` | verifies the row and credits the incident versions it named |
| `notifyAdminFallback` | raises one Telegram alert per key |
| `verifyInboxReceipt`, `recordReceipt`, `verifyMail` | evidence that the mail arrived |
| `importSnapshot` | takes over the history of an older system; it may mute what it imports, which takes effect for an incident it creates |

*What makes it correct.* A decision becomes one mail at most, whatever Gmail
answers; what is marked sent was sent; a recovery is announced and announced once
it is credited; an old or repeated envelope does not reopen an incident; the quota
holds; nothing stays pending silently.

*What is hard.* Calls whose answer is lost, late calls, evictions, two requests on
one row, a lease that is shorter than the work done under it.

### Data-release branch (`src/data_release.py`, `src/scheduled_preparation.py`, the workflows)

`restore` checks the files of `origin/data-release` out; `publish` compares the
branch with an expected base, builds a commit on it with a temporary index and
pushes it without force, up to three times. Around it each workflow restores,
looks its base up, prepares, waits in the writer queue, compares the base again,
publishes, delivers, and publishes the delivery ledger on the commit it made.

*What makes it correct.* The branch only grows; a publisher loses nothing it did
not mean to change; a run that goes on to deliver has its release on the branch;
every run ends.

*What is hard.* Several writers, fetches at different moments, pushes answered
with an error after they were accepted, failing fetches, cancelled runs.

### Delivery ledger (`src/event_ledger.py`, `src/alert_budget.py`)

One JSON file: a *claim* per notification key (who is to be reached, who was, until
when the claim is leased, how it ended) and a *row* per event (the material state
seen last, when somebody was told, every delivery). Each operation takes a lock file,
reads the ledger, changes it and replaces it; `save` merges what an instance
remembers into the file.

| operation | what it does |
| --- | --- |
| `claim_notification` | reserves a key for one sender, minus the recipients it or an alias has reached |
| `claim_scheduled_brief` | the same for the key of an anchor, after a look at the other anchors |
| `complete_notification_claim` | closes a claim: delivered, retryable or uncertain |
| `observe`, `should_remind`, `theme_decision`, `decide_alert_budget` | is this event worth telling |
| `record_delivery`, `save` | what was told, and the merge of two views |
| `_write_lock` | makes, waits for, finds stale and removes the lock file |

*What makes it correct.* Nobody is inside with somebody else; a notification has one
sender at a time; a recipient is told once; nothing recorded is lost.

*What is hard.* Locks of dead processes, removals in two steps, leases that end while
their holder works, merges of copies that have diverged.

### Delivery runs (`src/official_event_monitor.py`, `src/scheduled_delivery.py`, `src/financialjuice_notification.py`, `src/telegram_client.py`, two workflows)

A run works on a *copy*: it restores the ledger from the data-release branch, chooses
events, publishes its release, claims, sends, closes, records, and publishes the
ledger again on the commit it made. A monitor tells a batch of events, each under its
own key; a scheduled run tells one thing, under the key of its anchor or, for a
priority event, under the event's key.

*What makes it correct.* A recipient hears of each material state of an event once;
what was told is on the branch; a change that somebody should hear of is told.

*What is hard.* The copies: they meet only at the branch. A run that is cancelled or
overtaken between sending and storing forgets; a lost answer of Telegram is repeated.

### Writer queue (`src/writer_queue.py`, `src/scheduled_handoff.py`)

No state of its own. Each run writes an admission artifact and then polls GitHub's
lists of runs, jobs and artifacts until two readings in a row show nobody before it.
A run whose code is not main any more stops; the premarket run hands its slot to a
new run first, and waits for it while it is still admitted.

*What makes it correct.* One writer at a time, in the order of admission, never older
code after newer, and everybody gets out.

*What is hard.* Listings lag, everybody decides alone, main moves meanwhile, and a
parent and its child wait for each other through whoever was admitted between them.

### Railway monitor and emergency alerts (`railway-monitor/`, `emergency-alert.yml`, `src/emergency_alert.py`)

A poller over two sources with SQLite tables: the classification of an event, an
outbox row per trace, a ledger row per trace, the last dispatch of a category. It
posts a `repository_dispatch`; GitHub runs the emergency workflow, which sends unless
a cache entry says it has, saves the entry, and reports to an HTTP thread of the
monitor that writes the same outbox row.

*What makes it correct.* What the outbox says happened; what is in it gets out; a
second dispatch or message has a reason; no entry without a message.

*What is hard.* Two threads on a row, answers lost in both directions, a process that
dies anywhere, a run that ends well without having sent.

### The other parts

| part | where | state | why it is left |
| --- | --- | --- | --- |
| Alert lifecycle, orchestration | `src/alert_lifecycle.py`, `alert_orchestrator.py` | none that outlives a run | pure functions |
| Pages release | `src/pages_release.py`, `pages_deployment.py`, `release_gate.py`, `release_manifest.py` | manifests | a verdict; in the models, a gate that may close |
| Incident reconciliation | `scripts/incident_*.py`, `scripts/monitor_liveness.py` | GitHub issues and their journals | read-modify-write of issue bodies; planned |
| Gmail history | `railway-monitor/gmail_history_sync.py`, `email_store.py` | a cursor and a mail store | planned |
| Supabase queues, research worker | `supabase/migrations/`, `jobs/`, `src/research_worker_runner.py` | job rows with leases | planned |
| Worker routes | `worker/src/index.ts` | none | - |
| Market data, news, research, rendering | most of `src/` | none that outlives a run | - |

The parts interact through four shared things: the data-release branch, the ledger
file on it, GitHub's lists of runs, and the coordinator's endpoints.

## 2. Modules

| module | what it is |
| --- | --- |
| `OnceOnlyMail` | abstract: what the outbox promises about a decision and its mail |
| `IncidentOutbox` | the outbox, from one await to the next, with Gmail and its failures |
| `IncidentOutboxProofs` | the inductive invariant, the safety theorems, the quota and the refinement |
| `IncidentStore` | the incidents, the digests, the credits |
| `IncidentStoreProofs` | generations, reopening, credits and announced recoveries |
| `DataRelease` | the branch and the writers that publish to it |
| `DataReleaseProofs` | its inductive invariant and the safety theorems |
| `LedgerClaims` | the ledger as a value: one operator per locked operation |
| `LedgerClaimsProofs` | lemmas about those operators, for the two proofs that need them |
| `AtomicLedger` | abstract: what the ledger file promises to the processes that share it |
| `EventLedger` | the file, its lock and processes on one machine, over `LedgerClaims` |
| `EventLedgerProofs` | its inductive invariant, the safety theorems and the refinement |
| `DeliveryRuns` | monitors and scheduled runs with their copies, over `LedgerClaims` |
| `DeliveryRunsProofs` | its inductive invariant and the safety theorems |
| `WriterQueue` | the election of the runs, and the handoff of a slot |
| `WriterQueueProofs` | its inductive invariant and the safety theorems |
| `AlertDispatch` | the Railway monitor, the emergency workflow and what is between them |
| `AlertDispatchProofs` | its inductive invariant and the safety theorems |
| `MC...` | the instances with their symmetry |

### IncidentOutbox

A *delivery* is a decision key, one row of `outbox`. A *handler* is a request of
the object. `state`, `draftId` and `lease` are columns of the row (`lease` says
that `lease_until` lies in the future); `age` abstracts `reserved_at` to the two
moments the code compares with (the grace period of `reconcileUnknown`, the 24
hours of the quota). `pc`, `work`, `seen`, `draft` are what a request holds across
an await. `created`, `drafts` and `sent` are Gmail's mailbox per decision, and
`stray` the calls whose client gave up and that Gmail may still execute.

The action names are the function names with the await they resume from:
`Reserve` is `reserveDecision` up to `advanceOutbox`; `AdvanceReserved`,
`AdvanceReady` and `AdvanceUnknown` are the dispatch and the transaction each
branch begins with; `CreatePost`, `CreateRefused`, `CreateLost`, `CreateAnswered`
are the rest of `createDraft`, `SendPost` to `SendAnswered` of `sendDraft`,
`ReconcileError` to `NotFoundDraft` of `reconcileUnknown`. `Pick` is a request
that read a row and has not acted on it: `tick` selects its rows first and then
awaits one after the other, so what a request knows of a row can be stale when it
claims it. `GmailCreates`, `GmailSends` and `StrayArrives` are Gmail;
`LeaseExpires`, `Ages` and `Evicted` are time and the platform. Every failure
(a lost answer, a search that misses, an eviction) costs one of `MaxFaults`.

`LeaseExpires` is not enabled while a request is inside `createDraft` or
`sendDraft`: they make at most three calls of 10 s each under a lease of 60 s.
`reconcileUnknown` may make 22 and gets no such protection; two reconcilers of one
row are in the model.

### IncidentStore

`StoreEnvelope` is the transaction of `storeEnvelope`, with one operator per
column (`NextLifecycle`, `NextImpact`, `NextSeverity`, `NextIntegrity`,
`NextGeneration`, `NextVersion`). `Ingest` adds the immediate decision that
becomes due and `ReserveCritical` takes it in a later step, because
`reserveCritical` reads the generation in a statement of its own after awaits.
`TickSelect` and `TickReserve` are the two halves of a tick. A mail is a set of
named versions; `MailSent` is `markSent`, `MailRefused` a row that ends as
failed_not_sent. `Import` stores any valid envelope. `storeEnvelope` computes the mute of
`suppress_notification` for every incident (435) and writes it only when it inserts the
row (439-441), so an import is muted or not for an incident that is new, and mutes no
other. `told` and `born` are history variables: the last version whose recovery was
announced, or muted by the import that created the incident, and the generation an
impact was first recorded in.
`Versions` is what producers write in `state_version`: any numbers in the runs
that ask what the store does with reordered envelopes, `{1}` in the runs that use
the producers of `scripts/`, which always write 1.

### DataRelease

`branch` is the sequence of commits; a commit holds, for each group of files, the
updates in it, and records which position its files were restored from and which
base its writer expected. A writer's `pc` goes through the steps of its workflow:
`queue`, `restore`, `lookup`, `work`, `revalidate`, `publish`, `push`, `refetch`.
`Capacity` is how many the queue lets in at once: one by intent, more when it decides
from listings that lag behind.
`QueueFirst` are the workflows that restore inside the queue (the scheduled brief,
whose queue step comes before its preparation), the others restore before it (the
event monitor); `Rebuilders` prepare a second time when the base moved, the others
defer to the next run; `CacheWriters` select more than the site. `round` is 1 for
the release and 2 for the ledger of what was delivered, which only `Deliverers`
publish: the event monitor and the scheduled brief, and in the same form the chain of
publications of `unified-research-report.yml`. The other workflows are over after their
release (`emergency-alert.yml`, `monitor-health.yml`, `refresh-dashboard.yml`).

`failed` holds each commit that `publish()` gave up with the error it raised: the base
moved (`Publish`), a fetch or git failed before the push (`PublishBreaks`), the branch
moved or the server refused (`PushMoved`, `PushRejected`), the third server error
(`PushErred`), any other answer, which is not tried again even if the branch moved
(`PushLost`, data_release.py:127), and a look at the branch that failed after a server
error (`RefetchFails`, :132). A push that is answered with an error may have been
accepted. `Breaks` is a cancelled run, or a step other than a publication that fails.

Content that does not change is not published by the code; every writer of the
model changes something, so that return is not modelled.

### LedgerClaims, EventLedger

`LedgerClaims` has no variables. A ledger is a record of `claims` and `rows`, and every
operation of the class is an operator from ledgers to ledgers, so that the two
modules that use it cannot differ in what an operation does. A material state is its
rank, and `material_state_changed` a rise of it: the code compares levels, values and
directions, and the models only need that some change counts. `Aliases` are the older
identities of a key, `Prints` the fingerprints of a decision. Of the anchors only
those of one market are modelled; those of another never meet them.

`EventLedger` adds the file, which may be `Unreadable` and is then read as empty, and
the lock. `Acquire`, `Stat`, `Unlink` and `GiveUp` are the loop of `_write_lock`, with
the look at the age and the removal as two steps; `Read`, `Replace` and `Release` are
the body. `Release` removes the lock file that is there, as the code does. A sender
opens, claims, sends, completes, records and saves; a watcher observes and saves.
`Crash` leaves the lock file behind. `torn`, `late` and `undone` are history: a lock was
removed that its remover had not judged, a claim was held beyond its lease, a save put
an older state of a claim over one in flight (`Undone` is `_merge_claim` seen from the
file; see section 3). `Tick` lets no
living process stay inside the lock until it is stale: the body reads and replaces one
file, the stale age is minutes.

What file and lock amount to is `AtomicLedger`: a process calls an operation, and the
operation is applied once, at one moment before it returns, to the ledger that all
operations applied before have left, or it is abandoned. `ActsAtomically` says that
`EventLedger` implements it until a lock is torn. `Called` is the operation a process has
called and not yet written; its `Effect` and its `Reply` are the operators of
`LedgerClaims`, applied to the file at the moment of the write and not to the copy that
was read. An unreadable file is the empty ledger.

### DeliveryRuns

`ledger` is the copy on the branch, `current` the runs whose last fetch of the base is
the head; `mem[w].local` is the copy in a runner. `Restore`, `Lookup`, `Enter`,
`Revalidate`, `PublishRelease` and `Gate` are the protocol of `DataRelease` with its
detail abstracted to what a run's copy is worth: whether the files are older than the
base (`old`) and whether the base is still the head. `Ready` is the preflight of the
monitor's batch with all of its gates, `Tells` the checks the lane makes again, `Asks`
the claim (which key, which operation), `Telegram` a send with the recipients that
were confirmed and those whose answer was lost, `Close` the completion and the record,
`StoreLedger` the last publication. `slots` is how many runs the queue admits at once.
`copies`, `heard`, `retold`, `wasted`, `reverting` are history; `retold` records which
run tells which event under an anchor although its ledger has it as told in that state.

### WriterQueue

The code orders runs by times; the model by who came before: `before` is the set of
runs admitted when a run's job started, `ahead` when its artifact was made. `Poll` is
one reading: a complete one shows every active run; an incomplete one misses the runs
in `unseen` and the run's own artifact, which then falls back to the start of its job.
`known` are the blockers a waiter has seen and keeps until they end. Two incomplete
readings do not follow each other: that is the assumption the two empty readings of
the code make, and it is written in `Poll`. `Supersede`, `ChildEnds` and `Deadline` are
the handoff; `Ignored` is the parent a child does not wait for.

### AlertDispatch

The actions of `Cycle` follow `run_monitor` from one database commit or await to the
next: the retry pass (`DueOutbox`, `RetryPost`, `RetryMark`), the poll (`Fetch`,
`Claim`, `Baseline`, `Hold`, `AlreadyDelivered`, `Record`, `FreshPost`, `FreshMark`,
`Finish`). `Post` is the three attempts of `dispatch_repository_payload` as one step:
GitHub takes the dispatch none to three times, and says yes or not. `Workflow` is a
run of `emergency-alert.yml`; `Receipt` is the HTTP thread. `run.result` is what the run
knows of its message, `run.reached` whether it reached anybody: a message whose answer
did not come back counts as failed and may have arrived. `Accident` is a death of
the process, or an exception that ends the pass. `causes` counts the reasons to post a
trace again, `credited` are the traces whose acceptance the monitor wrote down.

## 3. Runs

Every passing run explores its whole state space. The mutants listed in
`PROJECT.json` break every property of every passing run by one plausible mistake
in one modelled definition.

| run | instance | what it shows |
| --- | --- | --- |
| `OutboxRaces` | one decision, two requests, three faults, fair | types, one draft, credit only for sent mail, drafts named, refinement of `OnceOnlyMail`; every decision ends verified, refused or with an alert raised |
| `OutboxQuota` | three decisions, quota of one | mails of the last 24 hours stay within the quota |
| `StoreRecoveries` | any versions, imports muted or not, refusals, evictions, fair | generations come from impacts; only a new impact reopens; recoveries are not passed over but in an incident that a muted import created, and are announced |
| `StoreProducers` | versions as producers write them, critical envelopes, imports | credits stay within what the incident reached |
| `ReleaseCas` | three writers, one of which delivers, two at once past the queue, two faults, fair | the base comparison alone protects the branch; what is installed is reported as failed only when the outcome is open; every run ends |
| `LedgerLock` | three senders of one event, two recipients, one sender killed, an unreadable file | no shared lock without a crash, no second sender and no second copy without an overrun lease, a stolen lock or a save over the claim, nothing recorded is lost; refinement of `AtomicLedger` |
| `Deliveries` | two monitors and a scheduled run, two recipients, an event, a priority event, an anchor, one accident | every copy beyond one per material state that was told has a cause; with one slot what is told is stored |
| `QueueHandoff` | a parent, its child, a third run, main moves twice, fair | one writer, in order, never back, and everybody gets out |
| `Alerts` | two events of a trace, one accident, two accepted dispatches, fair | statuses are earned, posts and copies have causes, the outbox gets out |

*Why these bounds.* One row is enough for races on a row because rows share
nothing but the quota. Two requests are what a race needs, and the theorems of
section 5 cover any number of them; three faults allow a lost call and a missed
search of both sent mail and drafts behind it, the longest chain the code has to
survive for one mail. `OutboxQuota` needs more decisions than the quota admits,
and its quota is one. The store has two impacts where generations matter and two
evidence runs, so that an envelope may change nothing but the evidence; an
incident's integrity only rises, exactly as its evidence grows, and
`StoreRecoveries` leaves it at one value, `StoreProducers` does not. `ReleaseCas`
has a rebuilding writer that restores inside the queue, and two that restore
before it and defer, one of which publishes more files than the others; two writers past
the queue race at the branch while the third waits. The one that rebuilds is also the
one that delivers. Its two faults are any of a failed fetch, a publication that cannot be
prepared, a server error or a lost answer before or after the branch moved, and a
cancelled run: two are what it takes to fail the look at the branch after a server error.
The third server error of one push needs three, and that case is in the theorem only.
`StoreProducers` has one evidence run: with two TLC needs three minutes and finds the
same, and that an envelope repeats without news is in `StoreRecoveries`.

`LedgerLock` needs three processes: a holder that dies, one that removes the stale
lock, and one that acquires in between; and three senders: one that claims while another
completes, and one that claims after the completer's save. With two recipients a send may
reach one of them, so that the key is claimed again. Time runs to 3 with a lease of 2 and
a stale age of 1, so that locks get stale and leases end while their holder works. A
watcher beside them is more than TLC can finish; the theorems cover any number. In
`Deliveries` two recipients allow a partial send, two monitors and a scheduled run
allow each pair of lanes; the constraint `Small` lets the world (ranks, time, other
writers) change twice when the queue admits one run and once when it admits two: a
second material state needs one rise and a cooldown one tick, and an overtaken
run one other writer. `QueueHandoff` is the smallest queue with the circle of
three; the theorems hold for any number. `Alerts` has one trace because rows of
different traces share nothing but the category's cooldown, two events because a
fresh article of a trace is a second event, and two accepted dispatches because the
properties are about the second; a call whose three attempts are all accepted is in the
theorems only.

### Disagreements between code and documents

Three runs check one property each that a comment, a step or a document of the
repository states and that the code does not keep; TLC prints the execution.

- `AlertsAcceptedIsNotPosted`: the check before a fresh dispatch knows `sent` and
  `partial`, but a receipt of full success sets `delivered` (`railway-monitor/app.py:2394`).
- `AlertsLockMeansTold`: the step "Mark verified external event as sent" also runs when
  the send step was skipped (`emergency-alert.yml:237`).
- `DeliveriesUnchangedWasTold`: the monitor stores a new material state before it asks
  whether the state changed (`src/official_event_monitor.py:501`), and a change held
  back once is unchanged ever after.

More, met while modelling and left without a run:

- `incident_coordinator.ts:694`: a row resumed after a lost `drafts.send` and then
  refused is reported as not sent although the mail is, or will be, delivered.
- `:777`: the alert says that the decision is no longer resent; the row stays in the
  set that ticks resume.
- `:536`: the warning of `WARN_MAILS_PER_24H` is in a branch that no row can take.
- `:404`: the producers always write `state_version` 1, and a known incident only
  moves on with a larger one, so recoveries they report are stored as evidence only
  (`docs/operations/luna6-cutover.md:105`).
- `:361`, `:481`: an immediate decision can be taken for an impact of an earlier
  generation.
- `:378`: the evidence key lacks the incident, so the second incident of a run is
  stored without evidence.
- `official-event-monitor.yml:115`: files and base come from two fetches before the
  queue; a release published between them is reverted by the next.
  `BasedReleaseForgetsNothing` is therefore stated for writers whose files are as new
  as their base, and `DeliveryRuns` counts the others in `reverting`.
- `src/data_release.py:127`, `:129`, `:132`: a push that is accepted is reported as failed
  when it is answered by something that is no server error, when it is the third and
  answered with one, and when the fetch that would find it fails; the docstring (110)
  says that an installed candidate is success. `InstalledIsReported` says that these
  three are all. It speaks of the head: when another writer has built on a hidden commit
  before its own looks again, that is reported as `remote_ref_changed`.
- `incident_coordinator.ts:435`, `:441`: the mute of an import is computed for a known
  incident and not written, so an import that changes one leaves the change to the next
  digest; and a new incident that comes with two envelopes in one snapshot is muted at
  the version of the first. `docs/operations/luna6-cutover.md:12` calls the snapshot
  notification-suppressed.
- `src/event_ledger.py:1038`: `_merge_record` lets an older copy write its
  `material_state` over a newer one, where its docstring (1012) promises not to drop
  newer evidence. `NothingIsForgotten` leaves that column out.
- `src/event_ledger.py:1167`: `_merge_claim` merges "without allowing stale writers to
  regress it", and compares `updated_at`. But `claim_notification` reads the clock before
  it waits for the lock (1229, 1232), so a claim may be dated earlier than a completion
  that was in the file when it was made. The completing sender then records its delivery
  and saves, its memory is the newer one by date, and the claim in flight becomes
  `retryable` again: a third sender claims the key while the second is sending.
  `OneSender` and `CopiesHaveCauses` of `EventLedger` hold but for keys in `undone`.
- `docs/data-release-ordering.md:6` says that every publisher shares the concurrency
  group `main-data-writer`; the workflows use `main-data-writer-${{ github.run_id }}`,
  one group per run, and leave the ordering to `src/writer_queue.py`.

## 4. Fairness

`IncidentOutbox`: a request that began goes on (`WF` of its steps: the platform
resumes it and every call is cut off after 10 s), leases expire and rows age
because time passes, and each pending row is visited again and again (`SF` of
`Pick`, because a row is not pickable while every request is busy): the heartbeat
calls `tick`, which visits the 20 oldest pending rows. That last assumption holds
as long as no more than 20 rows are pending; `PROJECT.json` lists it as a hazard.
Nothing is assumed of calls that were given up on. Faults are bounded: an endless
outage would leave every row pending, and no liveness can be promised then.

`IncidentStore`: ticks go on, windows pass, and Gmail does not refuse every digest
for ever (`SF` of `MailSent`); the object is not evicted in every single tick.

`DataRelease`: the steps of a run that began are executed, and a queued run polls
the queue, so it enters when the slot stays free. No strong fairness is needed,
because every run ends.

`WriterQueue`: a run that began goes on, complete readings come (`WF` of `Advance`, of
which `Poll(w, TRUE, {})` is a part: a waiter polls every few seconds and lag passes),
a parent's slot comes to its end. That a waiter runs out of its budget is an action
and gets no fairness: nobody needs it.

`AlertDispatch`: the loop goes on and Railway restarts a dead process (`WF` of `Cycle`),
backoffs end, and GitHub does not refuse the same dispatch for ever (`SF` of a retry
that is accepted). `EventLedger` and `DeliveryRuns` state no liveness: a waiter for the
lock may time out, and a run may lose its runner, and both are then simply over.

## 5. Proofs

`IncidentOutboxProofs` proves, for every set of decisions, every set of requests
and every limit, `TypeOK`, `OneDraft`, `CreditedIsSent`, `ReadyHasDraft` and the
refinement `KeepsPromise`, and `WithinQuota`. They assume `OutboxAssumption` of the
module and nothing else.

*Why an invariant is needed.* None of these formulas is inductive: that Gmail is
asked for one draft says nothing about who may still ask. The strengthening counts
the *right to create*. A decision that was never drafted has one such right, and
it is in exactly one place: with the row while it is `reserved`, with the one
request that claimed it and has not had its answer, or with a call that was given
up on. `clearOutboxLease` never gives it back, because no code writes `reserved`
to an existing row: that is the fact that makes losing an answer safe, and the
mutant `NotFoundRebuild`, which rebuilds what was not found, breaks it. The other
conjuncts bound drafts by `created`, tie what a request holds to what Gmail has,
and say that a request that is about to credit has a message in the sent mail.

`WithinQuota` counts sent mails, `reserveDecision` counts rows. Between them lie the
decisions that are *admitted*: those that have a draft or still hold the right to one
(`Admitted`). A refused row never gets that right, an admitted row of the last 24 hours
is among the rows that are counted (`AdmittedIsCounted`), and only `Reserve` admits one,
when the count leaves room.

`DataReleaseProofs` proves, for every set of writers, every partition of them,
every capacity of the queue and every number of faults, `TypeOK`,
`BasedReleaseForgetsNothing`, `PartialKeepsOthers`, `LedgerFollowsRelease`,
`DeliversPublished` and `InstalledIsReported`, from `ReleaseAssumption`. That the
capacity does not matter is the point: these rest on the compare-and-swap of the branch alone, and the
queue only spares writers the loss of their work.

*Why an invariant is needed.* The formulas speak of the commits on the branch, and
a step adds one whose files, base and origin were fixed many steps before. The
strengthening says what a writer may count on while others move: the files in its
runner hold what their source held (`HoldsSource`); a commit it is pushing has the
expected base as its parent (`OnItsBase`), so that if it is found on the branch
after a server error it can only be at the place right after that base
(`OwnPlace`), and is not there before the push (`NotYet`); a writer that records a
delivery never looks its base up again (`RecordsOnly`). `AcceptKeepsBranch` is the
one place where the branch grows; `OthersKeep` shows once that a step of one
writer disturbs no other. `InstalledIsReported` needs to know what a writer has looked
at: after each server error it fetches before it pushes again (`Looked`), and whoever
failed has ended (`ReportInv`). So an error that does not leave the outcome open is raised
only by a writer whose commit is not the head (`Honest`), and it does not become the head
later.

`IncidentStoreProofs` proves, for every set of incidents, impacts, evidence runs and
mails, `TypeOK`, `GenerationsHaveImpacts` and `OnlyNewImpactReopens`, from
`StoreAssumption`, with imports of any envelope among the steps. Two more theorems have a
hypothesis, and are false without it:

- `CreditIsReached` for producers that all write one `state_version` (`OneVersion`), as
  those of `scripts/` do (`incident_ops_import.py:349`, `incident_ops_sync.py:330`).
  `reserveCritical` credits the version of its envelope, and an envelope with a larger
  version than the one stored would be credited ahead of the incident.
- `PassedOverIsTold` when nothing is decided outside the digests (`NoImmediate`). An
  immediate mail names the lifecycle of its envelope and not that of the incident, so a
  replayed critical envelope of a recovered incident credits the recovery as active.

*Why an invariant is needed.* That the credited version was reached says nothing of the
mails that are going to credit more: `CreditInv` says the same of what is due, selected
and reserved. `ToldInv` adds that a mail says one thing of an incident, and of the present
version the lifecycle the incident has (`Truthful`): a version is never reused for another
lifecycle, so a mail that has waited for long is either old or right. An import that is
muted creates its incident, so that no mail names it yet; every other import credits
nothing and is like any envelope.

`WriterQueueProofs` proves, for every set of writers, every choice of parents and
children, every incomplete reading and every number of revisions, `TypeOK`,
`OneWriter`, `NoOvertaking` and `NeverGoesBack`, from `QueueAssumption`.

*Why an invariant is needed.* That one run is past the queue says nothing about the
next one that may pass. Of two admitted runs one is ahead of the other (`Ranked`);
a run that has read a complete and empty list has nobody ahead but the parent that
waits for it, and because whoever is admitted later is behind it, that stays true until
it has left (`Reading`, `Settled`). Of the two empty readings one was complete. A child
ignores its parent, so the two need an argument of their own: the child exists only
once the parent has handed over (`HandedOver`), and is then not past the queue. `Fresh`
says that whoever passed the last comparison of revisions holds one that is not older
than the last published.

`EventLedgerProofs` proves, for every number of processes, keys and recipients, every
lease, timeout and bound on time and crashes, `TypeOK`, `OneHolder`, `OneSender`,
`CopiesHaveCauses`, `NothingIsForgotten` and the refinement `ActsAtomically`, from
`LedgerAssumption` and `LockAssumption`
(a process is a trace, there are finitely many, and the contents of an unreadable file
are no ledger).

*Why an invariant is needed.* Release and the removal of a stale lock take away whatever
lock file is there, so exclusion is not a matter of the lock alone. Until somebody has
removed a lock he had not judged, whoever is inside owns the lock file and is not yet
old enough to be judged (`Guarded`), and a lock that was found stale is that of a dead
process (`Owned`, `Judged`); before the first crash nobody is dead, and nothing is ever
removed wrongly (`Unharmed`). Hence what was read under the lock is what is in the file
when it is replaced (`UpToDate`). The rest is about the operators of `LedgerClaims`, and
lies in `LedgerClaimsProofs`: each of them maps ledgers to ledgers, the recipients and
deliveries of the result include those of its argument, and only the claim of its key
changes.

`FileIsAtomic` maps the steps to those of `AtomicLedger`: opening, sending and the release
after a completion may call, giving up or dying before the write abandons, and each of
the three writes takes effect, because `UpToDate` makes the copy that was read the file
that is written over (`TakesEffect`). All other steps are invisible. Nothing is promised
once a lock is torn, and nothing could be: two processes are then inside.

`OneSender` rests on what the file says of a sender that is in time (`ClaimsStand`): its
claim is in flight there with its lease, or every recipient has been reached, and either
keeps any other claim out, because a claim is asked for with a time that is not later
than now. It ends by the sender's own completion, since nobody else can be closing in
time, or by a save. A save is where it fails: see `_merge_claim` in section 3. The theorem
says that there is no other way.

`CopiesHaveCauses` compares a number of messages with a number of processes, so its
invariant (`RoundInv`) counts. Two senders can be in time together once a third has closed
its claim late, because closing sets the claim free whosever it is. `Fits` bounds them:
at most as many are in time together as claims were closed late, and one more only while
the file keeps everybody else out. That bounds who may tell a recipient as long as he is
not in the file (`FreshArePaid`). Once he is there no new claim addresses him, whoever
told him stays so or gets a cause of his own, and so the same bound lasts (`Paid`,
`OneStaysPaid`). `Told` links the two: whoever told somebody and closed has put him into
the file, so that nobody is told outside the count.

`DeliveryRunsProofs` proves, for any number of monitors and schedulers, every set of
events, anchors and recipients, and any of the bounds, `TypeOK`, `ToldIsStored`,
`BranchKeepsClaims` and `CopiesHaveCauses`, from `LedgerAssumption` and
`DeliveryAssumption` (a run is a monitor or a scheduler, not both; there are finitely many
runs and recipients).

*Why an invariant is needed.* What a release does to the ledger of the branch is decided
when its run restored its copy. `Based` says that as long as the base of a run is the
head, and its files were those of the base, its copy keeps every recipient and every
uncertain claim of the branch, through each operation of `LedgerClaims` it performs;
`Shape` says what the run has in hand while it performs them, of which the part that
matters is that the claim it closes is in flight and not uncertain. `Placed` is the
other half: with one run in the queue at a time, whoever works has the head.

`CopiesHaveCauses` bounds the messages of a recipient by material states, retellings,
accidents, lost ledgers and reverted ones at once. Its invariant (`CopyInv`) says who is
*owed* a copy: a recipient of whom the ledgers that will be asked do not know that he was
told, or an event that a monitor which has the head will tell again (`Owes`). The copies
made and the copy owed are within the bound (`Paid`), where of the causes only those count
that are over: the runs that have told what they will tell and lost the head (`Spent`), and
the retellings that were sent (`Retold`). So a message to somebody who was owed one costs
nothing; one that nobody owed is sent by a run without the head, which is then spent, or
under an anchor, or in a state nobody was told before; and what a ledger forgets is paid
for by the accident, the lost ledger or the reverting release that made it forget. Three
conjuncts make that an invariant: the rows of a ledger are never ahead of the snapshot
they were made from (`Rows`), a run that has the head has seen every state that was told,
and only one such run works at a time (`Heads`), and a claim in hand names nobody who is in
the ledger already (`Trail`). `EndsPays`, `LanePays`, `TelegramPays` and `CommitPays` are
the four ways a step can change a debt; `Balance` is the arithmetic they share.

The attempt corrected the property. It used to grant one more copy per event that is told
again under an anchor. With two anchors that is false, as TLC shows on an instance with two
scheduled runs and two anchors: while the event's own claim is `retryable`,
`scheduled_delivery.py:535` skips the look at what was told, and each further anchor repeats
the event. `retold` therefore counts runs and events; and instead of the rank an event has
reached the bound takes the states somebody was told, which is less.

`AlertDispatchProofs` proves, for every set of events and traces and every bound on posts
and accidents, `TypeOK`, `StatusIsEarned`, `PostsHaveCauses` and `CopiesHaveCauses`, from
`DispatchAssumption`.

*Why an invariant is needed.* The row of the outbox has two writers, and the batch of a
retry pass is read before either of them. So the right to post cannot be read off the
row. The invariant says when the posts of a trace are *paid for*, each but the last by its
own cause (`Paid`): while its row is pending or failed and no accepted answer waits for
its mark, while it lies in the batch of a retry pass, whatever a receipt has made of the
row since, and when it is about to be posted fresh. A lost answer pays at once, an
accident before the mark pays for the mark, a receipt of failure pays for the retry it
causes. The copies rest on `Remembered`: what was told is covered by cache entries that
are missing, except for the one run in progress, whose event has no entry.

*Layout.* One lemma per action shows that it preserves the invariant; `NextKeeps`
joins them; each theorem is one temporal step on top. In the queue the actions that
end a run share `EndsKeeps`, and those that change nobody's place `StaysKeeps`. The
refinements add, for every step of the outbox and of the ledger file, which step of
`OnceOnlyMail` or `AtomicLedger` it is.

*Model-checked only.* Liveness (`EveryDecisionSettles`, `RecoveryIsAnnounced`,
`EveryRunEnds`, `RecordedIsDispatched`), which is outside what the prover does, and the
properties of the three runs that expect a violation, which are false.

## 6. Not modelled

See `PROJECT.json` for every part. Numeric and textual transformations (market
data, news scoring, rendering), which are most of the repository's lines, have no state
that outlives a run and are left to the unit tests; so are the validators of manifests
and sites. Routing and authentication (`worker/src/index.ts`) are requests that are
either admitted or not. Of the coordinator, the inbox receipts, the bookkeeping of imported
snapshots (an import that is resumed stores its envelopes again, which the model allows
at any time) and the legacy windows and decisions of the import are not modelled; of the
ledger, the provenance rules; of the queue, single HTTP requests.

Of the alert dispatch two ways of forgetting are left out, both of what is long over. Each
cycle prunes outbox rows that were `sent` or `partial` for 30 days and ledger rows as old
(`railway-monitor/app.py:2308-2312`), and GitHub evicts cache entries that are not used or
do not fit. After the first a trace can be posted again as if it were new, after the
second an event can be told again; `PostsHaveCauses` and `CopiesHaveCauses` of
`AlertDispatch` hold for as long as neither has happened.

The Gmail history of the Railway monitor, the Supabase queues and the
reconciliation scripts keep state and are not modelled yet.

The models of the ledger, the branch and the queue are composed by what they promise
each other, not into one state space: `DeliveryRuns` takes `slots` from the queue
(`OneWriter` says it is 1 when listings are as assumed, and the run also checks 2) and
compare-and-set from `DataRelease`.

## 7. Plan

Done: the outbox, the store, the branch, the ledger, the queue, the delivery runs and
the alert dispatch with their proofs. Next, in this order:

1. The Gmail history: cursor, push handler and bounded sync.
2. The inbox receipts and the backlog of the outbox (the LIMITs of `tick`).
3. The Supabase queues, the reconciliation scripts.
