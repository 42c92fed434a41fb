# A TLA+ verification of SentinelAI

SentinelAI ingests security logs over HTTP, scores each of them in a worker,
stores alerts and shows them on a live dashboard; an agent ships log files to
it. This directory holds TLA+ modules of the parts of the program that keep
state and run concurrently, configurations that check them with TLC on small
instances, and theorems that TLAPS proves for every value of the constants.
All paths below are relative to `src/`.

## 1. Inventory

| Part | Source | State | Operations | Hard behaviour | Module |
|---|---|---|---|---|---|
| Log ingestion | `app/services/log_service.py`, `app/api/logs.py` | a row per log, its `enqueued` flag | `ingest_log` | a commit, a push and a second commit, each may fail, be applied unanswered, or be the last thing the handler does | LogPipeline |
| Redis queues | `app/services/queue_service.py` | main, processing and dead-letter lists | `enqueue`, `dequeue`, `acknowledge`, `retry_or_dlq`, `recover_processing_queue` | moves in two commands, lost replies, stale entries, several messages for one log | LogPipeline |
| Alert worker | `app/workers/alert_worker.py` | the message in hand | `run`, `_process_message`, `_sweep_unenqueued_logs` | crashes between any two calls, an exception handler that repeats work, races with the handlers | LogPipeline |
| Baseline store | `app/services/baseline_store.py` | a ring of feature vectors | `add` | a quota over a ring that evicts | Retraining |
| Isolation engine | `app/services/isolation_engine.py` | the model, its score, counters, a flag | `should_retrain`, `retrain_async`, `restore_from_redis` | a task beside the main loop, a difference of sizes used as a count, restarts | Retraining |
| Log agent | `sentinel-agent/` | a bounded queue, a batch, a stop event | watcher, sender and main threads | blocking put, retries of half-sent batches, a rate limiter, threads that die | LogAgent |
| Realtime fan-out | `app/realtime/connection_manager.py`, `app/api/dashboard_ws.py`, `app/main.py` | a queue and a task per dashboard | `connect`, `disconnect`, `broadcast`, `_sender`, `lifespan` | three tasks that remove the same entry, cancellation at any await, slow clients, the end of the process | Dashboard |
| File tail | `sentinel-agent/watcher.py` (FileState) | handle, signature, position | `poll` | rotation and truncation between two system calls | FileTail |
| Scoring | `rule_engine.py`, `statistical_engine.py`, `profile_store.py`, `scoring_engine.py` in `app/services/` | sliding windows per address | `evaluate`, `record`, `compute` | windows fed by retries, severity and score that must agree | Analysis |
| Metrics | `app/metrics.py`, the loop in `app/main.py` | counters in Redis, a cached answer, its age and its lock | `increment_async`, `snapshot_async`, `compute_metrics_response` | a cache filled across awaits while the table changes, callers that queue, fail or are cancelled, two stores in one answer | Metrics |
| Dashboard page | `sentinel-frontend/src/lib/useDashboardWebSocket.ts`, `.../dashboard/page.tsx`, `list_alerts`, the Pub/Sub functions of `queue_service.py` | the list of alerts, requests in flight, a socket | polling, pushed alerts, paging, reconnect | answers and pushes in any order, late publishes, lost events, a total that counts twice | Screen |
| Read APIs, authentication, schemas, settings, deployment, presentation | see `PROJECT.json` | none of their own | queries, checks, configuration | - | not modelled |

How they interact: the agent posts to `POST /logs`; `ingest_log` writes the row
and pushes a message; the worker moves messages from the main to the processing
list, scores the log, writes the alert, acknowledges, and publishes the alert
on a Redis channel; the bridge in the API process hands each published event,
and the metrics loop each snapshot, to `ConnectionManager.broadcast`; every
open dashboard has a task that sends what its queue holds. In the worker a safe
log also feeds the baseline store, and enough of them start a retrain task.

`PROJECT.json` lists every hazard at its line, with the properties that cover
it or a note why none does yet.

## 2. Modules

| Module | What it is |
|---|---|
| `LogPipeline` | handlers, Redis lists, tables and the worker; the core |
| `LogDelivery` | what the pipeline promises of each log, without handlers, lists or a worker |
| `LogRefinement` | the refinement mapping from the first to the second |
| `LogPipelineProofs` | theorems about LogPipeline, and that it implements LogDelivery |
| `Analysis` | the worker's windows and engines, and what becomes of a log |
| `AnalysisProofs` | theorems about Analysis |
| `Retraining` | baseline store, isolation engine, the part of the main loop that feeds them |
| `RetrainingProofs` | theorems about Retraining |
| `LogAgent` | the three threads of the agent and the rate limiter they post against |
| `Shipping` | what the agent promises of the lines of a file, without threads, queue or signals |
| `AgentRefinement` | the refinement mapping from LogAgent to Shipping |
| `AgentProofs` | theorems about LogAgent, and that it implements Shipping |
| `Dashboard` | ConnectionManager, WebSocket handlers, the two broadcasting tasks and their end |
| `DashboardProofs` | theorems about Dashboard |
| `Metrics` | the counters, the cached metrics and those who ask for them |
| `MetricsProofs` | theorems about Metrics |
| `FileTail` | how the watcher follows one file that is written, rotated and truncated |
| `FileTailProofs` | theorems about FileTail |
| `Screen` | one browser's list of alerts, from the worker's publish to the rendered page |
| `ScreenProofs` | theorems about Screen |
| `MCPipeline`, `MCAnalysis`, `MCRetraining` | model values, definitions and symmetry sets for TLC |

### How a module corresponds to the code

The Python services run on one event loop each, so a step is the code between
two awaits: nothing else of that process can run in it. A call to PostgreSQL or
Redis is one step with an outcome: `ok`; `refused`, not applied and an exception
is raised; `unanswered`, applied and an exception is raised all the same (a
timeout, a broken connection). Reads have no third outcome. The agent's threads
are preempted, but its shared state is a `queue.Queue` and an `Event`, whose
operations are atomic; steps are those operations.

**LogPipeline.** `row` is the logs table (no row, `enqueued` false or true),
`alerts` the alerts table by its unique `log_id`; `mainQ`, `procQ` and `dlq` are
the lists. A message keeps its log, its retry count and `started_processing_at`,
the latter as absent, at most or more than 30 s old (`Age` is the passing of 30 s).
`req[l]` is the point `ingest_log` has reached for log `l` or how it ended, `wpc`
the point the worker has reached. `held` says where the worker's message still is
beside its memory; it stands for whether the LREM of the exact string finds the
entry. `attempt` tells a `retry_or_dlq` called in `_process_message` from
the one called by `run()`'s `except`. `selected` and `flagged` are the rows of the
sweep that are still to enqueue and whose flag is set but not committed. The
verdict of the engines is a free choice, so what is shown holds for any scoring;
`Analysis` says what the scoring is.
`handled`, `announced`, `torn` and `tries` are history: no guard reads them.

**Analysis.** One message is followed from `_process_message`'s reads to the
acknowledgement, in two atomic parts around the `await` of the isolation score. A
window holds the ages of its entries, and time passes between messages: what is
evicted depends on ages only. Level and text of a log are reduced to what the engines
ask of them (`Kinds`). Scores are in units of 1/10000, the precision the code rounds
to (a division is cut off where the code rounds once at the end). A message whose
commit or acknowledgement fails, or whose worker dies, comes again and is counted
again unless its alert was stored; new windows start empty. `seen` is history.

**Retraining.** A vector is the address it came from, a model its number of
correctly ordered holdout pairs; the tolerance of 0.05 is less than one of the 12
pairs, so `disc < prev - 0.05` is `<` on pairs. The cooldown is a bit that
`CoolDown` clears. `Readable` is FALSE for the artifact: the shared client decodes
replies as UTF-8 and no pickle is UTF-8; the branch of a successful restore is kept
so that the model follows the code when that changes.

**LogAgent.** Lines are numbers in file order. `batch` is `run()`'s batch, and, while
it is flushed, the `pending` of `_flush_batch`. A post is accepted, refused for
good, limited, refused or accepted without an answer. `Impossible` names lines
whose timestamp has the right form and is no date. `Exit` covers both joins with
their time limits and the death of daemon threads with the process. The length of a
back-off is left out, and with it the count of attempts. `AgentRefinement` maps the
line `post` is called for next to Shipping's `cursor`, the first line of its batch to
`base`, and a state from which no line will be posted any more to `Over`.

**FileTail.** A step is one system call, since other processes run between any two:
the stat and the open of `_open`, a read, the stat of `_needs_reopen`. A file is an
inode; a line is written in two halves so that a poll may meet a partial one. `raced`
(the path changed between the two calls of one `_open`) and `eof` (how much had been
written at the last read of a file before the check) are history. LogAgent's `Poll`
is the poll of a file that nobody rotates.

**Dashboard.** `link` and `handler` are the WebSocket and its endpoint coroutine,
`registered` the keys of `_connections`, `queue`, `sender` and `payload` each
connection's queue and task, `cancelled` the tasks with a cancellation they have
not seen yet, `stale` and `awaited` the loop of `disconnect` calls at the end of a
`broadcast`. The sections under `_lock` contain no await, so the lock is never
found taken and needs no variable. A cancelled task that never ran ends without
its `finally`; one that is closing its socket gives up closing. `life` is the end of
the process: uvicorn fails the sockets and waits for their handlers (external), then
`lifespan` cancels both casters and awaits them. A caster within `disconnect` is
waiting for a sender task: its cancellation goes to that task, comes back as
CancelledError and is swallowed by the `except` at `connection_manager.py:45`; it is
`"deaf"` and runs on.

**Metrics.** `queue` is `_metrics_cache_lock`, its holder first, `pc` the await each
caller is at. Times are ages that `Tick` advances up to the TTL: `stamp` of the cached
answer, `now` of the clock reading the holder will stamp it with, `age` of the last
change of each alert. `alerts_created` stands for all five counters, which are written
and read the same way, and an answer's three sums for the alerts they count: where the
bands lie changes no state. `Store` and `Count` are two awaits of the worker with a
commit of unknown outcome and a lost count between them; `Withdraw` is the cascade of
`RejectLog` in LogPipeline. `shown` is what the broadcast loop sent last. The cache, the
lock and the fallback counters are those of one API process; `known` is history.

**Screen.** `page`, `sort`, `alerts`, `total` are DashboardPage's state, `fetches` the
requests of the current effect (those of an earlier one are ignored when they are
answered, so they are dropped at once). A step of the page is one callback with the
rendering and the effects it causes, which React runs before the next event: a new
view cleans up the fetch effect and sends a request, a total below the offset moves
to the last page. `list_alerts` counts and selects with two statements, and an alert
may be stored in between. `wire` is what Dashboard delivers: in order, or lost with
the connection. Each publish is a task of its own, so events may overtake each other.

## 3. Runs

| Run | Checks | What it shows |
|---|---|---|
| PipelineSafety | TypeOK, NoSilentLoss, DeadLetterEarned, ToldTrue, DeliveryRefined | with two deaths and a failing call anywhere: an accepted log is only lost in the window between an LREM and its LPUSH; dead letters were tried MAX_RETRIES times; a log answered 429 leaves nothing behind and announced alerts stay stored; LogPipeline implements LogDelivery |
| PipelineServed | LogServed | every log that was accepted or has a message is served, also after a death and a failing call, or waits for the next start of an idle worker in one of two ways: stranded in the processing list, or unflagged without a message |
| PipelineLoss (violation) | NoLogLost | that window exists, against `log_service.py:59` |
| AnalysisRun | TypeOK, WindowsExact, BurstReal, VerdictConsistent | every log is judged by what a recount of the window gives; a burst is real up to the logs counted again after a failure; a log is an alert or safe for the baseline; stored severity and score agree |
| RetrainRun | TypeOK, QuotaHeld, RetrainEarned, NeverWorse, RetrainEnds, FirstModel | quota, trigger, evaluation and the end of every retrain |
| RetrainRestore (violation) | RestoredOnStart | the model is never restored, against `alert_worker.py:11` |
| RetrainStall (violation) | NewSamplesUsed | with a nearly full ring retraining stops for good, against `isolation_engine.py:143` |
| AgentRun | TypeOK, NoGap, ShippingRefined, EveryLineSettled, AgentEnds | order and completeness of what is shipped, and no repetition but that of a failed batch from its first line: LogAgent implements Shipping; the agent ends when it should |
| TailRun | TypeOK, InOrderOnce, LostOnlyInWindows, Converges | unless the file is exchanged between a stat and an open no line is returned twice; a line is lost in five windows only, each of which exists; after the last rotation the watcher rests on the file at the path |
| ScreenRun | TypeOK, NoTwice, OwnView, LeavesListFor, Converges | no push, poll or late answer lists an alert twice or in a foreign view; an alert leaves the first page only for the reasons named; after a quiet time list and total are what the database holds |
| DashboardRun | TypeOK, RegisteredServed, GapFree, LostDropped, BroadcastEnds, ShutdownEnds | no dashboard shows a gap, a repetition or a disorder; slow and leaving clients are cleaned up and hold up nobody; the process ends unless a cancellation was swallowed |
| MetricsRun | TypeOK, Fresh, ScansSpaced, Settles | no answer is older than the TTL at the time it was asked for, scans are spaced by the TTL however many callers queue, and the dashboards come to show what the stores hold |

Every property of a passing run has a mutant in `PROJECT.json`: a plausible
mistake in one definition of the code with which TLC finds the property violated.

### Bounds, and why they are enough

- *Two logs.* Interference between logs goes through the queue's depth, the order
  of lists, the sweep's common commit and the worker that is busy with another;
  each needs two. The logs are symmetric.
- *MaxRetries 2* (3 in the code) has a first attempt, a retry and a last attempt;
  *MaxDepth 1* makes QueueFull happen in handlers and in the sweep.
- *MaxCrashes 2, MaxFaults 1*: a death in normal work and one in the recovery from
  it, and one failing or unanswered call at any place. The liveness run has one of
  each and MaxRetries 1. They bound what the environment does, not the program. Without
  either way to wait for the next start TLC finds LogServed violated.
- *Three logs, one of them possibly twice, threshold 2, windows of 2 and 3 entries*: a
  burst needs every log or one counted twice, both bounded windows overflow, and
  every entry can expire. The weights are 3, 4 and 3 tenths because with those of
  `config.py:28` (5, 3, 2) a triggered rule alone is above MEDIUM and the lift never
  applies. Without `+ faults` in BurstReal TLC finds a violation.
- *Ring 4, quota 2, interval 2, 3 scores*: the ring wraps, the quota binds, two
  retrains fit before the ring is full, and scores rise and fall.
- *Five lines, queue 2, batch 3, rate 3*: the queue fills, a batch is cut by the
  limiter in the middle, a batch goes back by one line and by two, a partial batch is
  flushed. `BatchSize <= Rate` is the condition under which the agent makes progress:
  with a rate of 2 TLC finds EveryLineSettled violated. The documented bound (20
  against 300) satisfies it, the one in `config.py:74` (5000) does not.
- *Three files, three lines, three renames or truncations, one failing call*: a file is
  rotated twice within a poll, truncated and grown back, written to after its last read
  and exchanged between a stat and an open. Without any one of the five windows of
  LostOnlyInWindows, or without `~raced` in InOrderOnce, TLC finds a violation.
- *Pages of two, three alerts, two requests, two clicks, one fault*: the list overflows
  its page, there is a second page, one that exists only by the overcounted total, and
  an older request may be answered after a newer one. Without either exception of
  LeavesListFor TLC finds a violation.
- *Two dashboards, two broadcasting tasks, queues of 1, three events*: a queue
  overflows while another does not, and both tasks disconnect at once. The end of the
  process shares the one fault with a leaving client and a send that times out; it makes
  every client leave. Without its exception for a swallowed cancellation TLC finds
  ShutdownEnds violated.
- *Three callers, two alerts, a TTL of 2, one fault*: one caller holds the lock while two
  wait, so that the first of them may fail, and an answer may be new, half old or
  old. Two alerts let one be stored and another deleted during one scan.

TailRun and ScreenRun check for deadlock: a poll can always go on. The others do not: deaths, faults, lines and events are bounded
and no client has to send anything, so every system here may rightly come to rest.
That nothing waits for ever is what the liveness properties say.

### Fairness

Weak fairness only, and none for clients, signals, faults or deaths.
*Pipeline*: a handler that began runs on (the event loop), the worker is restarted
(`restart: unless-stopped` in `docker-compose.yml`) and runs on, time passes.
*Retraining*: the fit's thread and the loop run, the container restarts, the cooldown
passes; for FirstModel and NewSamplesUsed every address keeps sending safe logs.
*Agent*: the operating system runs each thread, minutes pass. *File
tail*: the watcher thread keeps polling. *Screen*: publish tasks run, the bridge and
the socket reconnect (their back-offs are bounded by 60 s and 30 s), the interval fires,
and the oldest request is answered. *Dashboard*: the loop runs each task, and a send ends within `send_timeout_s`; that
the process is told to end is not assumed, that lifespan runs on is. *Metrics*: the
broadcast loop calls again after its sleep, whoever is inside `compute_metrics_response`
runs on, time passes; no request has to come.

## 4. Proofs

Each theorem holds for every value of the constants under the named assumptions of
its module, which only say that bounds are natural numbers (positive where the code
needs it: at least one attempt, room for one entry, a threshold of one)
and that the model values for "nothing" are not values. No theorem bounds the number
of logs, lines, clients, deaths or faults. An invariant that a run checks is seldom
inductive: each proof below names the strengthening, which TLC checked before it was
proved, and shows action by action that every conjunct the action can disturb is kept.

**LogPipeline, and that it implements LogDelivery** (`LogPipelineProofs`)

- `PipelineTypes`: `[]TypeOK`. That a retry count stays at most MaxRetries, and that
  `cur` is a message where the code uses it, follow from the worker's position
  (`CurTyped`). The two together are the invariant `TypeInv`.
- `PipelineLosesOnlyTorn`: `[]NoSilentLoss`. The strengthening `LossInv` says
  where each log's obligation lies at every point: a row exists from the first
  commit on unless the log is being rejected (`RowPresent`); a log not yet submitted
  has left no trace (`NewUntouched`); an alert means handled (`AlertsHandled`); a log
  past its push, or flagged by the sweep, is owed a message (`Owed`, `OwedAccounted`);
  a message is acknowledged only when its log is handled (`AckEarned`); and a message
  that is only in the worker's hand is held at the two points of a move (`HandOnly`).
- `DeadLettersAreEarned`: `[]DeadLetterEarned`. Wherever a message is, it was tried as
  often as it says; `EarnInv` adds that the one being processed was tried once more
  (`TriedNow`). The lemma `EarnMove` covers every step that only moves messages.
- `ToldStaysTrue`: `[]ToldTrue`, from `ToldInv`: every alert has its row.
- `PipelineImplementsDelivery`: `Spec => DeliveryRefined`. Initial states map to initial
  states, and every step to one step of LogDelivery or a stutter. `RefInv` adds to
  `LossInv` that what the recovery has listed, and what the worker works on, is still
  tracked in some list or was torn (`TodoTracked`, `CurTracked`), so that no step brings
  a lost log back, and that a log nobody submitted has neither message nor verdict.

**Analysis** (`AnalysisProofs`), for any weights, thresholds, windows and addresses

- `AnalysisTypes`: `[]TypeOK`; in particular scores stay within 0..1 whatever the weights.
- `VerdictsAreConsistent`: `[]VerdictConsistent`. `VerdictInv` says that what is decided is
  what `compute` returned and that only a log with a severity reaches the commit; the
  rest is the lemma `ComputeProperties` on the lift of a score to its band.
- `BurstsAreReal`: `[]BurstReal`. `BurstInv` maps the entries of a window one to one to
  evaluations of that address (`Traced`), in order of age (so that popping the front
  evicts exactly the expired ones), and charges every evaluation of a log that was
  evaluated before to a failed delivery (`RepeatsPaid`). The theorem then is a
  counting argument: the distinct logs are the evaluations less the repeated ones.
- `WindowsAreExact`: `[]WindowsExact`. `ExactInv` maps the entries of each window in order to
  the evaluations the window is about (`Follows`): those it leaves out are older than all
  entries and have no place in it, as they expired or as many newer ones as the window
  holds followed (`Out`), and neither ever changes back. Appending, dropping the oldest,
  evicting and ageing each keep it (`AppendKeeps`, `BoundedKeeps`, `EvictKeeps`, `OlderKeeps`);
  once nothing expired is left, the map is a bijection to what a recount finds
  (`Recounted`).

**Retraining** (`RetrainingProofs`)

- `RetrainsAreEarned`: `RetrainEarned`. The invariant `EarnedInv` adds to TypeOK
  that the ring's size is at most the size at the last accepted model plus the
  vectors stored since, as long as those are fewer than the interval (`Measured`);
  the test on sizes in should_retrain is then a test on new vectors. (The converse
  fails: that is RetrainStall.)
- `ModelsNeverGetWorse`: `NeverWorse`, and `RetrainingTypes`: `[]TypeOK`, from the same
  invariant.
- `QuotaIsHeld`: `[]QuotaHeld`, by counting an address's positions in the ring before and
  after `add` drops the oldest vector and appends the new one.

**LogAgent, and that it implements Shipping** (`AgentProofs`)

- `AgentTypes`, `AgentSkipsNoLine`: `[]TypeOK`, `[]NoGap`. `AgentInv` says what the place of
  each thread means for what it holds (`Places`); that batch, queue and the watcher's
  hand, read in this order, are one run of consecutive lines (`Held`); that the batch
  before `index` is settled (`SentSoFar`); that every line read is settled, held or
  abandoned (`NoneLost`), the last only after a stop or the death of a thread (`GivenUp`).
- `AgentImplementsShipping`: `Spec => ShippingRefined`. Under `AgentInv` a post moves
  Shipping's cursor, a failed flush takes it back to the base, and nothing else moves it
  but the end.

**Dashboard** (`DashboardProofs`)

- `DashboardTypes`, `EveryEntryIsServed`, `DashboardsHaveNoGap`: `[]TypeOK`,
  `[]RegisteredServed`, `[]GapFree`. `DashInv` says which places of handler and sender an
  entry goes with (`Places`), and that what a client saw, is being sent and has queued is
  in order and, while it is registered and not about to be dropped, the run of all events
  since it joined (`Shown`).

**Metrics** (`MetricsProofs`)

- `MetricsTypes`, `AnswersAreFresh`, `ScansAreSpaced`: `[]TypeOK`, `Fresh`, `ScansSpaced`.
  `MetricsInv` says that the counter counts each alert at most once (`CountedOnce`), that
  only the head of the lock's queue is inside (`Held`), and that a count taken some time ago is
  right about every alert that has not changed since (`Current`): for the cached
  answer at its stamp, and for the holder's scan at its clock reading. Every action that ages
  the answer ages the alerts with it.

**FileTail** (`FileTailProofs`)

- `TailTypes`, `LinesAreInOrderOnce`: `[]TypeOK`, `[]InOrderOnce`. `TailInv` says that the disk
  holds lines in the order they were written (`Disk`), and, unless a file was exchanged
  between the two calls of an open, that all that may still be read comes after all that was
  (`Ahead`): the rest of the open file, the whole of it once it is shorter than
  the position, every later file.
- `NoLineIsLostOtherwise`: `LostOnlyInWindows`. `LossInv` adds that nothing is open at the
  two calls of an open, and that what was written by the last read was read when the check
  follows; the five windows are then the only steps after which a line is neither got nor ahead.

**Screen** (`ScreenProofs`)

- `ScreenTypes`, `NothingIsListedTwice`, `ViewsAreTheirOwn`: `[]TypeOK`, `[]NoTwice`,
  `[]OwnView`. `ScreenInv` says that every request in flight is for the current page and
  order, since a click cancels the others, and that its answer is what that page held
  when some number of alerts was stored (`Awaited`). `ItemsProperties` says what a page may hold.
- `AlertsLeaveForAReason`: `LeavesListFor`. An alert that an answer leaves out was stored
  later than the answer was selected, or the answer is a full page of newer ones; one that a
  push leaves out was the last of a full page.

Only model-checked: the liveness properties (fairness is about ENABLED, which is out of
the prover's reach). Every invariant and every action property of the runs, and both
refinements, are proved. Recursive
functions and folds do not occur in what is proved about; where the code sorts or filters a
sequence, the modules say what results by positions (`LastOf`, `Without`, `Nth`), which
the provers can expand, and which TLC checked to give the same states.

## 5. What is not modelled

Branches no message of the program reaches (a message without a log_id, an entry
that is not JSON); the sleep until `process_after`; a TTL on the model artifact
(the default is none); the heartbeat, which `health_check` reads; `GET
/metrics/timeseries`, a query without state; several watched files; on the page the orders by risk score (whose ties the database orders
as it likes), the polled queues, chart and health, and leaving the page; the contents of logs, scores and events. Two processings of one
message by two workers cannot happen: the deployment has one worker.

Known limits of the program that no property states, because the repository does not
claim otherwise, are in the hazards of `PROJECT.json` with a note: the queue's depth
may be exceeded by concurrent handlers; a rejected retrain starts again with the next
message. Others are exceptions that a property names: a rejected log may have been swept
and shown (ToldTrue); the sweep leaves logs that meet a full queue until the next start,
and an entry that a worker leaves in the processing list less than 30 s before the next
one starts waits for the start after that (LogServed; `Architecture.md:224` speaks of an
automatic requeue); the agent's last flush sends nothing (EveryLineSettled). Four more
came up while modelling. A line with a date that does not exist (`parser.py:45`, `53`,
`58`) ends the watcher thread and with it the agent, although `sentinel-agent/README.md:164`
speaks of a fall back to the current time: AgentRun has such a line, and AgentEnds says
that the agent then ends rather than run on with one thread. A cancellation swallowed at
`connection_manager.py:45` makes `lifespan` wait for ever (ShutdownEnds names exactly this
case), which also meets a worker process recycled by `--limit-max-requests` in the
Dockerfile. The metrics on a page may be up to about 20 s old and not the 15 s of
`metrics.py:102`, since the loop sends a cached answer again and sleeps 5 s before the
next; Fresh is about the answer, not the page. And Redis syncs its log once a second
(`docker-compose.yml:23`): what it acknowledged in the last second before it dies is lost
to the pipeline, whose models let Redis refuse or not answer, but not forget.

## 6. Plan

Done, in this order: LogPipeline with its safety, liveness and refinement; its proofs;
Retraining and its proofs; LogAgent; Dashboard; FileTail; Screen; Analysis; Metrics, the
end of the process in Dashboard, and Shipping, which LogAgent implements; then the proofs
of every safety property and of both refinements.

Next, in order of importance:

1. An abstract specification of the fan-out: a client joins, is shown one run of events and
   leaves. Dashboard implements it; GapFree and `Shown` are most of the proof.
2. The safety core of the liveness properties: that a log, a line or a client at rest is in
   one of the states its property names as an exception.
