# Verification of alice-ingest

TLA+ modules, TLC configurations and TLAPS proofs kept beside the code of
alice-ingest. Paths of the form `src/...` are those of the repository; line
numbers are of the commit the modules were written from.

alice-ingest collects InfoLogger and syslog records on worker nodes with Fluent
Bit, gives every record a template version (drain3 clustering), counts the
versions into five-minute and one-hour buckets, indexes records and counts in
OpenSearch, projects OpenSearch alerts and anomalies into signals and episodes
(and into Alertmanager), and serves views for a shifter.

Contents: [inventory](#inventory), [plan](#plan), the models
([stamper](#the-stamper-model), [count ledger](#the-count-ledger-and-the-refinement),
[signal projector](#the-signal-projector-model),
[replay control](#the-replay-control-model),
[template catalog](#the-template-catalog-model),
[trend rollup](#the-trend-rollup-model), [live lane](#the-live-lane-model)),
[runs](#runs), [fairness](#fairness), [findings](#findings),
[hazards the models know of](#hazards-the-models-know-of-and-no-property-covers),
[proofs](#proofs), [what is only model-checked](#what-is-only-model-checked),
[what is not modelled](#what-is-not-modelled), [how to run](#how-to-run).

## Inventory

Every component, with its state, operations, partners, what is hard about it
and what makes it correct. `PROJECT.json` lists the same components with their
status, and under `hazards` each hard point with its line.

### Template stamper (`loggy_collector/files/stamper.py`)

*State.* In memory: drain3 trees per family with recency lists, the ledger
(fine buckets of counts per version, a revision per bucket, definitions, two
dirty sets), identifiers of chunks it has handled, the journal's sequence
number. On disk: a state file (checkpoint) replaced atomically, and a journal
of JSON lines, one per chunk.
*Operations.* `load`, `handle` (a chunk from Fluent Bit), `publish`,
`checkpoint`, `tick` (publish, then checkpoint), `close`.
*Partners.* Fluent Bit sends chunks over the forward protocol and resends what
is not acknowledged; the stamper returns stamped chunks through a second
forward connection to the same Fluent Bit; it posts buckets, definitions and a
watermark to OpenSearch in bulk requests.
*Hard.* A crash between any two of return, journal, count and acknowledgement,
or between the two steps of a checkpoint; resends after lost acknowledgements;
records added while a publication is in flight; late records against an
expiring ledger; items of a bulk request rejected one by one.
*Correct when.* An acknowledged record is counted, once, in the bucket of its
collector time while that bucket is alive; what is not dirty is published; a
watermark covers what was counted before it; every chunk is acknowledged in
the end and every count published.

### Forward protocol (`forward.py`)

*State.* A socket per peer; nothing across connections. *Operations.* read a
message, dispatch it, acknowledge it, `send` with acknowledgement.
*Hard.* Acknowledgement strictly after the handler; an exception closes the
connection. *Correct when.* No acknowledgement without a handler that returned.

### Template contract (`deploy/shared/template_contract.py`)

Pure functions shared by producers and readers: bucket and hour arithmetic,
identifiers of documents, validation, `choose_cutoff` and `window_coverage`.
*Hard.* The cutoff is a minimum over nodes that are not idle, at bucket
boundaries. *Correct when.* Coverage is called complete only for a window every
live node has passed.

### Drain3 trees and masking (`drainbench.py`, `masking.py`)

Token trees that match a line to a cluster or widen one; least recently
created clusters are evicted past a limit. *Correct when.* The tree and its
recency list agree; replay restores the tree a checkpoint described.

### Signal projector (`signal_projector.py`, `os_cursor.py`, `signal_identity.py`)

*State.* None in memory across cycles except the last reach alert; episodes,
signals, incidents and two watermarks in OpenSearch.
*Operations.* `cycle`: read watermarks, ingest alert history from an overlap
before the watermark, read anomaly results, load open timelines, split and
merge into episodes, age open ones, write signals, incidents and watermarks,
post to Alertmanager.
*Hard.* Any read that fails is taken for an empty answer; a crash between two
of four writes; the same rows read twice; rows read out of order.
*Correct when.* A resolved episode has the evidence its source asks for, each
piece counted once; a row the watermark has passed is in an episode; every open
episode fires in Alertmanager after a cycle; a signal names one episode for good.

### Alertmanager notification ingest (`notification_ingest.py`)

Stateless receiver; documents have identifiers derived from their content, so
a repeated delivery overwrites.

### Operations server (`alice_ops/files/ops_server.py`, `reset_derived.py`)

*State.* One job slot with its log. *Operations.* start a job, cancel the
workers, wait until they are idle, wipe indices, start a replay.
*Hard.* A worker that does not answer counts as idle; a request that timed out
may have taken effect; the poison run starts passes beside the jobs.
*Correct when.* Nothing is wiped under a load the job could have known of; every
job ends; the poison run and the injection run are not admitted together unless
systemd's answer hid one.

### Replay trigger and partition wrapper (`loggy_replay/files`)

*State.* A single-flight lock, a current pass with its stop event, a marker of
the automatic first load. *Operations.* trigger, stop, status, autostart.
*Hard.* A stop between the lock and the registration of the pass's stop event; a
service that ends around its automatic load.
*Correct when.* At most one pass runs, a stop that reaches a registered pass ends
it, also in a loop or in the pause between two rounds, and a restart never loads
again.

### Template catalog maintenance (`catalog_maintenance.py`)

*State.* A state file with the last success per section. *Operations.* a pass:
expire documents, expire definitions, checks, save. *Hard.* Sections that fail
one by one; expiry by `last_observed`, which the stamper does not always
publish; an audit that compares an index still filling with a document still
growing. *Correct when.* The audit accuses a node of nothing that it has published.

### Trend rollup (`trend_rollup.py`)

*State.* Rows, metadata and a commit document per bucket in OpenSearch.
*Operations.* roll one bucket, backfill, prune. *Hard.* Failure between the
writes; index copies that are refreshed at different times; records that come
after their bucket was rolled; backfill reaches back a bounded number of buckets.
*Correct when.* A complete commit is never visible before the rows it declares,
on any copy a refresh reached; a host that went silent gets its zero row.

### Shifter view, templates, triage, live lane, semantic search (`loggy_shifter_view/files`)

Readers of the above. *State.* the last template view and its age; a ring of
recent rows and bounded client queues; a pending list of texts to encode.
*Hard.* A queue at its limit with publishers and a reader; an old view served
after a failed refresh; a view joined from three searches. *Correct when.* A
client sees no row twice and knows of a gap; a view called complete is exact for
what was counted in time.

### The rest

Anomaly detection (generators of detectors and monitors), cockpit metrics (a
poller), dashboards, node registration, the cockpit front end, poison replay
and injection, the fault agent, provisioning, tools, soak rigs and documents.
They keep no state another component depends on, or are configuration.

### Interactions

```
 Fluent Bit --chunk--> stamper --stamped chunk--> Fluent Bit --> OpenSearch
     ^---acknowledgement--'  `--buckets, definitions, watermark-->  |
                                                                    |
   catalog maintenance --expires documents and definitions--------->|
   trend rollup        --rows, metadata, commit-------------------->|
   signal projector    --signals, episodes, watermarks------------->|
        `--alerts--> Alertmanager --notifications--> ingest ------->|
   shifter view        <--buckets, watermarks, signals--------------'
   operations server --cancel, status, trigger--> replay workers --> Fluent Bit
```

## Plan

| module | component | says | state |
|---|---|---|---|
| `Stamper`, `MCStamper` | stamper, its journal, checkpoint and publication | an acknowledged record is counted, once, and published | done |
| `CountLedger`, `StamperLedger` | abstract specification of the stamper | `Stamper` implements it | done |
| `StamperProofs`, `StamperLedgerProofs`, `StamperCatalogProofs` | stamper | every safety property of its runs, and the refinement, for every value of the constants | done |
| `SignalProjector`, `MCSignalProjector`, `SignalProjectorProofs` | cycles, episodes, watermarks, Alertmanager | episodes rest on evidence, watermarks pass nothing, open episodes fire | done |
| `ReplayControl`, `MCReplayControl`, `ReplayControlProofs` | operations server, replay trigger, poison and injection runs | no wipe under a known pass, one run at a time as far as systemd shows them, faults are restored, a restart never loads again | done |
| `TemplateCatalog`, `MCTemplateCatalog`, `TemplateCatalogProofs` | publication by several stampers, maintenance, the template view | a complete view is exact within the ledger, and lists what is new, the audit is fair (this took over the modules once planned for retention and for coverage: the hazard is their interplay) | done |
| `TrendRollup`, `MCTrendRollup`, `TrendRollupProofs` | rollup and backfill | complete commits are backed, silent hosts are seen, a clean pass heals | done |
| `LiveLane`, `MCLiveLane`, `LiveLaneProofs` | live lane | no row twice, every row is shown or known to be missing, no post waits for a viewer | done |
| `TemplateTrees` | eviction and replay of trees | recency and tree agree after `load`; a bucket's versions against its limit | left |
| `TriageStore` | triage marks of the shifter view | lost updates between two shifters | left |

Every safety property of a passing run is a theorem. Modules with theorems stay free of `RECURSIVE`.

## The stamper model

`Stamper.tla` models one worker: the stamper process with its two threads, its
disk, and as much of Fluent Bit, the return socket and OpenSearch as the
stamper can tell apart.

### State

| variable | code |
|---|---|
| `now` | the wall clock, in fine buckets of five minutes |
| `acked` | chunks Fluent Bit has dropped from its buffer (external) |
| `returned` | per chunk, the versions it went back under (external: the index side) |
| `job` | the chunk `Stamper.handle` is working on, under `self.lock` |
| `acking` | chunks handled whose acknowledgement is on its way (`ForwardServer`) |
| `tree` | `Trees`: how far each cluster was widened |
| `ledger` | `Ledger.buckets`, as the set of counted records |
| `dirty`, `dirtyVersions` | `Ledger.dirty`, `Ledger.dirty_versions` |
| `facts` | `Ledger.versions`: per version what is known of it |
| `seen` | `Stamper.chunks`: identifiers held and since when |
| `seq` | `Journal.seq` |
| `ticker` | where `tick` or `close` stands; `"down"` when there is no process |
| `pub` | the snapshot `publish` took under the lock and sends without it |
| `settled` | the process took a checkpoint since it started (history of the process) |
| `ckpt`, `journal`, `torn` | state file, journal file, and whether its last line has no end |
| `catalog` | fine and hourly documents, definitions and watermark in OpenSearch |
| `restarts`, `lines` | bounds |
| `handled`, `recent`, `forfeited` | history, read by properties only |

### Actions

| action | code |
|---|---|
| `Stamp(c)` | `handle` up to the return: take the lock, drop to the duplicate path when the identifier is held, stamp, build the deltas, `Ledger.define` |
| `ReturnAccepted`, `ReturnRefused` | `_return` and its one retry over a new connection; a duplicate ends here |
| `Journal`, `JournalFails` | `Journal.append` (write, flush, fsync), then `Ledger.add` and `self.chunks[...]` |
| `Ack(c)`, `AckLost(c)` | `ForwardServer` acknowledges after the handler; Fluent Bit gets it or not |
| `PublishBegin` | `publish` under the lock: `expire`, `forget_chunks`, snapshot |
| `Published`, `PublishFails` | `_send`, then the second critical section, or its failure |
| `CheckpointWrite`, `CheckpointTruncate`, `CheckpointSkipped` | `checkpoint`: prune and write the state file, truncate the journal; the lock is held in between, a crash may fall in between |
| `Close`, `Exit` | `close`: leave the timer loop, final checkpoint, end |
| `Crash`, `Load` | the process dies at any step; `load` rebuilds from state file and journal before the server listens |
| `Tick` | the clock |

### Abstractions

* A chunk carries one record, of one family. Chunks with several records would
  multiply states without a new order of events: all records of a chunk are
  returned, journaled and counted together.
* A version is a pair of a cluster and a level; a record widens its cluster to
  a level. Eviction of clusters is not modelled.
* A bucket is the set of its entries. An entry is one counted record with the
  number of its journal line, so that a count that is wrong by one is a
  different set. Severity, node and cluster counters go the same way as the
  count and are left out.
* `Ledger.dirty` compares revisions; the model compares the contents of the
  bucket, which only grow while the publication is in flight.
* `Stamp` chooses freely whether a known version journals its definition
  again: the code does when a record is older than the first one seen, and
  record times within a bucket are not in the model.
* Whether a checkpoint is due after a publication is free, as its interval and
  that of publications are configured independently.
* `check_local` compares stamped with indexed counts and publishes a report; no
  count or definition depends on it.
* `Filled` is the guard of `bucket_lines` that skips a dirty bucket which is gone or
  empty: such a key is neither sent nor named in the snapshot. `Overlong` is the set
  of versions whose template exceeds `max_message_length`: `definition_lines` skips
  them, and `publish` takes them off `dirty_versions` all the same, so such a version
  has no definition. `CleanVersionIsCatalogued` excepts it; in `stamper_crashes` the
  widened version is one.
* `handle` and `publish` read the clock just before they take the lock; the model reads
  it with the lock. A wait for the lock that passes the end of a bucket is not in the
  model.
* Publication sends several bulk requests; the model lets any subset of the
  items be stored when the whole does not succeed.

### Bounds

`MaxTime`, `MaxRestarts`, `MaxLines` and `MaxLevel` bound the clock, the ends
of the process, the journal lines ever written and the widening. In
`JournalFails`, at most half of the lines may be lost to appends that fail, so
that the bound itself does not keep a chunk from being counted. `Horizon`,
`Hold` and `Span` are `LEDGER_MS`, `CHUNK_HOLD_MS` and twelve fine buckets in
the code; the instances take them as one or two buckets, which keeps their
order and lets buckets expire, identifiers be forgotten and hours have more
than one bucket.

## The count ledger and the refinement

`CountLedger.tla` says what the stamper promises about counts without sockets,
locks, files and restarts. A record is counted (`Count`) before its chunk is
acknowledged (`Acknowledge`); a count goes away only when its bucket expires
(`Pass`), or in a crash (`Lose`) while it is *fragile*; a checkpoint (`Settle`)
leaves nothing fragile; a publication takes counts that are there (`Take`) and
overwrites documents, each whole, with what it took (`Show`).

`StamperLedger.tla` is the refinement mapping. What is `held` is the ledger of
the running process, or without one what its checkpoint and journal will give
back (`Lasting`), less the expired buckets; `taken` is the snapshot in flight,
`shown` the fine documents in OpenSearch, `fragile` the held counts whose line
was written since the process started and before its first checkpoint. Under it
a restart (`Load`) is a stutter: that is the whole of what recovery has to do.
`ImplementsCountLedger` is checked in `stamper_crashes` and `stamper_ageing`.

## The signal projector model

`SignalProjector.tla` models one projector, the two OpenSearch plugins it reads
and Alertmanager.

*State.* Alerts (in the current index, moving, in the history index) and anomaly
results; the incidents index `store`, `signals`, the two watermarks `mark`; what
Alertmanager was last told (`am`); and of one cycle what it read (`current`,
`past`) and is about to write (`rows`, `incidents`, `high`). `pc` is the statement
of `cycle` that comes next.

*Actions.* `ReadCurrent`, `ReadHistory`, `Project` (timelines, multi-get, both
reducers, the episodes nothing touched, ageing), `WriteSignals`,
`WriteIncidents`, `WriteHistoryMark`, `WriteAnomalyMark`, `Push` are one cycle in
the order of the code. `Abort` is a cycle that raises after a write;
`SomeSignals` and `SomeIncidents` are bulk requests of which some items were
accepted. `Start`, `Complete`, `Refresh`, `Evaluate` and `Tick` are the
environment. The reducers are folds over the rows in the order the code sorts
them: `SplitRow` is one row of `split_monitor_episodes`, `ApplyResult` one result of
`apply_detector`. A monitor has at most one row that was first seen at a time, and a
detector one result per window, so the folds run over the times (`Split`, `Applied`:
a function of the time up to which rows were folded), and a time without a row
changes nothing. What a cycle works on when reads have failed is named per read
(`Timeline`, `Found`, `Named`, `Loaded`).

*Abstractions.* A key stands for what `incident_id` hashes. The instance lives
inside `EPISODE_LOOKBACK_HOURS` and one topology version, and one page holds every
hit: paging, topology changes and `track_opensearch_reach` are left out. So are the
read of a watermark that gets no 200 and starts the cycle at the initial lookback
without a word (`signal_projector.py:175-179`), an episode closed as expected
(`CLOSED_EXPECTED`, 928-945), and an alert that gets another key when its monitor turns
to ERROR (208-221, 256-258). A cycle
that raises before its first write is as if it had not begun. `renewed` says
that the last push sent the alert again; Alertmanager resolves by itself what is
not renewed within `resolve_timeout`. The environment acts only up to the last
read of a cycle (`Quiet`): the writes that follow touch nothing of its, so an
interleaving with them is equivalent to one before or after.

*Bounds.* `MaxTime`, `MaxFailures` (cycles that raise, items rejected, reads that
fail), `Budgets` (alerts and results in all), and in `MCSignalProjector`
`FewOrders`, which keeps one of several equivalent orders, and `FewFailures`, by which
one of two failures is a cycle that reads no names. Alerts and results
never share a key and are folded one after the other, so an instance has three
alerts or four results, not both. Three alerts are two of one monitor (a second
episode, or a second member of the first) and one of another; four results are a
breach and the two healthy windows its detector asks for, and one more, one of
them late, or a breach of another detector. `Overlap` and `Lag` of one window make
both the row that is read twice and the one that is not searchable yet happen.

## The replay control model

`ReplayControl.tla` models the `/ops` page of the control host, the replay
service of each worker, the poison run and the injection run.

*State.* `jobs`, the threads `start_job` made, each with the step it is at and
what it read of the workers; `slot` is `_JOB`. `worker` is, per worker, whether
its lock is taken, whether its pass has registered a stop event, and whether
that event is set. `marked` is the marker files of the first load on the workers'
disks; `loaded` and `unmarked` are the history of those loads. `poison`, `inject`,
`halted` and `queued` are the two systemd units: whether they run, whether the
injection's is deactivating, and whether a start waits until it has stopped. `fault` is
the injected fault. `missed`, `excuse` and the counters are history and bounds.

*Actions.* `Press` is `start_job`; `Poll`, `AskStop`, `Trigger` are one HTTP request
of a job each, answered or not (a request without an answer may have taken
effect); `Polled`, `AllAsked`, `Waited`, `AllTriggered`, `Delete`, `Reset`, `Rebuild`,
`Check`, `StartRun`, `Halt` are the statements between them. `Register`,
`FinishPass`, `PassFails`, `Resume` are the pass on a worker. `Restart` ends a replay service at
any step, with its pass, and starts it again: without its marker it takes the lock
and `Load` writes the marker, or fails to, and begins. `PoisonTriggers`, `PoisonEnds`,
`InjectFault`, `InjectReplayEnd`, `ObserveEnds`, `RestoreFault`, `Score` are the two
runs, and `InjectKilled` the end of one that never restores.

*What `Check` reads.* `_service_active` is `systemctl is-active`: no for a unit that is
deactivating, and no when the command raises or takes longer than five seconds
(`ops_server.py:333-340`). A stop of the injection gives up after 300 seconds while
`TimeoutStopSec` is 600, and the run restores and scores all that time. So the two runs
can go on together: an injection, its stop, and a poison run admitted beside the unit
that deactivates are three legal buttons, and the run `replay_page` reaches it without
any failure. `RunsExclude` says that this is the only way: the run admitted last was
admitted beside one the answer did not show (`missed`), and never because two requests
were checked before either was started. A start of the deactivating unit itself waits
in systemd (`queued`).

*Abstractions.* `systemctl start` takes effect at once unless the unit deactivates; a
stopped poison run is gone when the command returns (30 seconds against 45); the fault
is a service that stops (the collector, for `kill-fluent-bit`) or the end of one worker's
replay; the indices have no state, a wipe
is where the job stands. A worker in `New` has `AUTOSTART_REPLAY` on and its
first load before it; one outside has it off, or the load behind it. The marker
survives a restart, as the disk it is on does.

*Bounds.* Two workers, one of them new; two jobs with any button and a third that
starts a run (`TwoAndARun`); two passes, two losses, one restart, one poll of
`wait_until_idle`, one burst of the poison run, `REPLAY_LOOP` on: a job can find one
worker busy and the other silent, ask for a stop that comes too early, wait and give
up, while another service starts a pass. A behaviour ends when the jobs are used up and
everything is idle, so deadlock is not checked; that nothing stops short of it is
`EveryJobEnds` and `StoppedPassEnds`.

## The template catalog model

`TemplateCatalog.tla` composes what the farm shares: the stampers of several
workers that publish, the hourly maintenance pass, and the shifter's template
view.

*State.* Per node the ledger, its dirty buckets and versions, the last
observation of each version and the publication in flight; in OpenSearch the
hourly documents, definitions, watermarks and the verdicts of the last audit; in
the shifter the refresh in flight, the view and the last attempt.

*Actions.* `Count`, into the bucket of the record's own time whenever it comes, and
`CountLate` for one whose bucket the ledger no longer takes; `PublishBegin`,
`SendBuckets`, `SendDefinitions`, `SendMark` (a publication is three kinds of documents
sent one after the other), `PublishFails`; `Restart` (the ledger comes back whole, last
observations may be older); `ExpireDefinitions` and `Audit`; `ReadMarks`, `ReadVolume`,
`Install` (the three searches of a view); `Tick`. `Cutoff` is `choose_cutoff` and
`Coverage` is `window_coverage`, translated as functions of the watermarks.

*Abstractions.* A fine bucket of a node holds at most one record of a version, so
a count is a set of records and a wrong count a wrong set. A record is counted at any
time after it was observed: Fluent Bit may have buffered it, or sent it again after a
refused return. A late bucket is a document no view and no audit reads, so `late` only
keeps its records. What the index holds (`Audit`) is what the collectors have shipped of
the counted records, and of each version perhaps one that was returned and is not yet
counted: `handle` returns a chunk before it journals it, and an append that fails has it
sent again. A bulk request fails whole here; what items rejected one by one do is in
`Stamper`. A crash loses nothing here; that too is `Stamper`'s.

*Bounds.* Two nodes, one version, hours of two fine buckets, two records, one
failed request, restarts before time two. `Followed` cuts what no property reads: no
record but a late one is counted from `LastCount` on; a publication or a refresh is
followed only from `FirstPublish` on, before `LastPublish` and while no view is
installed (a view is read by the properties, and by nothing but a refresh that finds no
watermark); nothing follows a failed check, which no action reads; and a refresh of the
first hour has an empty window. A record counted at time two in the bucket of time
zero, published through at time one, is behind the watermark in this instance, and one
counted in a late bucket comes at time six. The rest of the time is there for nodes to
turn idle, for definitions to expire and for views to expire. Buckets that expire under
a publication are covered by the theorems below, for every `Ledger`, and by smaller runs
in which their invariant was checked first.

*What a complete view promises.* The window of the view is 28 days and the ledger of a
stamper 48 hours (`template_contract.py:45-48`). `coarse_counts` publishes an hour
from the buckets still in the ledger, so an hour sent again after its first buckets
expired shrinks in the catalog (finding `stamper_hour_shrinks`). A view can
therefore be complete and count less than was counted, but only of what is older than
the ledger at its cutoff: `HeldSince`. And the watermark is the clock at the publication,
with no time for stragglers: a record counted in a bucket that a publication said it was
through with, and begun before the record was counted, is missing from a view that read
that watermark (`InTime`). `CompleteViewIsExact` says that everything counted in time
and since `HeldSince` is there, and that nothing else ever is; `NewVersionIsListed`
that its versions are listed. `TEMPLATES_FIX_PLAN.md:156` calls a window sum complete by
watermarks alone, so a straggler is a disagreement of its own with that line, like
`stamper_mark_alone`; the exception by name stands here for a run. The margin of an hour and
`IDLE_NODE_MS` in it is how far the cutoff may be behind the clock. Two hours must
fit the ledger (`HorizonAssumption`), or the last completed hour could expire before
its watermark. `AuditIsFair` says of the audit that it accuses a node only of what it
returned and did not count, or counted since it began the publication that was accepted
last. A node that never published a bucket is not named by a view, and
coverage says nothing about it.

## The trend rollup model

`TrendRollup.tla` models the rollup service, the log indices it reads and the
copies of the index it writes.

*State.* `raw`, the records; `stored`, the rows, metadata and commits per bucket,
and `visible`, what a search on each copy finds; of the process `pc`, the buckets
left of a pass (`todo`) and of one attempt the cohorts left, the rows found and
whether no cohort was truncated. `floor`, `window`, `sound`, `clean`, `doubt`, `behind`
(the copies the last refresh left out) and `cut` (the buckets and cohorts whose roster was
cut) are history.

*Actions.* `BeginPass`, `Prune`, `BeginAttempt`, `CollectCohort` (`collect`,
`recent_entities` and `impute_silent` of one cohort), `WriteRows`, `WriteMetas`,
`RefreshRollup`, `WriteCommit`, `EndPass`; `AttemptFails` (any request, after some
of its items took effect), `CollectPart` (a search answered without the shards it
could not reach, or a roster that failed and makes no zeros), `RefreshPart` (a refresh
answered 200 though copies of it failed), `Restart`; `Tick`, `Log`, `Refresh` of one
copy, and `Purge`, which is `reset_derived` while the service goes on.

*Abstractions.* The clock counts buckets and runs `SETTLE_SECONDS` behind. Lags,
percentiles and error counts go the way of the counts. Records and time move only
where an attempt still reads (`Reads`); what arrives beside a write arrives as
well after it. `SETTLE_SECONDS` is less than a bucket. The metadata of a cohort is one
document that is overwritten whole (`MetasWith`): what an attempt did not find is not
in it. `prune` deletes what began more than `RETENTION_DAYS` before the wall clock,
which is up to a bucket and `SETTLE_SECONDS` ahead of the model's, so it may reach the
bucket after `now - Retention` (`Pruned`); the window and its memory must be clear of
it (`Backfill + Memory + 2 <= Retention`; 30 days against hours in the code).

*What the properties except.* A bucket whose rows an incomplete answer, a truncated
attempt or a reset has touched is in `doubt` until a sound attempt commits it
whole. `CompleteCommitIsBacked` excepts those, the buckets `prune` may have begun to
delete, and the copies in `behind`: a commit that is searchable on one copy promises
nothing of a copy the refresh before it did not reach. `SilentHostIsSeen` excepts the
cohorts in `cut`: `recent_entities` asks for `MAX_ENTITIES` terms and does not say that
there are more. That these happen is a hazard below.

*Bounds.* Two hosts of one cohort and one node of another, two copies, a backfill
of two, a memory of one, a retention of five, `MaxEntities` two (so that a cohort of two
is truncated), records one bucket late, two records, one failure. Two records of one
host in two buckets make it silent in a third; a late one changes the roster of a
bucket already rolled. A roster is cut only with more hosts in a cohort than
`MaxEntities`: an instance with three hosts of one cohort, a memory of two and four
records reaches that, and fails without the exception; the theorem covers it.

## The live lane model

`LiveLane.tla` models `publish`, `Client.offer` and `Handler.stream` of the shifter
view's server, and the page at the other end (`shifter.js`).

*State.* `boot`, `seq`, `ring`, `clients` of the server; `post`, what each publishing
thread holds; per stream its `thread`, the copied ring still to be sent
(`backlog`), its `queue` and what was dropped from it; `page`, what the browser has
seen, shown and knows to be missing. `order`, `slipped` and `buried` are history.

*Actions.* `Receive`, `Number` (one number under the lock), `Extend` (ring and list of
viewers under the lock), `Offer`, `OfferFull`, `Evict` (one queue operation each);
`Connect`, `Hello`, `SendBacklog`, `SendRow`, `Cut`, `Leave`; `Restart`.

*Abstractions.* A record is its number. What the sockets buffer is still in the
queue. A gap row and the count of dropped rows are both "reported missing". The
page's own buffer of shown rows is not bounded.

*Bounds.* Two publishers with posts of one or two records, three records, one row
in the ring and in a queue, two streams, two starts of the server. Three records
in two posts can overtake each other, overflow a queue and span a reconnect. A
larger instance (four records, a ring of two, safety only, 4.25 million states)
was run once and holds too.

## Runs

| run | instance | shows |
|---|---|---|
| `stamper_crashes` | two chunks of one bucket, the second widens the first's template to one too long to be published; torn lines, lost acknowledgements, two ends of the process | `TypeOK`, `SettledLedgerIsDurable`, `AckedMeansCounted`, `CountedMeansReturned`, `CleanVersionIsCatalogued`, `ImplementsCountLedger` |
| `stamper_ageing` | two chunks in two buckets of one hour, the clock takes three values, lost acknowledgements, one end of the process | `AckedMeansCounted`, `NeverCountedTwice`, `CleanBucketIsPublished`, `WatermarkMeansPublished`, `RepublishKeepsCounts`, `ImplementsCountLedger` |
| `stamper_progress` | one chunk; refusals, late acknowledgements of the return, appends that fail, items rejected; one end of the process | `EveryChunkAcked`, `EveryCountPublished` |
| `projector_cycles` | three alerts of two monitors, or four results of two detectors; a cycle that raises between its writes or whose items are rejected, and one that could not read the detectors' names | `TypeOK`, `RecoveryIsEvidenced`, `AlertsAreCovered`, `BreachesAreCovered`, `EveryOpenEpisodeIsPushed`, `SignalKeepsEpisode`, `CatchesUp` |
| `replay_page` | every button, two workers with looping replays, one of them new, two jobs and a third that starts a run, two requests, commands, writes or runs that fail, one pass the poison run starts, one end of a replay service | `TypeOK`, `WipeIsQuiet`, `RunsExclude`, `FaultIsRestored`, `ArchivesLoadOnce`, `EveryJobEnds`, `StoppedPassEnds` |
| `catalog_farm` | two stampers that publish, fail and restart, records that come late, before and behind the watermark, the maintenance pass, a view read in three searches | `TypeOK`, `CompleteViewIsExact`, `NewVersionIsListed`, `AuditIsFair` |
| `rollup_passes` | passes over two buckets on two copies of the index, a late record, a request that fails in part, a search that answers in part, a refresh that leaves out a copy, a restart, a reset | `TypeOK`, `CompleteCommitIsBacked`, `SilentHostIsSeen`, `BackfillHeals` |
| `lane_posts` | two posts whose threads interleave, a queue of one row, a page that reconnects, a server that restarts | `TypeOK`, `NoRowTwice`, `DrainedPageIsCurrent`, `EveryPostEnds` |
| `stamper_acked_lost` | one of the violations [below](#findings) | `AckedIsNeverLost` fails |
| `stamper_hour_shrinks` | " | `HourKeepsCounts` fails |
| `stamper_mark_alone` | " | `WatermarkMeansPublished` fails when a watermark may be stored beside rejected buckets |
| `stamper_definition_lost` | " | `CleanVersionIsUpToDate` fails |

The bounds of the other models are given with each of them above; what follows
is about the stamper's.

Why these bounds are enough for the questions asked. Two chunks are needed for
one to arrive while the other is published, checkpointed or replayed, and for
a duplicate to race a first delivery; a third behaves like one of them, as the
handler takes one at a time. Two ends of the process are needed for a journal
written after a restart to be replayed; a process may end during the recovery
of the previous one. Four lines let each chunk be journaled, forgotten or
lost, and journaled again. Three clock values with a horizon and a hold of one
let a bucket be open, closed and expired and let a record come late.
`stamper_crashes` stops the clock and `stamper_ageing` leaves out torn lines,
because ageing and the journal's format touch only through the number of
restarts. `stamper_progress` uses a single chunk because a liveness check grows
with the product of the fairness conditions; chunks do not wait for each other
except for the lock.

Deadlock is checked in the runs of the stamper and of the projector, whose
timers always go on. It is not in the others, where a behaviour really ends: all
jobs of the page are used up and everything is idle, the clock and the records of a
farm are used up, every record is posted. That nothing stops short of that is what
the liveness properties say.

Each property of a passing run comes with a mutant in `PROJECT.json`: a change
of one mapped operator to what a plausible bug would make of it (a dropped
lock, a counter read off by one, a dirty set not rebuilt, a bucket expired one
early...), for which the run finds the property violated.

## Fairness

`Fairness` in `Stamper.tla` is used by `stamper_progress`; the other runs of the
stamper check safety only. It assumes:

* `WF(Load)`, `WF(Exit)`: systemd restarts the unit; `close` runs to its end.
* `SF(Stamp(c))`: Fluent Bit retries without limit (`retry_limit: no_limits`,
  `collector.yaml.j2:581`), so a chunk is offered again and again, and the
  lock is released between chunks and publications.
* `SF(ReturnAccepted)`, `SF(Journal)`, `SF(Published)`, `SF(Ack(c))`: the return
  socket, the disk, OpenSearch and the link are down for a while, not for ever.
  Each is strong because a failure ends the attempt and the next one starts
  from the beginning.
* `SF(PublishBegin)`: the timer thread gets the lock among handlers that take
  and release it.
* weak fairness on the checkpoint steps: the timer thread runs.

Nothing forces a crash, a stop or a failure to happen or not to happen, except
that the process ends finitely often (`MaxRestarts`).

The other models assume less; `TemplateCatalog` and `TrendRollup` assume none, as their
properties are of states and steps:

* `SignalProjector`: `WF_vars(Cycle)`. `main` runs a cycle, sleeps and runs the next
  for ever, also after one that raised. Alerts, results and the clock are not
  forced; OpenSearch may fail `MaxFailures` times.
* `ReplayControl`: `WF` of each job's step, and of `Load`, `Register` and `Resume` of each
  worker. Every request of a job has a timeout, so a step answers or is given up. The
  end of a pass is fair only while the collector is up, `WF_vars(~fault /\
  FinishPass(w))`: `il_connect` (`replay.py:322-331`) tries again and again without
  looking at the stop event. So `StoppedPassEnds` says that a stopped pass ends, or the
  injected fault stays or keeps coming back. A pass that dies of an exception
  (`PassFails`) is allowed and not forced. Nobody is forced to press a button, and the
  poison and injection runs are not forced to end.
* `LiveLane`: `WF` of the steps of each publishing thread: it waits for no viewer, only
  for a lock that is held over a few statements. Viewers, their connections and the
  server's restarts are not forced.

## Findings

Four places where the program does not do what its documents say; each is a
run that must end in a counterexample. Sources and quotes are in
`PROJECT.json`.

* **An acknowledged chunk can be lost** (`stamper_acked_lost`,
  `stamper.py:554`). After a clean stop the journal is empty and the sequence
  starts at 1 again, below the checkpoint's number. A crash before the first
  checkpoint of the new process replays nothing of what it journaled.
* **An hourly document can shrink** (`stamper_hour_shrinks`, `stamper.py:385`).
  It is summed over the fine buckets still in the ledger and overwrites the
  full one.
* **The watermark can pass a rejected bucket** (`stamper_mark_alone`,
  `stamper.py:848`). Bulk items succeed one by one.
* **A definition learnt during a publication is not published**
  (`stamper_definition_lost`, `stamper.py:887`). Versions have no revision and
  are taken off the dirty set whatever was added meanwhile.

## Hazards the models know of and no property covers

What follows was met while modelling. Each is a behaviour of the code that a
model shows, or would show under a fault its run leaves out. `PROJECT.json` lists
those with no property as such; the others bound what the properties say.

*Stamper.* `define` runs before the return (`stamper.py:699`): when the return is
refused, the retry finds the version known and journals no definition of it. A
bucket with more versions than `MAX_BUCKET_VERSIONS` ends every tick before its
checkpoint (`stamper.py:865`). After a restart the first append of a journal whose last
line was torn is glued to it and lost with it; `AckedMeansCounted` excepts it as
`forfeited`. A definition that is too long is taken off `dirty_versions` without having
been sent (`stamper.py:787`, 887), and nothing tells of it.

*Signal projector.* With a monitor that asks for more than one clear
(`healthy_windows_required`, three for several monitors of `signal_catalog.json`) the
clears of one read decide where an episode is split (`signal_projector.py:731`), and
a row written before moves to another episode when it is read again:
`SignalKeepsEpisode` fails. The run has the default of one. A search that fails reads
as an empty answer: with the fault `"timelines"` an open episode is neither aged nor
pushed, and with `"mget"` too one that is touched is rebuilt blank from what is read
again. A breach searchable only after that of a later window was projected opens
an episode before the stored one, both open under the same labels; the run has
`InOrder`, results of a detector in the order of their windows. A cycle that could not read the detectors' names and follows one whose incident
documents were accepted in part does not mend it: its watermark passes the results
that resolve an episode of which only the successor was stored, and that episode
stays open before the latest, aged and pushed by nobody. `EveryOpenEpisodeIsPushed` and
`SignalKeepsEpisode` except the detectors of such a cycle by name (`Nameless`), as
`BreachesAreCovered` excepts its readings (`unnamed`). The theorems below say what
survives each of these faults.

*Operations.* The poison run and the injection run can go on together: a poison run is
admitted while the injection's unit deactivates (up to `TimeoutStopSec`, 600 seconds,
in which it restores and scores), and beside any run when `is-active` fails or takes too
long (`ops_server.py:333-340`). `RunsExclude` excepts exactly these (`missed`). An
injection that is killed, out of memory or at the end of `TimeoutStopSec`, restores
nothing (`excuse`). A stopped pass does not end while the collector is down. A stop that
arrives between a pass taking its lock and registering its
stop event is answered and lost; the pass runs on. A worker that does not answer
counts as idle, and is wiped under. An injection whose command took effect and
then raised is not restored. `WipeIsQuiet` and `FaultIsRestored` except these cases by
name (`silent`, `fresh`, `excuse`), and hold of everything else.

*Template catalog.* A definition that is only observed again is not marked dirty, so
maintenance can expire one that is in use (`catalog_maintenance.py:305`), where
`docs/TEMPLATES_FIX_PLAN.md:215` has a version stay active because a worker still
observes it. The watermark allows no time for stragglers (`stamper.py:869`): a record
buffered or sent again over the end of its bucket is missing from a view that calls
itself complete, until the next publication. `CompleteViewIsExact` excepts it by name
(`InTime`). For the same reason the audit accuses a node that counted a record late, or
returned one it could not journal and gets it again (`stamper.py:649-662`,
`catalog_maintenance.py:434`); `AuditIsFair` says that it accuses nobody else. An outage longer than the ledger is not in the run.

*Trend rollup.* A search of the logs that answers without some shards finds a host
silent that logged, writes a row of zero over a counted one and commits it complete
(`doubt`). A roster request that failed only skips the imputation: there are no zero
rows, and the bucket is not called truncated. A roster of more than `MAX_ENTITIES` is
cut without a word (`trend_rollup.py:233`): the silent hosts it leaves out have no zero
row in a bucket that may be committed complete, where `test_trend_rollup.py:134-139` has
a cap mark the bucket truncated (it tests the cap after imputation, `over_cap`). A cohort
of which exactly `MAX_ENTITIES` logged is called truncated though nothing was cut. A
refresh is taken for done at status 200 (`trend_rollup.py:386-388`), also when shards
of it failed: on those the commit can be searchable before its rows. Buckets that an
outage leaves behind the backfill window are never committed. Two copies of the service
are not in the run.

*Live lane.* Two posts may be numbered in one order and offered in the other; the
page ignores every number up to the highest it has seen, where
`deploy/README.md` says it ignores those it has seen. A queue found full and then
empty gives the new row up without counting it. `DrainedPageIsCurrent` excepts both
by name (`slipped`, `buried`).

## Proofs

All proofs are for every value of the constants that satisfies the assumptions
in the modules (the constants have their types; nothing bounds the number of
chunks, workers, jobs, streams or rows).

### The stamper

`StamperProofs.tla`:

* `TypeCorrect`: `Spec => []TypeOK`. The inductive invariant `TypeInv` adds to
  `TypeOK` what keeps the bounded counters in their ranges: the numbers in the
  journal and in the checkpoint do not run ahead of the lines written, a handler
  at work has a line left, and a closing process has a restart left.
* `SettledIsDurable`: after its first checkpoint a process has its ledger on
  disk at every step. The property alone is not inductive. `Durable` adds that a
  settled process has a whole last line and numbers its lines past the
  checkpoint's, or the next line would not be replayed; and that the journal is
  emptied only while the checkpoint holds the ledger. A checkpoint establishes
  it; a process that has just loaded need not satisfy it, which is the first
  finding.
* `CountedWasReturned`: wherever a counted record can be (ledger, journal,
  checkpoint, a job about to be journaled), its version is one its chunk was
  returned under. The ledger alone is not inductive: `Load` takes it from disk.
* `AckedIsCounted`: an acknowledged record is in the ledger of every running
  process, in the bucket it is due in, until that bucket expires, or its line
  is forfeited. Its invariant is `TypeInv`, `Durable` and three more:
  `HandledInv` (a chunk acknowledged or about to be, or whose identifier is
  held, has a journal line), `CountingInv` (a job of a new chunk counts its
  record in the bucket it is due in) and `KeptInv` (a handled record is in the
  ledger of a running process, and in what a restart rebuilds unless its line is
  one of those written before the first checkpoint; or its line is forfeited).

`StamperLedgerProofs.tla`:

* `LedgerIsImplemented`: `Spec => ImplementsCountLedger`, the refinement. There is one
  lemma per abstract action (`CountStep`, `AcknowledgeStep`, `TakeStep`, `ShowStep`,
  `SettleStep`, `LoseStep`, `PassStep`), and `Stutters` and `RestartStutters` for the
  rest. What carries it is `Agreement`: ledger and disk agree on every bucket that
  has not expired, but for the lines of a process that has not saved yet; so a
  crash takes back exactly what is fragile and `Load` changes nothing.

* `NothingIsCountedTwice`: `Spec => []NeverCountedTwice`. Its invariant `OnceInv` says
  that counts of a chunk anywhere, on disk or in memory, are apart by more than the
  hold, and that its identifier is held since the last of them or was forgotten
  because that is too long ago (`Memorised`); that the lines of the journal run in the
  order of their times (`Ordered`), as `load` takes the last line's time; and that what
  the handler is about to count comes after every other count, longer than the hold
  after one of the same chunk (`Latest`).

`StamperCatalogProofs.tla`:

* `CleanVersionsAreCatalogued` (of every version short enough to be sent) and
  `CleanBucketsArePublished`. The step that needs an
  invariant of its own is the end of a publication: `InTransit` says that what is
  being sent is still dirty, and that every bucket of its hours that is not dirty
  is in the snapshot as it is in the ledger. An hour is the union of its buckets
  (`HourOfBuckets`), and a bucket cannot expire before its hour begins (`HourStart`).

* `WatermarkCovers`: under the assumption that a watermark is not stored beside
  rejected buckets (`"mark" \notin Faults`; without it the third finding refutes the
  property), a watermark covers every record counted before it in a bucket it has
  passed. `MarkInv` follows the watermark on its way: what came before it is carried
  by its publication or in the catalog already, and what the handler is about to
  count comes after it.
* `RepublishingKeepsCounts`: no count of a five-minute document is taken back by a
  later publication, but those of forfeited lines. What is shown is held, has
  expired, or was forfeited (`ShownInv`); a crash keeps that because of `Agreement`.

### Replay control

`ReplayControlProofs.tla` proves `TypeCorrect`, `NothingIsWipedUnderAKnownPass`
(`WipeIsQuiet`), `OneRunAtATime` (`RunsExclude`) and `TheFaultIsRestored`
(`FaultIsRestored`: a fault is on only in a run that will restore it, or after a failed
command or a killed run), from one inductive invariant: per job, what it knows of the
workers it has polled (`Knows`), that a job between check and start finds both units
off unless the answer hid one (`Checked`), that a unit that deactivates, or that a start waits
for, still runs (`Waiting`), and that only the job in the slot runs (`Slotted`).
The last is what makes `Knows` and `Checked` inductive: no other job acts between a
job's check and its start. `CheckKeeps` is the step in which the answer decides. `ARestartNeverReingests` (`ArchivesLoadOnce`) has an invariant of its own,
`Marks`: a load that began left its marker or could not write it, and a worker about
to load has none.

### Template catalog

`TemplateCatalogProofs.tla` proves every property of the run. Each part of the
invariant is about one node at a time, so that the steps of the others leave it alone:

* `TypeCorrect`. `TypeInv` adds to the types that a request crosses the end of one
  fine bucket at most (`Clock`), that a version that is dirty was observed
  (`Observed`), and that a refresh has found a live node (`Reading`).
* `CountsInv`, for what is counted. The ledger holds everything that has not expired
  (`LedgerOf`); a publication has the hours of what was dirty when it began, whole up
  to its own bucket, and what it carries is still dirty (`SnapshotOf`); once its
  buckets are sent, the catalog has them as it does (`SentOf`). From these follows
  what the readers need: a bucket that still counts and is clean, or that the
  watermark has passed, is in the document of its hour exactly (`CoarseOf`). The
  document of the catalog alone is not inductive, since it is overwritten with the hour
  as the ledger had it when the publication began.
* What is late is late of a publication: these statements are of the records counted
  before the publication began (`when`), which `CountLate` and a count behind the
  watermark leave alone.
* `TheAuditIsFair` follows from it: the last completed hour is within the ledger
  (`LastHour`), so a passed watermark makes its document final but for what was counted
  since; what the index holds beyond the document was returned and not counted, or
  counted since (`ShippedIsStamped`, `AuditAccuses`).
* `DefinitionsInv`, for definitions. A version counted by a node is known from an
  observation of its own no later than the stored one, or that observation is too
  old to matter, or the version is still to be sent by it (`Known`, `KnownOf`);
  definitions only move on, except those older than `Retention` (`MovesOn`). A
  restart that brings back an earlier observation does not break this, which is what
  the merge of `DEFINITION_APPLY` is for.
* `CompleteViewsAreExact` and `NewVersionsAreListed` follow the three searches:
  `BuildInv` says that what was read of the live nodes is what they counted in time in
  the window since `HeldSince`; what is counted later is in time for no view that has
  read its watermarks (`ViewStays`). The cutoff is an hour's start that no live node's
  watermark is behind (`CutoffBounds`), so what is read later than the watermarks is
  final all the same (`VolumeRead`), and a definition read last is at most too new
  (`Installed`).

### Trend rollup

`TrendRollupProofs.tla` proves every property of the run:

* `CompleteCommitsAreBacked` (`CompleteCommitIsBacked`). `BackInv` speaks of what is
  stored and of every copy at once (`Docs`): no commit counts more than was logged
  (`Truthful`); rows and metadata of each that the last refresh has reached (`Fresh`) back the
  complete commits of each (`Backs`);
  what a sound attempt found is not below an older commit (`Above`); what it has
  written stands (`Stands`). Without `Above` an attempt could write rows below the
  commit of an earlier one and fail before its own. It covers the buckets in the
  memory of one that is rolled too, which `Backfill + Memory + 2 <= Retention` keeps from
  `prune` (`KeptShrinks`).
* `ACleanPassHeals` (`BackfillHeals`), from `WindowInv`, by which a pass rolls the
  buckets of its window in order and prunes before the first, and `HealInv`.
* `TheSilentAreSeen` (`SilentHostIsSeen`), from all of these and `SilentInv`: a cohort
  that is collected has a row for everyone remembered once one of it logged, or its
  roster was cut (`CollectSees`), and later attempts of the pass leave the earlier buckets alone.
* `TypeCorrect`, for which the entities `First` picks are counted (`FirstAreMany`).

### Signal projector

`SignalProjectorProofs.tla`. The reducers are folds, written as recursive functions of
the time. Induction over time is `StampInduction`, from the well-foundedness of the
naturals; `SplitFold` and `AppliedFold` turn it into the rule the proofs use: what
holds at the start of a fold, and is preserved by a row, holds of the result. Alerts
that come late, and results of any order, make the rows of a read a set of which only
`AlertsInOrder` and `ResultsInOrder` (parts of `Base`) are known.

* `TypeCorrect`, under no condition.
* `RecoveriesStayEvidenced` (`RecoveryIsEvidenced`). For detectors `EvidenceInv` says that the
  healthy windows counted in an episode, stored or about to be, are results the index
  has, later than the last breach and no later than the last one counted; a result
  that is read again is not later than that. It needs no condition, not even that
  reads succeed: a document rebuilt blank counts again from nothing.
* `BreachesStayCovered` (`BreachesAreCovered`), assuming `EvidenceIsRead`: `Lag <=
  EvidenceOverlap`, which is what `EVIDENCE_OVERLAP_MINUTES` is for, and not both
  `"timelines"` and `"mget"` among the faults. With both, a document is rebuilt blank when
  its first breach is read again, and forgets a later one that was executed earlier
  and is not. `BreachInv` says that the last breach
  of a stored document never goes back, that every breach the watermark has passed is
  known (`Known`), and that each one it is about to pass (`Pending`) is, per statement
  of the cycle, to be written or written. A breach before every loaded episode has no
  episode of its own (`detector_episode_start` gives none), which is why `Known` asks
  for an episode that breached no earlier, and why the fold must be shown never to
  lower a last breach.
* `AlertsStayCovered` (`AlertsAreCovered`), assuming `OneClear`: `Lag <= Overlap` and monitors
  that ask for one clear. That is `MONITOR_HEALTHY_REQUIRED`, and all but the `trend-*` and
  `ad-high-grade` monitors of `signal_catalog.json`; for those the property is not meant,
  since an alert that cleared once leaves its episode recovering. Under `MonitorInv` an
  episode of a monitor has exactly one alert, whose start is the episode's
  (`OneAlertEach`); its row and its document agree on that (`RowsOfAlerts`); an alert read
  in the history is resolved for good (`StaysResolved`); what the watermark has passed
  is resolved (`Passed`), and what it is about to pass is about to be (`Passing`).
  `LastIsLast` is what makes the split of the rows agree with that: an alert that is
  read as current comes after every other alert that is read, so a run that has
  recovered is never continued. The two reads are at different moments; an alert that
  leaves the current index between them is read twice or not at all, and `Lag <=
  Overlap` is what brings the second case back.

* `OpenEpisodesStayPushed` (`EveryOpenEpisodeIsPushed`) and `SignalsKeepTheirEpisode`
  (`SignalKeepsEpisode`), assuming `OneClear` and `InWindowOrder`: the results of a detector
  come in the order of their windows, `Lag <= EvidenceOverlap`, and no `"timelines"`
  among the faults; names and multi-gets may fail. Both say that folding an
  overlap again, over what earlier cycles stored in whole or in part, gives the same
  episodes. For monitors that follows from `MonitorInv`, with `LastDocument` (an episode
  that has not ended has no later one), and needs no order of results; it is also
  stated alone (`OpenAlertsStayPushed`, `AlertSignalsKeepTheirEpisode`).

  For detectors everything is compared with one fold that no cycle makes, `Kan(d)`: of
  all results of `d`, from nothing. Of that fold each episode but the last has recovered
  before the next begins (`Exact`), and what it has settled at a time it never changes
  (`FoldLater`), so a later result leaves its past alone (`FoldGrows`). A stored document
  is then *the document of that fold at some moment* (`Near`), no earlier than the last
  result that is not read again (`Old`); and an episode that a half-written bulk left out
  begins after those results, or else before every episode that is stored, in which
  case no reading gives it a row (`Missing`). `ExactInv` says this of the store,
  and that every row names the episode of that fold, or none. A cycle starts its fold
  from such documents. By `FoldTracks`, a document at `q` waits, unchanged, while the
  results up to `q` are read again (`ReadAgain`), and moves with the fold from there; at the
  end every document is at the last moment, so the open one is the last of its key,
  which is the one that is aged, sent, and sent last (`LastOpen`). `PushInv` carries that over
  the writes to the push.

  The conditions are needed. With `InOrder` false, one late breach of a window before that of the
  last one opens an episode beside the one that is stored, both open, and Alertmanager
  is told of one: breaches in windows 0 and 3, a recovery between them, a cycle, then
  a breach in window 2. With `"timelines"` among the faults an open episode is not sent.

### Live lane

`LiveLaneProofs.tla` proves every safety property of the run, and that nothing the
server holds grows past its limit, from `LaneSafe`, which has four parts:

* `LaneInv`: the types, and `Room`. That no number runs past the records posted would
  be a sum over the publishers; instead the numbers given, and the records each
  publisher still has to number, are sets of records that do not meet, so each step
  only moves one element. `TypeCorrect` (`TypeOK`) rests on it.
* `Memory`: a full ring and a full queue (`MemoryIsBounded`).
* `PageInv`: what the page has shown is of boots up to the one it knows and, of that
  one, up to the highest number it has seen (`RowsAreShownOnce`, which is `NoRowTwice`),
  and from the first number it showed of this boot to that highest, each was shown or is
  known to be missing (`Gapless`).
* `WayInv`, for `DrainedPagesAreCurrent` (`DrainedPageIsCurrent`): every row that came to
  the ring is seen, overtaken, below a row still in the backlog, in the queue, a job
  of a publisher, slipped or dropped (`Where`). A row that was dropped is not safe by
  that: the page learns of it from a later number, so one must come (`Safe`): in the
  queue, as a job, or from a publisher that has just made room (`Making`), which is what
  an eviction leaves behind. A queue cannot drain while one of these is there. For the
  ring a new viewer copies, `InRing` says that it ends with the row that came last;
  `Listed`, that a viewer whose page is there is listed, and that nobody offers a row
  to one that has not come.

Each theorem has one lemma, or one step, per action of `Next`.

## What is only model-checked

Every safety property of the passing runs is proved. What is left is liveness:

* `EveryChunkAcked`, `EveryCountPublished`, `CatchesUp`, `EveryJobEnds`, `StoppedPassEnds`,
  `EveryPostEnds` stay with TLC: the proof system does not reach liveness under
  fairness, nor `ENABLED`.

## What is not modelled

*Of the stamper:* eviction of clusters, the text of templates, severity and node
counters, `check_local`, validation limits of documents, and an fsync that raises
after its write. *Forward protocol:* framing, decoding and splicing. *Template
contract:* validation of documents.

*Of the projector:* topology versions, the alert about an unreachable OpenSearch,
paging, the text of labels; notification ingest, which keeps no state.

*Of the operations page:* the log of a job, its pages, what a wipe and
`reset_derived` delete, warm-up and scoring of the two runs, the content of a
replay (`replay.py` reads archives and shifts times).

*Of the shifter view:* everything that only reads, and two parts with state of their
own: triage marks (`triage.py`: optimistic concurrency over OpenSearch, a cache of
labels, a limit on watched versions) and semantic search (`semantic.py`: a pending
list, an encode semaphore). Both are bounded to their own documents and nothing
else reads them; the first is in the plan.

*Token trees:* drain3 and masking are text processing; eviction and replay of the
trees are in the plan.

*The rest* of the inventory is configuration, presentation or tooling with no state
to check: detector and monitor generators, dashboards, provisioning, the metrics
poller, the fault agent, the soak rigs, benchmarks and mock producers, which make
up most of the repository's lines. The mapped share of all lines is small for that
reason.

## How to run

In this directory, with the community modules on the library path:

```
tlc -config MCStamperCrashes.cfg MCStamper              # 2 minutes
tlc -config MCStamperAgeing.cfg MCStamper               # 3 minutes
tlc -config MCStamperProgress.cfg MCStamper
tlc -config MCSignalProjectorCycles.cfg MCSignalProjector  # 4 minutes
tlc -config MCReplayControlPage.cfg MCReplayControl
tlc -config MCTemplateCatalogFarm.cfg MCTemplateCatalog # 3 minutes
tlc -config MCTrendRollupPasses.cfg MCTrendRollup       # 2 minutes
tlc -config MCLiveLanePosts.cfg MCLiveLane
tlc -config MCStamperAckedLost.cfg MCStamper            # ends in a counterexample
tlc -config MCStamperHourShrinks.cfg MCStamper          # "
tlc -config MCStamperMarkAlone.cfg MCStamper            # "
tlc -config MCStamperDefinitionLost.cfg MCStamper       # "

tlapm StamperProofs.tla
tlapm StamperLedgerProofs.tla
tlapm StamperCatalogProofs.tla
tlapm ReplayControlProofs.tla
tlapm TemplateCatalogProofs.tla
tlapm TrendRollupProofs.tla
tlapm LiveLaneProofs.tla
tlapm SignalProjectorProofs.tla
```
