# A verification development of mirror-mirage

mirror-mirage watches directory trees with inotify and purges the URLs of
changed files from CDNs.  A change that is not purged stays visible in a CDN's
cache for as long as the cache likes, and nothing reports it; so what the
program owes its users is that every change of a watched file reaches every
bound CDN, across bursts, restarts, outages and failures, without calling a
CDN once per file.  The modules here model the parts of the program on which
that rests, TLC checks them on small instances and TLAPS proves the main
safety results about the queue, the batcher, the watcher, the filter, the
mapper, the providers and the daemon as a whole for every value of the constants.

Paths below are relative to `src/src/mirror_mirage/` of the repository unless
they start with `docs/`.

## 1. The system

```
inotify -> watcher -> filter -> mapper -> batcher -> queue (SQLite) -> worker -> provider -> CDN
           \______________ pipeline task ________/             one worker per CDN
```

One process, one asyncio event loop.  The tasks are the pipeline, the
batcher's coordinator, one debounce task per CDN and one queue worker per CDN
(`daemon.py`).  Other processes change the watched tree at any time; SQLite
runs on a thread of its own, one statement at a time, behind **one connection
all tasks share**.

| Component | State | Operations | What must hold |
|---|---|---|---|
| Watcher, `watcher.py` | watches by directory path, pending synthetic events; the kernel's watches and event queue | walk at startup, read an event, add a directory and rescan it, drop a directory | an idle watcher has every directory watched and has reported every change; a refused watch costs only its subtree; startup is all or nothing |
| Filter, `filter.py` | none | match globs, normalize an event | an event of a file is dropped iff its deepest watch ignores it or does not care for removals |
| Mapper, `mapper.py` | none | event to one URL per binding | every binding of the owning watch gets its URL |
| Batcher, `batcher.py` | a buffer, two times and a wake event per CDN; one lock | submit, debounce, flush on size, drain at shutdown | every target is enqueued, within its age cap, and not before its window; nothing is lost at a stop |
| Queue, `queue.py` | the `jobs` table; the connection's open transaction | enqueue, claim_ready, mark_done, reschedule, mark_failed, reset_in_flight | an acknowledged batch survives; one owner per job; settled is final; done means delivered |
| Workers, `daemon.py` | the claimed job | claim, call the provider, settle | bounded calls per batch; every job is settled |
| Providers, `providers/` | clients, tokens, limiter, cached domains | purge a batch | ok means all accepted; terminal means no retry helps; every purge returns |
| Configuration, `config.py` | the validated configuration | load | names, paths and credentials resolve |
| Daemon, `daemon.py`, `__main__.py` | the task group | run, recover, stop | a task that dies ends the daemon; a stop drains |

**Interaction.**  The pipeline awaits `Batcher.submit`, so a slow flush holds
the watcher back; the batcher calls the queue and nothing else; workers and the
batcher meet only in the queue's table and in its transaction; a stop cancels
every task at the await it is suspended in, after which the batcher's
coordinator drains the buffers and `run` closes the queue.

**What is hard.**  (1) The shared transaction: a COMMIT of one task stores the
statements of another, a rollback undoes them.  (2) Cancellation at any await,
with state already changed.  (3) The timers, wake events and the lock of the
batcher.  (4) The races between `mkdir`, the event, `add_watch` and `scandir`,
and a table keyed by path beside kernel watches that belong to inodes.
(5) Retries across restarts.  (6) A limiter and a semaphore in series.
`PROJECT.json` lists each as a hazard with the line where it bites and the
properties that would show it.

## 2. The modules

| Module | Models | Status |
|---|---|---|
| `JobQueue` | `queue.py`, `_queue_worker` and the daemon's life cycle | checked, proved |
| `PurgeLedger` | what the queue promises: batches that are queued, then done or failed | refined by `JobQueue`, with faults that roll nothing back too, and by `Daemon` (checked and proved) |
| `JobQueueProofs` | theorems about `JobQueue` | proved |
| `Batcher` | `batcher.py`, the pipeline as its client, the queue as its sink | checked, proved (`BatcherProofs`) |
| `Routing` | `filter.py` and `mapper.py`, pure functions of the configured watches | checked, proved (`RoutingProofs`) |
| `Watcher` | `watcher.py`, the kernel, the processes that change the tree, the pipeline up to `submit`; extends `Routing` | checked, proved (`WatcherProofs`: its types and what it tracks; `WatcherCoverageProofs`: that it covers the tree) |
| `Coalescer` | what the daemon relies on in the batcher | refined by `Batcher` and, with its faults, by `Daemon` (checked and proved) |
| `PurgeContract` | what the worker relies on in a provider (`providers/base.py`) | refined by `GcpProvider` and `Providers` (checked and proved) |
| `GcpProvider` | `providers/gcp.py` | checked, proved (`GcpProviderProofs`) |
| `Providers` | `providers/fastly.py`, `providers/cloudfront.py` | checked, proved (`ProvidersProofs`) |
| `Daemon` | all of it end to end: `config.load`, `build_providers`, `main`, `run`, `_pipeline`, the dry run, with the other components reduced to what their own modules show | checked, proved (`DaemonProofs`) |
| `MC...` | instances for TLC | |

In every module a definition ending in `_Mutant` is a plausible mistake in the
definition after it.  No action uses one; substituting it must make TLC refute
the property `PROJECT.json` pairs it with.  They show that each property can
fail.

### JobQueue

*State.*  `disk` is the committed table, `conn` the table inside the
connection's open transaction; a row's index is its `id`.  `phase` is the
process (down, recovering, running, stopping), `enq` the enqueue whose COMMIT
is due, `pc[w]` the await worker `w` is suspended in, `job[w]` its copy of the
row.  `acked`, `delivered` and `calls` are histories; they guard nothing.

*Actions.*  One per statement that runs between two awaits: `EnqueueInsert`,
`EnqueueCommit`; `ClaimSelect`, `ClaimUpdate`, `ClaimCommit`; `CallProvider`;
`MarkDone`, `Reschedule`, `MarkFailed` and their `SettleCommit`; `Start` and
`Recovered` for `reset_in_flight`.  `EnqueueCancel`, `Stop`, `Close` and
`Crash` end things between any two of these.  A statement takes effect when it
is issued: aiosqlite runs them in that order on one thread.  A cancelled await
leaves its statement executed.

*Data.*  `urls_json` is the number of the flush that made the batch.
`next_attempt_at` is kept as the time left until it (`wait`), so the state
space does not grow with the clock.  The `message` column and `created_at` are
left out: nothing reads them.

*Faults.*  `FaultySpec` adds statements that fail (disk full, I/O error) with
or without the rollback of the transaction SQLite may perform.  `KeepingSpec`
is the part of it in which a failed statement has no effect and rolls nothing
back (a locked database, an error SQLite recovers from), while the task that
issued it dies of the exception.  What the queue promises holds under the
second (`queue_claim_race` and the proofs) and fails under the first (section
3): the shared transaction tolerates every failure but the loss of another
task's statements.

### Batcher

*State.*  `buf`, `age`, `idle` and `wake` are `_buffers`, now minus
`_first_added`, now minus `_last_added` and the events; `pc[c]` is where the
debounce task of `c` is suspended, `timer[c]` what is left of its `wait_for`;
`lock` is the FIFO of `asyncio.Lock`, its head the holder; `open` is what
INSERTs have put into the open transaction.  `owed` (submitted and not
committed) and `cut` (under way when the stop came) are histories.

*Time.*  The loop runs every runnable task before it looks at the clock or at
the completion of a database call, hence `Quiescent` in `Tick` and
`EnqueueDone`.  An enqueue takes at most `EnqueueTime` ticks.

*Faults.*  `FaultySpec` adds `EnqueueFails` (the batch is lost, and the task
that flushed it dies) and `DrainFails` (`flush_all` gives up, and `run` ends with
what the other buffers hold).

### Routing

`Gm` is the recursive matcher of `filter.py`, `Owner` its choice of the deepest
watch, `Normalize` and `Map` the two halves of the pipeline's body, `Targets`
what it submits for an event.  Paths and patterns are sequences of components.
Below them stand `Matches`, `Deepest` and `Due`: what the documentation
promises, stated without the code's recursion and order of search.  The
properties of `Watcher` are stated with these; `EventsAreRouted` among them says
that the event about to be read is worth exactly what is due for its file.

### Watcher

*State.*  `dirs` and `files` are the tree; `marks[d]` is the path under which
the kernel watches the directory now at `d`; `queue` the kernel's events;
`config` is `_dir_to_root` and `_dir_to_config`; `todo` the stack of the
recursive walk; `synthetic` the deque.  The watcher is one task and never
suspends in a walk, but the tree changes between any two of its system calls,
so each of them is an action.  `dirty` (written, and not all that is due
submitted since) and `gone` (removed under a watch, likewise) say what is
still owed to the CDNs.

*Abstractions.*  One file per directory, since two files of a directory do not
interact; a file's opening and writing are not modelled, its close is.  Events
the code drops by type are not queued.  The tree hangs below one outermost watch
root (`WatcherAssumption`): roots side by side, which share nothing but the
queue and the budget of watches, are not an instance of their own.

### GcpProvider

*State.*  `calls` is the limiter's deque as ages, `Live` the loop that drops
its expired prefix.  A task is a purge and a URL, and `pc[t]` is where it is
suspended; `batch` is the purge `gather` waits for, `outcome` what the last one
came to.  `admitted` is an independent history of the last window, against which
the limiter is judged; `accepted` and `refused` are what the API did with the
batch.

*A request that raises.*  `_purge_one` catches `httpx.HTTPError` alone
(`gcp.py:159`), and `client.post` raises another exception for a file name that
was not decodable: it cannot encode the JSON body (httpx 0.28 and later;
`pyproject.toml` asks for 0.27 or later).  `Unsendable` is the set of such URLs,
empty for an httpx that sends them.  `gather` (`gcp.py:193`) then ends `purge()` at
once, the worker takes the exception for retryable (`daemon.py:66-68`), and the
other tasks go on (`Raise`): they sleep in the limiter, use up its admissions and
hold slots of the semaphore during the next purge, and nobody hears of their
results (`Heard`).

*Abstractions.*  URL splitting is left out, the API's answer is any of ok,
retryable and terminal, and a retryable answer may come after the API has
accepted the request.  `purge()` of an empty batch is left out: a job has URLs.

### PurgeContract

One purge at a time; the CDN accepts URLs whenever it likes; `ok` is returned
only once it has accepted the whole batch.  The docstring of `PurgeResult.ok`
says just that ("True if every URL in the batch was accepted by the CDN"), and
the worker deletes its obligation on that word alone.  The contract says
nothing of `retryable` and `terminal`, as the code does not either.

### Providers

*State.*  `kind` is the configured type, with `purge_all_service_domains` or
without; `pc` where `purge()` is suspended (first or second request of the
discovery, or `gather`); `version` is the local `active_version`; `domains` is
`_domains`, as a set of at most one set, so that *not discovered* and
*discovered, none* differ as `None` and `[]` do; `waiting` and `sending` are
the tasks of `_purge_one` before and inside the semaphore.  A task carries the
number of its purge, since `gather` does not cancel the siblings of a task that
raises: `Answer` of such a task changes nothing but the semaphore.

*CloudFront* is the same machine with one task whose request covers all paths
on all hosts, no discovery and no semaphore contention.

*Environment.*  `Activate` puts another version of the service into force at
any time.  `since` collects what has been served ever since the discovery
began, `accepted` and `refused` what the CDN did with the requests of the
purge under way; they are histories.

### Daemon

*Data.*  The content of a file is the number of its changes (`version`); a
target is a CDN and a file; a row of `jobs` holds files.  `begun[c]` remembers
which contents the purge of `c`'s worker can have refreshed: those that were
there when the provider was called.  `due` and `answered` are, per target, the
version a running daemon was told of and the version the last finished purge
was for.

*Actions.*  `Change` of a file (queued as an event while the daemon runs, not
seen while it is down); `Read`, `Submit` (one target at a time, and not while a
flush holds the batcher's lock), `Flush`, `Enqueued`; `Claim`, `Purged`,
`Retry`, `GiveUp`; `Stop`, `DrainFails`, `Close`, `Crash`; `Start` with any
configuration the operator has written meanwhile.

*Configurations* are records of what `load` and `build_providers` look at.
`Loads` is the loader's verdict and `Builds` the registry's; between the two
`run` has already reset the rows in flight.

*Composition.*  The components are as coarse here as their own modules allow:
that the watcher passes on every change is `TreeIsCovered` of `Watcher`; that a
submitted target is committed or lost at a stop is `OnlyTheCutIsLost` and
`EveryTargetIsEnqueued` of `Batcher`; that rows obey the ledger is
`ImplementsLedger` of `JobQueue`; that `ok` means accepted is
`ImplementsContract` of the providers.  What these modules except (an event
queue that overflows, failing SQL statements, the startup walk) is excepted
here.  For the batcher the link is a refinement on either side: `Batcher`
implements `Coalescer`, and `KeepsToCoalescer` says that the buffers move here
as `Coalescer` allows (with a failing drain and the death of the process, its
`FaultySpec`, which `Batcher` implements when its enqueues may fail).  So it is
for the queue: `JobQueue` implements `PurgeLedger`, and `KeepsToLedger` says that
the rows move here as `PurgeLedger` allows, a batch being its row and delivered
when it is done.  For the watcher and the providers the link is the sentence
above; an event too many is here a change more.

### Coalescer

A target joins the buffer of its CDN only while no batch is under way, leaves
it together with all the others there and as one batch, and batches are handed
to the queue one at a time; a stop is over only when the buffers are empty.
When a buffer is handed over is left open.  `Batcher` maps its `buf`, `open`
and `phase`; the tasks, the timers and the lock are hidden.

## 3. What the runs show

Passing runs:

| Run | Bounds | Shows |
|---|---|---|
| `queue` | 2 CDNs, one worker each, 2 flushes, 2 stops or crashes, `max_attempts` 2, fair | no acknowledged batch lost, no row stranded, done only if delivered, settled is final, calls bounded, every acknowledged batch settled; the queue implements `PurgeLedger` |
| `queue_claim_race` | 2 workers on one CDN | a job is claimed once, whatever happens between SELECT and UPDATE, and though statements fail without a rollback (`KeepingSpec`) |
| `batcher` | 2 CDNs, 2 URLs, 6 submits, size cap 2, fair | bounded age, no early flush by a debounce task, a stop loses at most the batch it cuts, every target is enqueued; `Coalescer` is implemented |
| `watcher_covers_tree` | two nested roots, depth 2, 3 watches, 6 changes | an idle watcher has all directories watched, exact bookkeeping, and every due target submitted since the last change of each file; an event is worth what is due at the deepest root, no less and no more |
| `watcher_limits` | 3 names, one ignored (staging), depth 1, kernel queue of 3, 2 watches, 5 changes, opened twice; patterns of 4 components | the same while watches are refused, up to an overflow; no stale removal unregisters a live watch; the glob matcher is right |
| `gcp_purges` | 3 URLs, one of them unsendable, quota 2 per 2 ticks, 2 slots, 2 purges, fair | no over-admission, no needless wait, ok means accepted; every purge returns, with leftover tasks of the one before in the limiter and the semaphore; the provider implements `PurgeContract` |
| `providers` | 2 URLs of one host, one of them unsendable; 2 versions of the service, 3 hosts; 2 slots, 2 purges, 1 activation, restarts, fair | an ok purge has reached every host known to be served; a batch is given up only if something of it was refused; every purge returns, with leftover tasks of the one before in the semaphore; both providers implement `PurgeContract` |
| `daemon` | 2 files, one bound to both CDNs; 5 configurations (usual, a CDN dropped, dry run, a missing key, an unknown binding); 2 changes, at most one of them of the file with both CDNs; 2 stops or crashes, `max_attempts` 2, fair | nothing a running daemon was told of is forgotten; every change is answered; targets exist only for CDNs that have a worker; the batcher is used as `Coalescer` allows and the queue as `PurgeLedger` does |

Why such bounds are enough to be interesting: two flushes and two tasks are
what it takes for one COMMIT to store another task's statement; two stops are
a crash and a crash during or after the recovery from it; a quota below the
number of URLs makes sleepers compete; depth two is what the recursion and the
path-keyed bookkeeping need, and six changes are the smallest number that
exhibits the stale entry described below; a purge that raises needs a second
purge to meet its leftovers; a change of a file needs another before it, under
purge, to be mistaken for it.  `MaxRows` is the number of rows that instance can
have, so `KeepsToLedger` follows them all.  Mutants of the code fail within them.
In `gcp_purges` the tasks left behind are of URLs that can be sent; with
`Unsendable = {u2, u3}`, where they may raise in turn and nobody hears of it, TLC
finds no error either.
`CHECK_DEADLOCK FALSE` stands where the system may stop: a daemon that waits
for changes once the bounds are used up.

Runs that find a violation, each against a sentence of the repository (quoted
in `PROJECT.json`):

| Run | The program | What is said of it |
|---|---|---|
| `queue_fault_lost` | a failed statement of a worker undoes an enqueue that then reports success | pending purges are not lost |
| `batcher_stop_loses` | a stop between INSERT and COMMIT loses the batch | "no work is lost on graceful shutdown" |
| `gcp_token_outage` | an unreachable token server is terminal | transport errors are retryable |
| `watcher_startup_gap` | files of directories made during the walk are missed | none is lost between `mkdir` and the watch |

`TreeIsCovered` and `EveryDirIsWatched` leave out what such runs expose: files
last changed before or during the startup walk (`excused`), directories
removed when they had a watch and their parent had none, until they are added
again (`torn`), subtrees the kernel
refused to watch and what follows an overflow (both `blind`).

`NothingIsForgotten` leaves out what a stop finds in memory and what a dry run
settles (`excused`), as these are lost by the code; `EveryChangeIsAnswered` in
addition what belongs to a CDN no longer configured.

`TerminalMeansRefused` of `Providers` counts a Fastly service without an active
version as a refusal.  During the discovery the model draws the class of the
answer and takes it for what the service said, so there the property says only
that nothing else ends in a terminal verdict; its weight is on the requests of
the purge.

The same modules refute more; each of these takes a line or two of a
configuration and is not a run of its own:

- `INVARIANT AgeIsBounded` under `FaultySpec` in `MCBatcher.cfg` (with
  `QuietWindow = 1`, `MaxAge = 2`, `EnqueueTime = 0`, `MaxSubmits = 3` and
  `Symmetry`): a failed `enqueue()` ends the debounce task of its CDN for good,
  since its exception is looked at only by the `gather` at shutdown and `submit`
  never starts another (`batcher.py:55-61`); later targets wait past any age
  until the size cap.  The other CDNs are spared (`FaultsSpareOtherAges`,
  section 5).  `docs/architecture.md:245-246`: "queue inserts fail; the
  batcher logs loudly and drops the batch".
- `INVARIANT NewDirIsWatched` under `MovesSpec` in `MCWatcher.cfg` (with
  `Names = {"a", "tmp"}`, `Watches <- OneRoot`, `Depth = 1`, `MaxChanges = 4`):
  a directory renamed into the tree, or within it, gets no watch
  (`watcher.py:303-309`), while the repository's `README.md:225-226` says "New
  subdirectories get a watch the moment they appear".
- `PROPERTY DryRunTakesNothing` in `MCDaemon.cfg`: a dry run works on the same
  database and settles, without a call, what is pending for real CDNs, while
  the repository's `README.md:180-182` says that "only the outbound API call is
  suppressed".
- `EveryChangeIsAnswered` without its exception `c \notin conf.cdns`: the rows
  of a CDN taken out of the configuration stay pending (`daemon.py:156`).
- `INVARIANT EveryServedHostIsPurged` in `MCProviders.cfg`: domains are
  discovered once per process (`fastly.py:108-110` says so, `config.py:34-36`
  does not).
- `TerminalMeansRefused` of `Providers` without `kind # "cloudfront"`: an error
  code that is not in `_RETRYABLE_CODES`, a 5xx among them, is terminal
  (`cloudfront.py:106-107`), while `docs/cdn-providers.md` calls 5xx retryable.
- `INVARIANT AttemptsCountCalls` in `MCJobQueue.cfg`: `attempts` ("number of
  times the provider has been called", `queue.py:11`) never counts the call
  that settles the job.
- `INVARIANT NoOrphanInFlight` in `MCJobQueueLost.cfg`: a failed COMMIT of one
  task strands another task's row `in_flight` until a restart.
- `INVARIANT DoneIsDelivered` and `PROPERTY SettledIsFinal` in
  `MCJobQueueLost.cfg`: a worker claims a row whose INSERT has no COMMIT yet;
  the enqueue then fails, and its rollback takes back the row, the claim and
  the counter of AUTOINCREMENT; the next enqueue's row gets the same `id`, and
  the worker marks it done for a purge of the batch that is gone.
  `INVARIANT ClaimIsExclusive` fails alike: if the next row is another CDN's, its
  worker claims the `id` the first one still holds.
- `INVARIANT NeverDelaysOthers` in `MCBatcher.cfg`: one lock is held across
  every enqueue, while `batcher.py:13-14` says a CDN "never delays flushes for
  another".
- `INVARIANT RequestsAreBounded` in `MCGcpProvider.cfg`: the limiter precedes
  the semaphore, so requests admitted in different windows wait for their slot
  together, and more than the quota go out in one window.
- `INVARIANT NewDirIsWatched` in `MCWatcher.cfg`: a directory replaced between `add_watch` and
  `scandir` is scanned again when its creation is read.  A subdirectory that
  was replaced as well still has its old entry in `_dir_to_root` then, because
  its `DELETE_SELF` comes later in the queue, so `_add_dir_and_scan` skips it;
  the `DELETE_SELF` removes the entry, and nobody adds the new one.
- `INVARIANT CoverageReturns` in `MCWatcherLimits.cfg`: an overflow that
  swallows an `IN_CREATE` is never made up for, while the comment at
  `watcher.py:279-280` expects coverage back with the next change.
- `Watches <- OuterIgnoresMore` in `MCWatcher.cfg` with `Names = {"a", "tmp"}`:
  the walk of the root listed first claims the directories of the root below
  it, with its own ignore globs, while the filter prefers the deepest root
  (`filter.py:82-83`); files the inner root serves are never reported.
- `Watches <- Twice` in `MCWatcher.cfg`: two watches of one root; the filter
  takes the first, the mapper the bindings of the last (`EventsAreRouted` and
  `TreeIsCovered` fail).

A directory is `torn` in three ways, all of them within the races of the walk:
it is replaced between its `add_watch` and the `scandir` of the directory above;
it and its parent are both replaced between the listing of the grandparent and
the parent's own `add_watch`; or it is the root of an inner watch, listed before
the outer one, and is replaced during startup before the directory above it has
a watch.  Each time its entry in `_dir_to_root` outlives its watch, and no
event announces the directory that replaces it.

## 4. Fairness

- `JobQueue`: workers are scheduled, provider calls return (httpx and boto3
  have timeouts), a COMMIT under way ends, time passes, and a daemon that is
  down is started again (`Restart=on-failure`, `packaging/mirror-mirage.service`,
  or the operator).  Nothing is assumed of the provider's answers, of stops or
  of new flushes.
- `Batcher`: runnable tasks are run, an enqueue ends, time passes.  Nothing is
  assumed of the pipeline's submits or of a stop.
- `GcpProvider`: tasks are scheduled, requests and refreshes end, time passes.
  Weak fairness of a task's steps is enough for the semaphore, though it does not
  say in which order waiters are served: a purge has finitely many tasks, and
  what is left of earlier ones only gets less.
- `Providers`: tasks are scheduled and requests end (httpx and botocore time
  out).  Nothing is assumed of restarts or of the operator of the service.
- `Daemon`: the pipeline, the batcher and the workers make progress, which the
  runs of their modules show, and a daemon that is down is started again, in
  the end with a configuration it can run with.

All are weak fairness, since each of these steps stays enabled until it is
taken, but for one: a `Flush` of one CDN is disabled whenever another CDN's
enqueue holds the batcher's lock.  `Flush` is strongly fair in `Daemon`,
because `asyncio.Lock` serves its waiters in turn; `Batcher`, which models that
queue, needs no such assumption.

## 5. What is proved

### JobQueue

From `QueueAssumption` (each worker has a CDN, the delays and bounds are
naturals, `max_attempts` is any integer, as the loader allows):

- `TypeCorrect`, `Durability`, `Exclusion`, `NoOrphans`, `DoneIsTrue`,
  `Finality`: the safety properties of `queue` and `queue_claim_race`
  for any number of CDNs, workers per CDN, flushes, stops and crashes.
- `Refinement`: `JobQueue` implements `PurgeLedger`.
- `CallBound`, with the further assumption that no two workers share a CDN:
  `CallsAreBounded`.
- `FaultsSpareSafety`, `FaultsSpareTheLedger` and `FaultsSpareTheCallBound`: the
  same of `KeepingSpec`, in which statements fail without a rollback and tasks
  die of it.  The invariants are proved of this specification, and the results
  above follow, since every behaviour of `Spec` is one of `KeepingSpec`.

The properties are not inductive.  `QueueInv` strengthens them with the facts
the code relies on without saying so:

- `Control`: with the daemon down, nothing is open; workers exist only while
  it runs.
- `Agreement`: the committed table is a prefix of the connection's, and a row
  settled on disk is settled alike in both.  This is where the shared
  transaction is tamed: any COMMIT moves the disk to the connection's table,
  and that never takes anything back.
- `OneRowPerFlush`, `Durable`: an INSERT is in the open transaction until some
  COMMIT stores it; rolling back removes only what nobody was told of.
- `Knowledge`: what a worker remembers of its row is still true, its row is
  `in_flight` while it is held, and the claim is committed before the call.
- `ClaimIsExclusive`, `Owned`: rows in flight and holders correspond one to one,
  unless a worker has died; its row waits for the restart.
- `Truthful`: what is settled was inserted, and committed, before; what is
  done was delivered.

`InvStep` has a lemma per action.  `Finality` and `Refinement` follow from the
invariant and one lemma on how the disk changes (`DiskStep`).  `CallInv` adds
that the `attempts` column of an unsettled row accounts for all calls but
those a stop cut short and the one under way, a dead worker's last call being
charged to the stop it brings about (`Calling`, `Past`); `JobsKnown` ties the
copy of a worker, dead or alive, to a row of its CDN.  It needs one worker per CDN,
because with two a claim made from a stale SELECT may carry an old count.
`QueueInv` and `CallInv` were checked with TLC on the instances first.

### Batcher

From `BatcherAssumption`, for any number of CDNs and submits, any window and
cap: `BatcherTypeCorrect`, `BatcherLosesOnlyTheCut`, `BatcherCoalesces`,
`BatcherAgeIsBounded` and `BatcherImplementsCoalescer`; and
`BatcherFaultsSpareCoalescing`: when enqueues fail, no flush is early either, and
the batcher implements `FaultySpec` of `Coalescer`; and
`BatcherFaultsSpareOtherAges`: a failure costs its own CDN the bound on the age
(section 3), and the others keep it while the daemon runs.  That only a cut
batch is lost fails with them, of course.
`BatcherCoalesces` is
about a task that reads its deadline outside the lock and flushes under it, with
the pipeline free to act in between.  The invariant adds

- `LockIsInOrder`: the lock's queue has no repetitions and holds exactly the
  tasks suspended in it, and only its head enqueues;
- `FlushesAreDue`: a timer ends only when its buffer is due, unless the
  pipeline has taken that buffer and is still enqueuing it; and the pipeline
  gets at no buffer of its CDN between the timer's end and the flush, because
  the lock serves its waiters in turn;
- `OwedIsKept`: a target not yet enqueued is in a buffer, the open batch, or
  the batch a stop has cut short;
- `StopEndsTasks`: after the stop no task is left to take a buffer;
- `OpenIsEnqueuing`: while the daemon runs, the open transaction holds a batch
  only during its `enqueue()`, which has the lock.

All but `OwedIsKept` make up `Sound`, which a failing enqueue preserves too
(`FaultStep`).

`BatcherAgeIsBounded` is `AgeIsBounded`: no target waits for longer than
`max_age` and one enqueue per CDN and one more.  A task may be overtaken at the
lock, and a bound on its age says nothing of how often; `AgesFit` counts it.
For a task that is waiting to check its deadlines or to flush, `Ahead(c)` is the
number of enqueues that can still come before its own: those of the other
tasks that have decided to flush, at the lock before it or not, and those of
the pipeline.  Its age, with `EnqueueTime` for each of these, and less what the
enqueue under way has already taken, stays within the bound (`Fits`); every
step that adds to the age takes as much from the turns ahead.  `AgesFit` speaks
of the living tasks alone and holds under `FaultySpec`: a task that dies leaves
the lock, and so only shortens the wait of the others.  `AgeIsBounded` follows
with `Lasting`: without faults no task dies, and after a stop no age grows.

### Routing

From `RoutingAssumption` alone, for any patterns, paths and watches:

- `MatcherIsRight`: the recursive matcher finds a match iff there is one,
  `Gm(pp, sp) = Matches(pp, sp)`.  What the matcher says of the rest of a pattern
  and the rest of a path is what it says of shorter rests, so the proof is an
  induction over the pattern.  It is put as the search for a least
  counterexample (`Smallest`): the last component of the pattern from which the
  table is wrong would have only right rows after it, and then is right by
  `EntryIs`.  `FitsRun` does the same for the runs of `**` that the code
  collapses: if one `**` takes any number of components, so do several.
  `WatcherMatchesGlobs` states it of the run's property (`GlobsMatch`).
- `RoutingIsRight`: wherever the roots are, below each other or side by side, if
  no two watches share one (`DistinctRoots`), what the filter and the mapper make
  of an event is what is due for its file, no less and no more: the first match of a stable sort by depth is the one deepest root,
  its own `ignore` and `flush_on_delete` decide, and `_by_root` finds it again.
  The loader does not ask for distinct roots; `Twice` shows what happens without.
- `WatcherRoutesEvents` carries this to the reachable states of the watcher
  (`EventsAreRouted`).

### Watcher

From `WatcherAssumption` (the watch roots are in the tree, one of them is its top,
`Depth` and the other bounds are naturals), for any tree, number of watches, watch budget,
length of the kernel's queue and number of changes and restarts:

- `WatcherTypeCorrect`, and `WatcherTracksItsWatches` (`WatchedIsTracked`);
- `WatcherBookkeeping` (`BookkeepingIsExact`);
- `WatcherCoversDirs` (`EveryDirIsWatched`), if `DirsAgree`;
- `WatcherCoversOneTree`, the same for a configuration with one watch, with no
  assumption at all on what it ignores;
- `WatcherCoversTree` (`TreeIsCovered`), if `DirsAgree` and `FilesAgree`.

`DirsAgree` and `FilesAgree` are assumptions about the configuration: watches
that hold a directory, or a file, do not ignore it if the deepest of them does
not, what is to be watched is connected, files below an ignored directory are
ignored themselves, and roots differ.  They are needed.  The walk adds a
directory under whichever root comes first and goes by that root's globs, while
the filter goes by the deepest root's: `OuterIgnoresMore` and `Twice` are
configurations without the one and the other, which the loader accepts, and both
theorems fail on them (section 3).  A pattern such as `**/tmp`, which ignores a
directory and not what is in it, violates `FilesAgree`: its files are due, by
the filter, and in a directory the walk leaves out.  `WatchesAgree` of
`MCWatcher` has TLC confirm that the instances of the runs, the example
configuration's staging pattern on one root and on nested ones, meet both.

The watcher's map is keyed by path and the kernel's watches belong to
directories, so the danger is a directory removed and made anew.  What rules it
out (`IInv`) is

- `SelfIsLast`: as long as a DELETE_SELF is unread, the directory of its path
  has no watch and still has its entry, and there is no second one; the entry
  keeps `_add_dir_and_scan` from adding the new directory before the event of
  the old one has been read;
- `Tracked`: a watch has an entry.

These survive everything.  The next ones (`CoverInv`) hold until the kernel
drops an event:

- `EntriesFit`: an entry has a watch, or the DELETE_SELF that ends it is in the
  queue;
- `RemovalsFit`: a directory whose DELETE_SELF is unread does not exist again
  yet and its parent is watched, so its return will be announced; or its return
  is announced after the DELETE_SELF; or its parent's own DELETE_SELF comes after,
  which passes the question on to the parent.  A `torn` directory is one for
  which this cannot be said;
- `DirsAreReached`: a directory that exists has its watch, or stands in the walk's
  stack, or its parent has no watch, is about to be scanned, or has announced it.
  Nothing bounds how deep such a chain of parents is; an idle watcher with an
  unwatched directory would have a shallowest one, and its parent is watched and
  has nothing left to say (`QuietCovered`).

`FilesInv` adds the files: one that was written is in a directory without a
watch, or will be found by a `scandir`, or is in `synthetic`, or its event is in
the queue (`WritesAreHeard`); the event of a removal comes before the
DELETE_SELF of its directory, while the directory still has its entry
(`RemovalsAreHeard`).

### Daemon

From `DaemonAssumption`, for any number of files, CDNs, configurations, stops
and attempts: `DaemonTypeCorrect`, `DaemonTargetsHaveWorkers`,
`DaemonForgetsNothing`, `DaemonKeepsToCoalescer` and `DaemonKeepsToLedger`.
The last two make the daemon's model a user of the contracts that `Batcher`
and `JobQueue` are proved to implement.  `NothingIsForgotten` alone is not inductive, because
it does not say who owns a row in flight.  The invariant adds

- `WorkersHoldTheirJobs`: a worker's job is an in-flight row of its CDN;
- `NothingOutlivesItsRun`: events and fan-out exist only while the daemon runs,
  buffers only until it is closed;
- `OneEnqueue`: the open batch is of one CDN;
- `Clocks`: `due`, `begun` and `answered` never run ahead of the files, and a
  purge under way began after the one answered last;
- `BindingsResolve`: the bindings of the running configuration name its CDNs.

The step that matters is `Answer`: a purge that settles a row answers for what
the files were when it began, so a change in between must still be in an event,
the fan-out, a buffer, the open batch or another row.

### The providers

From `ProvidersAssumption` and `GcpAssumption`, for any set of URLs, hosts,
versions, and any quota, window and concurrency: type correctness, the safety
properties of the runs, and that each implements `PurgeContract`.

- `Providers`: `PurgesAreNumbered` (no task belongs to a later purge),
  `DiscoveryComesFirst` (what is served since the discovery began is covered by
  the version it learned, then by the cached domains), `RequestsAreTracked`
  (every request of this purge is waiting, being sent, or has left its answer)
  and `OkMeansDone`.
- `GcpProvider`: the limiter is where an induction on time would be expected;
  what replaces it is `LimiterKnows` (beyond an expired prefix the deque is
  exactly the admissions of the last window, so that popping the prefix loses none) with `Fresh` (its
  ages are in order), and `SleepersWaitForTheOldest` (a sleeper's delay ends
  when the oldest call leaves the window).  `TasksHaveBegun` (no task belongs to a
  later purge) and `TasksServeTheBatch` (each URL of the batch has its task, and
  a result that says ok is the API's word) tie the tasks to the batch for the
  contract: leftovers of a purge that raised carry its number and give no result
  to the next.

All invariants were checked with TLC on the instances before they were proved.

### Only model-checked

Liveness: `EveryJobSettles`, `EveryTargetIsEnqueued`, `EveryChangeIsAnswered` and
the two `PurgeReturns` rest on fairness and ENABLED, which are beyond the
prover.  Every invariant and every action property of the passing runs is
stated by a theorem.  The violation runs need no proof: their counterexample is one.

Theorems with hypotheses beyond the assumptions of their module: `CallBound` and
`FaultsSpareTheCallBound` (one worker per CDN, as `run` starts them), and those
about the watcher's and the filter's configuration named above.

## 6. Plan

What is left, in this order:

1. An abstract specification of what `Watcher` reports, which it implements and
   `Daemon` uses, as `Coalescer` is one of the batcher and `PurgeLedger` one of
   the queue; the same for `PurgeContract` and `Daemon`.
2. `Watcher`: hard and symbolic links, a delayed DELETE_SELF.
3. `JobQueue`: steps of the wall clock.

## 7. Not modelled

Logging, argument parsing and exit codes: output only.  YAML and the typing of
configuration fields by pydantic: a value of the wrong type is refused at
startup, and the models take typed values.  The spelling of URLs: prefixes,
percent signs, `#` and `?` in file names (a hazard, see `PROJECT.json`).
`PersistentQueue.stats` only reads.  Power loss with `synchronous = NORMAL`,
which may undo the last COMMITs of a WAL database: a crash here is the death of
the process.  Numeric ranges are those of the integers: `exponential_backoff`
overflows a float beyond a thousand attempts, which no sensible `max_attempts`
reaches.  In `Daemon` a start that fails in the watcher (`InotifyLimitError`)
has the effect of one that fails in `build_providers`, and is left out.
