# Specifications of pakaremon/rust-mal

TLA+ modules of the package analysis platform, the TLC runs that check them on
small instances, and theorems TLAPS proves about them for every instance.
Paths are relative to `src/`; `PA` stands for `web/packamal/package_analysis`,
`DA` for `dynamic-analysis`.

## 1. The system

A Django application (`web/packamal`) accepts requests to analyse a package,
queues them in a database table and in a Celery queue, and Celery workers run
the analysis in a container. Every Django process also starts a thread, of an
older queue, that takes the same rows and analyses them by itself. What runs in the container, and in the stand-alone
deployment that is fed by Pub/Sub, is a Go program (`dynamic-analysis`), which
runs the package in a podman sandbox, parses what strace recorded and uploads
the results.

| component | state | operations | interacts with | what makes it correct | module |
|---|---|---|---|---|---|
| **Celery task queue** `PA/tasks.py`, `PA/views.py` (`analyze_api`, `save_report`), `PA/models.py`, `packamal/celery.py` | rows of `AnalysisTask` and `ReportDynamicAnalysis`, messages in Redis, a cache per worker process | request (create, queue, send), `run_dynamic_analysis`, `_process_next_queued_task`, `check_timeouts`, `cleanup_old_tasks` | database, broker, containers, Celery Beat, the queue threads through the rows | no queued or running task is forgotten; nothing is completed that was not analysed; every task ends | `TaskQueue`, in `AnalysisQueue` |
| **Legacy queue manager** `PA/queue_manager.py`, `PA/apps.py` | the same rows, a thread in every process that loads the application | take, process, time out, number | database, containers, the Celery workers through the rows | the same | `QueueManager`, in `AnalysisQueue` |
| Task API `PA/views.py` | - | list, queue status, timeouts | database | a walk over the pages misses nothing | `TaskApi` |
| Report storage `PA/views.py`, `PA/redis_client.py` | reports in the table or in Redis, with expiry | save, copy, get, download | database, Redis | what is downloaded is what the completed task links to | `ReportStore` |
| API keys and rate limit `PA/auth.py` | a counter with an expiry, in the memory of each web process | check and count | cache | a bound on what a process lets through in an hour; a refused key is served again | `RateLimit` |
| Package lists `PA/services/repository_service.py` | a file per ecosystem, a cache per process | read, fetch, write | registries, file system | a list is whole, whoever writes the file | `PackageLists` |
| LastPyMile `PA/src/lastpymile` | a checkout, hashes, judgements | clone, scan commits and releases, judge files | git, bandit | every file of a release is judged, and against every commit | `LastPyMile` |
| Analysis runner `PA/analysis_runner.py`, `PA/services`, the pages that call it | containers, the volumes, uploads | run, wait, read the result, scan | docker, `analyze` | a request gets its own result, a failure never another one's | `AnalysisRun` |
| Analyze command `DA/cmd/analyze` | - | a static and a dynamic analysis, then the uploads | everything below | exit status and result agree | `AnalysisRun`, `DynamicAnalysis` |
| Pub/Sub worker `DA/cmd/worker/main.go` | the message in hand, `AnalyzedPackageSaved` | receive, analyse, save, notify, ack, nack | subscription, sandboxes, buckets | a message is acked only after what its analyses yielded is saved; the loop never stops on one message | `AnalysisWorker` |
| Ack deadline extender `DA/cmd/worker/pubsubextender` | ticker, two channels, a goroutine | start, extend, stop | subscription | the lease does not end while it runs; stop returns | `AnalysisWorker` |
| Saving results `DA/internal/worker/save_data.go`, `internal/resultstore` | buckets, `AnalyzedPackageSaved` | a chain of uploads | buckets | nothing is saved after a failure; the package once per message | `AnalysisWorker` |
| Scheduler `DA/cmd/scheduler` | messages in flight | forward, drop, ack | two topics | what is supported is sent on before it is acked | `AnalysisWorker` |
| Sandbox `DA/internal/sandbox` | container id, `initialised`, logs | network, init, run, copy, clean | podman | Clean leaves no container; logs are of this sandbox | `DynamicAnalysis` |
| Dynamic analysis `DA/internal/worker/rundynamic.go`, `internal/dynamicanalysis` | data per phase, last phase and status | run the phases in order | sandbox, capture, strace | data of exactly the phases that ended; stop at the first that did not complete | `DynamicAnalysis` |
| Packet capture and DNS `DA/internal/packetcapture`, `dnsanalyzer` | a goroutine, two channels, two maps | start, receive, close | bridge interface | nothing is received after Close; it returns unless the source ended | `DynamicAnalysis`, `Observations` |
| strace parser `DA/internal/strace` | maps of files, sockets, commands; write buffers | one step per line | log of gVisor | says what the lines say, in any order | `Observations` |
| Static analysis `DA/internal/worker/runstatic.go`, `internal/staticanalysis`, `sandboxes/staticanalysis` | the extracted tree, the results file | download, extract, describe, parse, write | `file`, a JS parser | a record is whole and each datum is of its file | `StaticAnalysis` |
| Python's phase script `DA/sandboxes/dynamicanalysis/analyze-python.py` | an alarm, types seen, instances | install, import, call everything | the package's code | ends unless package code that no alarm covers hangs; a call that hangs costs only itself | `PythonPhases` |
| other phase scripts `analyze-*.{js,rb,php,py}` | - | install, import or execute | package managers, the package's code | a file that fails does not hide the others | `PhaseScripts` |

Not modelled: section 6.

What is hard in this code: two queues that take the same rows and know nothing of
each other, a Celery worker and a thread of every Django process (apps.py:11-26;
three gunicorn workers and Celery, SETUP.md:715 and 746-750); transactions in
which nothing is locked but the worker's own row, and in the threads not even that;
at-least-once messages that the program itself
duplicates; acks after the work, so a lost worker repeats it, and a time limit
that acks without finishing; containers that outlive the process waiting for
them; rows saved from memory after others have changed them; uniqueness
constraints hit in the middle of a transaction; volumes, directories, files and
Redis keys that every analysis of a host shares; goroutines that meet on
unbuffered channels; a signal handler that raises wherever the script is.
PROJECT.json lists each of these under "hazards" at its line.

## 2. The modules

| module | is | proofs in |
|---|---|---|
| `TaskLifecycle` | what the two queues together keep: the abstract specification | |
| `TaskQueue` | the Celery task queue | |
| `QueueManager` | the queue threads; extends `TaskQueue`, as they write its rows | |
| `AnalysisQueue` | both queues together, and what is said of them | `AnalysisQueue_proofs` |
| `TaskApi` | calls about many tasks while the queue goes on | `WebParts_proofs` |
| `ReportStore` | reports in the table and in Redis | `ReportStore_proofs` |
| `RateLimit` | the requests with one API key, in each web process | `RateLimit_proofs` |
| `PackageLists` | the lists of package names | `WebParts_proofs` |
| `LastPyMile` | phantom files of releases | `WebParts_proofs` |
| `AnalysisRun` | requests that share a host, and the container each runs | `AnalysisRun_proofs` |
| `AnalysisWorker` | scheduler, subscription, workers, extenders, buckets | `AnalysisWorker_proofs` |
| `DynamicAnalysis` | sandbox, phases and packet capture | `DynamicAnalysis_proofs` |
| `Observations` | what strace lines and DNS packets add up to | `SandboxParts_proofs` |
| `StaticAnalysis` | static analyses over one results file | `SandboxParts_proofs` |
| `PythonPhases` | analyze-python.py | `SandboxParts_proofs` |
| `PhaseScripts` | the scripts of six other ecosystems | `SandboxParts_proofs` |

`AnalysisQueue` implements `TaskLifecycle`, and `TaskApi` takes it for the queue its
calls look at. The constants of an instance are in `MCAnalysisQueue`,
`MCAnalysisRun` and `MCAnalysisWorker`. `MCSandbox` and `MCWeb` put modules that share no state into
one instance: the variable `part`, chosen at the start, says which of them a
behaviour is about, and the others stay as they start, so that a run explores
the sum and not the product of their states.

In several modules an action is preceded by a variant that no specification
uses (`RefuseRenews`, `HoldLate`, ...). They are the mutants of PROJECT.json:
a plausible mistake in the code, with which TLC finds a property violated.

### TaskQueue

*State.* `row` is the `AnalysisTask` table (the status, purl, report, priority,
order of queueing, idempotency key, the kind of error, and who started the task, of
each id; "absent" is an id not handed out yet), `reports` the
`ReportDynamicAnalysis` table in id order, each report named by its package.
`broker` counts the copies of each message (task and retry count) in the `analysis`
queue. Each worker has a program counter `pc` in `run_dynamic_analysis`, the message
in hand (`job`), the row it has in memory (`mem`), the exception it handles (`error`)
and its process's cache (`cache`; the default `LocMemCache` is per process).
`expired` is what a worker's `check_timeouts` has read and not yet saved, `orphans`
the tasks whose container runs though nobody waits for it, `analysed` (history) the
packages a container gave a result for. `at`, `req` and `made` are the requests in
`analyze_api`.

*Steps.* A step is a transaction, or an autocommitted query whose answer a later
step relies on, or a call to the broker. PostgreSQL runs at READ COMMITTED and no
view is atomic, so `analyze_api` is a step per query. The first transaction of
`run_dynamic_analysis` is two steps - `Claim` takes the row lock and looks for
running tasks, `Start` (or `ReuseResult`) looks for a result and commits - because
another worker may commit in between; `Unlocked` makes other writers of that row
wait. The refresh after an analysis and the save of its heartbeat
(tasks.py:139-146) are two steps as well, `FinishAnalysis` and `SaveHeartbeat`,
because the save writes a status that may be stale by then. A read right before a
save on which nothing else depends is part of the save. Sending a retry and acking
the message it replaces are two steps (`RetryFailed` or `RetryBlocked`, then
`Ack`): a worker lost between them leaves both messages. Where nothing was sent,
the end of a task and its ack are one step (`Finish`, `SkipCompleted`).

| code | actions |
|---|---|
| `run_dynamic_analysis`, lock and checks (tasks.py:40-63) | `Receive`, `ClaimMissing`, `RetryBlocked`, `FailBlocked`, `SkipCompleted`, `Claim` |
| smart cache and start (65-97) | `ReuseResult`, `Start` |
| cached result (101-121) | `UseCache` |
| analysis (123-157) | `StartContainer`, `FinishAnalysis`, `SaveHeartbeat`, `FailAnalysis` |
| report (163-172) | `SaveReport`, `SaveReportTwice`, `LinkReport`, `LinkReportTwice` |
| professional report (174-192) | `Publish`, `FailToPublish` |
| handler and end (194-243) | `MarkFailed`, `FailToMarkFailed`, `ProcessNext`, `RetryFailed`, `Finish`, `Ack` |
| `_process_next_queued_task` (246-309) | `DispatchNext`, inside `ProcessNext` and `SaveTimeouts` |
| `check_timeouts` (312-376) | `ScanTimeouts`, `SaveTimeouts` |
| `cleanup_old_tasks` (379-408) | `Cleanup` |
| `analyze_api` (views.py:719-927) | `Submit` to `FailToSend`, one per query or answer |
| Celery's settings (celery.py:20-28) | `Crash`, `HardTimeLimit`, `SoftTimeLimit`, `Recycle` |

Two things the code does without saying so shape the model. `AnalysisTask.report`
is a `OneToOneField` (models.py:89), and so is `ReportDynamicAnalysis.package`
(models.py:31): saving a report a second time, or linking one to a second task,
raises `IntegrityError`. And `self.retry` raises its `exc` argument once the
retries are used up, so the second refusal of a task is a failure (`FailBlocked`).

*Abstractions.* Packages are model values and a report is its package. Time is
left out except for what it decides: a row times out only when no worker executes
it (`Abandoned`), because the 30 minutes of `is_timed_out` (models.py:103) start
after the message was received and the hard limit of 1800 s (celery.py:27) ends
the worker before; a thread has no limit, and a row it started may time out at any
moment; the hard limit strikes at an analysis or after it
(`HardTimeLimit`), the only steps that can take that long; rows older than a day
do not count as active (`Stranded`); rows are deleted seven days after their end,
when no worker, request or thread knows them (`Cleanup`, `NotInThread`). `queue_position`,
the time of a heartbeat, durations and texts decide nothing and are left out. The priority of
a Redis message is left out: the broker delivers in any order, which includes
every order the priorities could enforce.

*Faults* are chosen by `Faults` and counted by `MaxFaults`: "crash" (a pool
process dies; acks_late and reject_on_worker_lost give the message back), "kill"
(task_time_limit; the message is acked), "soft" (SoftTimeLimitExceeded while
waiting for the container), "send" (`apply_async` raises), "api" (the web process
dies in a request), "thread" (the process of a queue thread ends). An analysis that fails, and a professional report that cannot
be saved, are ordinary steps.

### QueueManager

*State.* Of each thread there is the place in `_worker_loop` and `_process_task`
(`place`), the task in hand, that task's `object` in memory, and `seen`, the rows of a
transaction that is about to save them. `save()` writes back all the columns of
an object, so that whatever Celery did to the row in between is undone.

*Steps.* A transaction that reads rows and then saves them is a step for each query
and one for the writes, with anything in between; nothing is locked.

| code | actions |
|---|---|
| `ready()`, `_worker_loop` (apps.py:11-26, queue_manager.py:139-174) | `StartWorker`, `Perish` |
| `check_timeouts` | `CheckTimeouts` |
| `_get_next_task` | `GetRunning`, `GetNext`, `GetNone` |
| `_process_task`: start, analysis, heartbeat | `StartTask`, `GetResult`, `GetError`, `Heartbeat` |
| report and end | `StoreReport`, `StoreTwice`, `Complete`, `LoseReport`, `SaveUrl`, `NoUrl` |
| its handler | `Fail`, `FailTwice` |
| `_update_queue_positions` | `ReadQueue`, `SaveQueue` |

A save that the `OneToOneField` refuses follows from the rows: `LoseReport` is the
save of "completed" with a report another row has (272-276). The object keeps that
report, so that the handler's own save (313-320) raises as well and the row stays
running (`FailTwice`).

*Abstractions.* `queue_position` follows no rule the two queues share (Celery's rows
have none, and threads number them at different moments), so any queued row of the
highest priority may be the first. `add_task_to_queue` is called by nothing and left
out: the rows are those `analyze_api` queues for Celery. Outages of the
database are not modelled.

### AnalysisQueue

The composition: `WorkerStep`, `KillStep`, `ClientStep` and `TableStep` are steps of
`TaskQueue`, `ThreadStep` and `PerishStep` of `QueueManager`. Under Celery's prefork
pool the thread is in the parent process, so a worker and a thread are lost
independently. Two history variables follow the rows: `left` are the running rows
whose worker or thread is gone for good, `revived` the queued rows that have run
before.

### TaskLifecycle

Six actions over the status, purl, result and the set of results containers gave:
`Create`, `Queue`, `Analyse`, `Save` (a worker or thread saves its task as running,
completed or failed), `SaveMany` (timeouts, and a thread that saves the queue),
`Remove`. It says that a task never changes its purl, is completed only when its
package was analysed, has only results of analyses, is removed only after it ended,
and that nothing happens to it before it is queued. It does *not* say that an end is
final or that one task runs at a time, which the code does not keep (section 3).
`AnalysisQueue` implements it with `Lifecycle == INSTANCE TaskLifecycle WITH status,
purl, result` read off the table: messages, workers, threads, duplicates and retries
are stuttering steps.

### TaskApi

The endpoints that tell about many tasks, one call (or one walk over the pages) at
a time. The table under them is TaskLifecycle: `Evolve` takes any step of
`Lifecycle!Next` between any two queries, a new row becomes the first of the list
(`created` says how many there were with it), a deleted one leaves it. `ListPage` is
`list_tasks_api` for one page, `ListByStatus` one query of `queue_status_api`,
`TellTimeouts` is `timeout_status_api`, and `AskForTimeouts` with `Check` is
`check_timeouts_api` and the message it queues. `call` remembers what was there
when the call began and still is. Two tasks and pages of one make a row move from one page to the next.

### ReportStore

*State.* `report` is the row of each package, `newest` the row with the highest id,
`linked` the report of each package's completed task, `large` and `copy` the keys in
Redis. Each task and each client has a place in `save_report` or
`save_professional_report` (`pc`), the package (`pkg`), the report its task links to
(`link`) and what it has read (`data`).

*Steps.* Each call to Redis or the database is one: `EndAnalysis`, `StoreLarge` (an
error is only logged), `SaveReport`, `Latest` and `Complete` for the task, then
`Fetch`, `Look`, `SetCopy` for the copy that is downloaded, by a task or by a request
that found a completed one (`RequestReport`). `Latest` takes the newest report,
whichever package it is of, and `Fetch` reads the report that is linked. Keys expire
at any moment (`Expire`).

*Abstractions.* The contents of a report are its package and the number of its
analysis, 0 for a summary. Two packages share a key when their names differ in
`/`, `\` and `_` only: `KeyOf` says which. `Large` are those over 200 MB. The
deletion of tasks after seven days, and rows that a thread reopens, are
`AnalysisQueue`'s and left out here.

*Bounds.* Three packages, two on one key and large ones on either; two
analyses, of which the second may meet what the first stored, and one call to Redis that fails.

### RateLimit

*State.* Of each web process the counter of one API key (`count`; settings.py has no
`CACHES`, so it is a `LocMemCache`), whether nobody set it for the hour it is kept
(`idle`), and what the process let through since it last vanished (`admitted`);
`checked` are the requests between the check and the count, `seen` what each read.

*Steps.* `CheckLimit` and `Count` are `check_rate_limit`; the counter vanishes only
after an hour in which it was not set (`HourPasses`, `CounterExpires`).

*Bounds.* One process that serves two requests at a time, as `runserver` does, and
one that serves one, as gunicorn's do; a limit of 2 with two requests is the smallest
at which one can set the counter back for the other more than once. `MaxRequests` (6) is
above the bound 5 for two, so that it cuts off nothing the property is about.

### PackageLists

A behaviour is about one ecosystem's list. `stored` is the file: missing, torn, or
the list in it; each worker reads it, fetches the list (`FetchList`, with what each
registry's code accepts), opens the file, which empties it, and writes. Two
writers that overlap may leave a torn file. `Kill` is a worker that gunicorn replaces. The
list itself is abstracted to whole, part, empty or "page" (read off an error
page, where the status is not looked at). Packagist's is empty when the registry
answers with a JSON error: the status is not looked at, `packageNames` is missing,
and what was answered is written to the file. Three workers are two writers and a reader.

### LastPyMile

The repository is a sequence of commits, each with a tree and a first parent, in
any shape of history; a release is another tree. `ScanCommit` checks a commit out
and hashes the files it touched; `ScanRelease`, `AnalyzeFile` and `FinishRelease`
are a release, `Risk` is the worst of bandit's findings as `__banditCheck`
computes it, `Status` the chain of ifs at the end of a release. A file is its content, as the
program compares hashes. Exceptions other than `AnalysisException` end
the program without a report (`Raise`). Two commits, two paths and two contents
have deletions, renames, a file that only an unmerged branch had, and reverts.

### AnalysisRun

*State.* Each request has the page and package it asks for, a place in its handler
(`pc`), what it read (`got`), and the step and exit status of the `analyze`
container it started. What all share is `results` (the volume, a file for each package name),
`sandboxes` and `logs` (podman's storage and `/tmp`), the directories and reports
of bandit scans, and the name of the last archive that the package manager object
of a process remembers.

*Steps.* Handler: `RunAnalysis`, `Waited`, `GetResultFile`, `Reply`; for the
bandit page `Download`, `Extract`, `Scan`, `Load`. Container: `Resolve`, `InitSandbox`,
`StartSandbox`, `RunPhases`, `Clean`, `Save`. `Interrupt` is the soft limit of a
task or gunicorn's timeout; `Kill` ends a container. `disturbed` (history) are the
requests that overlapped another, met leftovers of another, or had a failure: `AloneIsOwn` is about the rest.

*Abstractions.* What the analysis finds is the number of the request. Where a
result is written and where it is read are two functions of the package
(`WrittenAs`, `ReadAs`), as the runner lowers the name and `analyze` does not.
The squat checks of `submit_sample` are a step that may fail (as the code is, the squat
and source helpers always do: `ANALYSIS_RESULTS_DIR`, execution_service.py:95 and 143, is defined nowhere).

*Bounds.* Two versions of one package share a result file; a package with a
capital is read where it was not written; two requests are enough to overlap.

### AnalysisWorker

*State.* `feed` and `body` are the scheduler's side; `lease`, `owner` and `acked`
the subscription, which delivers a message again when its lease is over; `pc`, `msg`,
`failed` and `saved` the worker; `ext`, `timer`, `due`, `late` and `extErr` the
extender's goroutine and ticker; `found` what the analyses of this message yielded,
`bucket` what is stored, and `promised` (history) what was acked or announced, by
what had been found.

*Steps.* `Preprocess`, `Send`, `AckFeed` for the scheduler; `Receive` with the
extender's start; then the chain of `handleMessage`, an upload each, to `Join` and
`Publish`; `StopSend` and `StopReceive` for the two meetings of `Stop`; `AckOrNack`.
`ExtendBegin` and `ExtendEnd` are the goroutine. `ClockTick` is one unit for every
lease and ticker, and may not pass a tick that is `Slack` old. Whether an analysis yields a
static record and an execution log is open each time (`RunStatic`, `RunDynamic`): the
sandbox's status is ignored, and saving no data is a success (save_data.go:89-92).
`KeyOf` says what a result is stored under: the package's name without the version
(resultstore.go:238-243), or name and version.

*Bounds.* Five configurations: everything with one worker and two entries that are
versions of one package, or two workers and one entry; without extender and `Nackable`,
without some of the buckets, and one without an
archive bucket, which brings a worker down. Deadlines 1 and 2 with a grace of 1 are
a deadline the extender refuses to keep and the shortest it can. Three messages let the
scheduler send one entry twice; one fault is a lost ack, a crash or any call.

### DynamicAnalysis

*State.* `pc` is the analysis, `cap`, `handle` and `queue` the capture's goroutine,
`containers` what podman knows. The sandbox object is `sb`, `held` and
`initialised`; `data`, `order`, `last`, `status`, `run` and `execLog` are the
result being built. `uncleaned` (history) says that a clean-up failed.

*Steps.* `NextMode` is cmd/analyze's loop, `InitNetwork` one of its commands at a
time; `InitSandbox`, `Run`, `CommandExits`, `StopContainer`, `Clean` the sandbox;
`StartPhase`, `ParseLog`, `RecordPhase`, `GiveUp`, `RetrieveExecutionLog` the phases;
`CloseStop` and `CloseDone` are the two meetings of `Close`, `TakePacket`,
`SourceEnds` and `HandlePacket` the goroutine. When the source has ended the goroutine returns and
waits in its deferred `done <- true` (packetcapture.go:71-75) while `Close` waits in
`stop <- true` (88): both for ever (`Stuck`). The container sends packets at any time. Two analyses after each other show
what the first leaves to the second, and two faults a failure while another is handled.

### Observations

What a phase's strace lines and DNS packets add up to: `ReadLine` for each parsed
line, `Receive` for each packet, `SetData` at the end of a phase. Lines are records of
what the regular expressions extract; history variables keep them, and the property
recomputes the result from them. Three events of two paths, two buffers, a socket
and two hosts, over two phases, hold every pair of lines in either order and what a phase might leave to the next.

### StaticAnalysis

`CreateResults` truncates the results file, `Extract` takes one entry of the
archive, `Basic`, `Parse` and `Signals` are the tasks, `Write` and `Save` the end.
`LinesOf` says into which names a path falls apart when a list of paths is written
one to a line: a name with a newline is two names. What an external command
says of a file is that file's name. The results file holds nothing, a part, or a
record. Two entries of four names, among them a directory, a file in it and a name of two lines,
have every way in which entries overwrite or exclude each other.

### PythonPhases

One process per phase. `frames` is the stack of names that `do_execute` is
visiting, `alarm` the pending SIGALRM, which `AlarmGoesOff` raises wherever the
script is: in the call, in the loops, between modules or in the import that
follows, where the handler is gone. A call returns, raises or hangs; the package may
also catch the alarm, which goes off once, and go on or hang for good ("caught"). A
constructor that yields another class fails the script's assertion (158-159) and ends
the module (`WrongClass`). `repr` of what a call returned and the getters
`inspect.getmembers` runs are package code outside every `try` and alarm: they may raise
(`RaiseOutside`) or hang ("unguarded"), and package code may end the process at any time
(`PackageExits`). Types are followed through `seen_types` and
`instantiated_types`. `ScriptSpec` is the script without fairness, which the theorem is
about. Two modules with an alias and two classes whose methods return each other's
instances make every guard of the exploration matter.

### PhaseScripts

The other six scripts: the commands each phase runs (`CommandsOf`), which of them
may fail and be printed, and, in Node, Ruby and PHP, the loading of the package's
files in the script's own process (`LoadFile`), with what the handler around each
file catches. A file loads, throws, exits, or dies of what no handler catches. Ruby's `exit!(0)`, and an
`exit` in PHP's vendor/autoload.php (analyze-php.php:94), which end a phase with status 0
before any handler, are not among the outcomes.

## 3. The runs

`CHECK_DEADLOCK FALSE` throughout: in each instance there comes a point where
nothing is left to do (ids and faults are used up, every task and request has ended).

| run | instance | checks |
|---|---|---|
| `faulty_services` | 2 tasks of 2 purls, 1 worker, 2 requests, an idempotency key, 1 fault (crash, kill, soft, send or api) | `NoLostTask`, `RunningIsOwned` |
| `two_queues` | 2 tasks of 2 purls, 1 worker and 1 queue thread, no retries, no fault | `TypeOK`, `NoLostTask`, `CompletedWasAnalysed`, `ImplementsLifecycle` |
| `two_threads` | 2 tasks of 2 purls and 2 priorities, 2 queue threads, 2 requests, 1 thread that ends | `RunningIsOwned`, `CompletedWasAnalysed` |
| `liveness` | 2 tasks, 1 worker, 1 fault (crash, kill, soft or send), fairness | `EveryTaskSettles`, `MessagesDrain` |
| `both_settle` | 2 tasks of one purl, 1 worker and 1 queue thread, no retries, 1 thread that ends, fairness | `EveryTaskSettles` |
| `analysis_run` | 2 requests of any page, 3 packages, 1 fault, fairness | `AloneIsOwn`, `FailureIsReported`, `UploadHeldWhileRunning`, `EveryRequestAnswered` |
| `pubsub_worker` | up to 2 workers, 4 entries, two of them versions of one package, 5 configurations, 1 fault, fairness | `AckedIsStored`, `HeldWhileHandled`, `NoExtensionAfterStop`, `SavedIsThisArchive`, `EveryEntryAnalysed` |
| `sandbox_parts` | five parts: a Python package; 6 languages with up to 3 files; 3 events in 2 phases; 2 static analyses; 2 sandboxed analyses with 2 faults; fairness | `TimeoutsCostNothing`, `PythonPhasesEnd`; `NothingIsSkipped`; `ResultIsWhatHappened`; `RecordIsWhole`, `DataIsOwn`; `NoContainerLeft`, `CaptureWithinPhase`, `ResultIsConsistent`, `LogsAreOwn`, `AnalysisEnds` |
| `web_parts` | five parts: 2 commits, 2 releases; 3 web workers; 3 packages, 2 tasks, 1 client; 2 web processes, 3 requests, limit 2; 2 tasks in pages of one; fairness | `EveryFileIsJudged`; `ServedWhole`; `DownloadIsLinked`; `AdmittedBound`, `ServedAgain`; `WalkMissesNothing` |
| `two_running` | 2 workers | `AtMostOneRunning` violated |
| `result_not_reused` | 1 worker, no fault | `ResultIsReused` violated |
| `wrong_report` | 2 workers | `ReportIsOwn` violated |

What the passing runs show, and where a property says less than one might wish:

- *The two queues.* A worker and a thread of every process overwrite each other's rows,
  start containers beside each other and undo each other's ends; what is left of the
  documented lifecycle is `TaskLifecycle`. Whatever they do, a running row
  belongs to somebody or to a process that is gone (`RunningIsOwned`), a task is
  completed only if its package was analysed (`CompletedWasAnalysed`, also through a
  worker's cache and the objects threads save late), and a queued row has a message
  or somebody about to send or use one, unless a thread saved it back after it had run
  (`NoLostTask`). `EveryTaskSettles` has the same exception (`Stalled`): such a
  row has no message any more, and the threads stop at a row whose purl has a result.
- *Shared host.* `AloneIsOwn` is about requests that met nobody: the volumes are
  not locked, and requests that overlap do read each other's results.
  `FailureIsReported` and `UploadHeldWhileRunning` hold for all.
- *Pub/Sub.* `EveryEntryAnalysed` has two premises, each a behaviour of the code that
  stops every worker: the deadline is longer than the grace period
  (extender.go:90 accepts an equal one, and `time.NewTicker(0)` panics) and the archive
  store is configured when archives are saved (a nil store is dereferenced).
  `AckedIsStored` is about what the handling's analyses yielded, and about the key it
  is stored under: an analysis that failed yields nothing and is acked all the
  same, and another version may since have replaced it. It leaves the zip of write buffers
  out, as the error of the `Close` that uploads it is dropped (resultstore.go:120-125).
- *Sandbox.* No path through Init, Run, Stop and Clean leaves a container, a
  goroutine or a log to the next analysis. `AnalysisEnds` excepts a `Close` whose
  goroutine lost its packet source (`Stuck`): no other order of packets, stops and
  failures blocks it. `TimeoutsCostNothing` has the premises that
  no package code raised (the alarm is not reset then) or ended the process, and that
  constructors yield their class. `PythonPhasesEnd` excepts package code that hangs
  where no alarm covers it (`Untimed`).
- *Web services.* `ServedWhole` is about npm and packagist; pypi's and rubygems'
  CSV files are served in part while they are written, and packagist's list may be
  the empty one of a JSON error. `DownloadIsLinked` is about the way from a task's link to
  the copy; that the link may be to another package's report is `wrong_report`'s.
  `AdmittedBound` is what is left of "maximum requests per hour" (auth.py:48), for
  each process by itself: with one request at a time the limit, with two at
  most `Limit * (Limit + 3) / 2`.
  `WalkMissesNothing` holds although a new task shifts the pages, because it
  shifts them towards the pages still to come; tasks that leave the list are excepted.

*Bounds of the queue runs.* Two tasks are the least with which tasks can block, duplicate or
overwrite each other, and with two purls tasks of one package and of different
packages both occur. One key and two requests are what it
takes to race for it. `MaxRetries` is the code's 1 where workers are alone; with a
thread beside them it is 0, so that the product of their states stays in reach, and what
retries add, a second message, is there through `_process_next_queued_task`. One
worker and one thread, or two threads, are the least that overwrite each other's
rows; the theorems have no such bound. One fault is enough to leave a row or a
message behind; in `two_queues` there is none, as a thread that ends is in `two_threads`, and what
a lost worker leaves in `faulty_services`. Ids are bounded by
`MaxTasks`: `Submit` accepts a request only if an id is left for it. The bounds of
the other modules are given with them in section 2.
Symmetry: workers are interchangeable, threads are, and so are the purls together with their
packages, since nothing orders them; the queue runs that check liveness use none.

*Fairness.* In each specification, what the program's own processes and
goroutines do goes on, and the programs they wait for end. Faults,
requests, clean-ups and recycling are never assumed to happen.

| specification | assumes | because |
|---|---|---|
| `AnalysisQueue!FairSpec` | WF of `ReceiveStep`, `WorkStep`, `ScanStep`, `TimeoutStep` of each worker, of a request's steps and of each thread's | Celery workers take messages, Beat sends `check_timeouts`, gunicorn serves, celery.py's limits bound a worker's analysis; threads run and are started again with their process. That a thread's container ends is an assumption: `future_reports.result()` waits without a limit |
| `AnalysisRun!FairSpec` | WF of `Handler` and `Container` | `subprocess.run` returns when docker does. That the programs in the container end is an assumption; who waits for them too long is cut off by `Interrupt` |
| `AnalysisWorker!FairSpec` | WF of the scheduler, the message loop, the extender and the clock, SF of `StopSend` | a worker that exits is restarted; Go's `select` picks at random among the ready cases, so the `done` that is offered again and again is taken |
| `DynamicAnalysis!FairSpec` | WF of both goroutines and of `CommandExits`, SF of `CloseStop` | that the command ends is an assumption: nothing sets `RunStatusTimeout`, and of the commands only Python's calls are limited; `select` as above, with packets arriving all the time |
| `PythonPhases!ScriptFairness` | WF of the script's own steps and of the alarm, not of what package code does | calls may hang; imports and pip have no time limit and are taken to end |
| `RateLimit!FairLimitSpec` | WF of `HourPasses`, `CounterExpires` | time passes |

A dead web process is not fair, which is why a row whose request died
before `apply_async` (a fault the `liveness` run leaves out) need not settle: no
periodic task looks at queued rows.

### Disagreements

Three runs check what a document, a comment or a constraint says and TLC finds a
behaviour of the code that breaks it; the finding in PROJECT.json quotes the line.

| run | property | how it happens |
|---|---|---|
| `two_running` | `AtMostOneRunning` | two workers look for running rows before either commits |
| `result_not_reused` | `ResultIsReused` | the smart cache links a report that is taken, and the task fails |
| `wrong_report` | `ReportIsOwn` | `latest('id')` is the other worker's report |

Eight more configurations are kept for behaviours TLC finds in the same models:

| configuration | module | property | says | how it happens |
|---|---|---|---|---|
| `thread_beside_worker.cfg` | `MCAnalysisQueue` | `AtMostOneContainer` | queue_manager.py:3, one container at a time | a thread and a worker both look for running rows before either saves |
| `blocked_fails.cfg` | `MCAnalysisQueue` | `BlockedIsRetried` | tasks.py:27-28, a blocked task is retried | while a thread's task runs a worker is refused twice, and `self.retry` then raises its `exc` |
| `completed_reopened.cfg` | `MCAnalysisQueue` | `CompletedIsFinal` | tasks.py:55, protection of completed tasks | a thread saves back a row it read before a worker completed it (queue_manager.py:262-263, 336-338) |
| `queue_stalls.cfg` | `MCAnalysisQueue` | `EveryTaskEnds` | queue_manager.py:195-196, a result found in the queue is used | the report is refused by the `OneToOneField`, and the thread takes the same task again for ever |
| `rate_exceeded.cfg` | `MCWeb` | `RateIsLimited` | auth.py:48, maximum requests per hour | every process counts for itself |
| `capture_hangs.cfg` | `MCSandbox` | `CloseReturns` | packetcapture.go:90, packet processing finishes | the packet source ends: goroutine and `Close` wait for each other |
| `python_hangs.cfg` | `MCSandbox` | `PythonHangsArePrevented` | analyze-python.py:201, the alarm prevents hangs | package code catches the one `TimeoutError` and goes on |
| `results_overwritten.cfg` | `MCAnalysisWorker` | `ResultsAreOwn` | resultstore.go:236-237, the key has the version | it has not: versions overwrite each other |

Met on the way, without a configuration of their own:

- *Task queue.* `container_id` is never set, so "timed out containers are automatically stopped"
  (API_DOCUMENTATION.md:903) does not happen; results "cached indefinitely"
  (API_DOCUMENTATION.md:895) end with `cleanup_old_tasks`, and the report it leaves
  behind makes every later analysis of the package fail; an idempotency key is
  looked up only after the purl (API_DOCUMENTATION.md:822); the save after a failed
  `apply_async` overwrites whatever a worker has done to the row; the retry of a task
  whose report could not be saved completes it from the cache, without a report; two
  requests find no active task before either creates one; the soft limit ends the
  wait for a container, not the container;
  `package_name` holds 20 characters.
- *Queue threads.* Two threads that read "no running task" before either saves
  start two tasks, or the same one twice; a row whose completion was refused keeps the
  refused report in memory, so that the handler's save fails too.
- *Task API.* The count and the slice of a page are two queries, so they may
  disagree; `queue_status_api` builds a dictionary with the key `running_tasks`
  twice and loses the count; a page of 0 or less is answered with 500;
  `check_timeouts_api` only queues the check, where API_DOCUMENTATION.md:561 says
  it is completed; the `dynamic_analysis` page reads a task without an API key.
- *Shared host.* `analyze` exits with 0 after a failed analysis, and the handler
  reads what an earlier request left under the name; `podman rm --all` removes
  the sandboxes of others; an upload whose url quotes its name is not found under
  MEDIA_ROOT and is never removed; all bandit scans of a process share the name of the last
  archive; `submit_sample` takes the latest report.
- *Package lists.* A failed fetch is remembered as an empty list for the life of the
  process; Rust's list is always empty; only npm's fetch looks at the status.
- *LastPyMile.* The last `if` of a release's status overwrites "critic" and "danger";
  a report is "completed" when every release was left out; an error of bandit, of
  git, or an undefined severity first, ends the program without a report.
- *Sandbox.* The status of a static analysis is ignored (main.go:133); a tar
  that names a directory after a file in it is refused; names with a newline drop
  the types and parsing results of the package.
- *Python script.* The alarm stays set when a call raises, and may end the module or, after
  the handler was removed, the process; an instance that could not be made, or is of
  another class, fails an assertion before it is compared with `None`
  (analyze-python.py:158-160); imports have no time limit. `ImportWorkedBefore` (analyze-python.py:106, "importing should
  have already worked") is defined and in no run: import failures are swallowed, so it does not hold.
- *Other scripts.* They swallow import failures too; a package that calls `exit(0)` ends
  Node's and PHP's import with success; Wolfi's script takes the first package
  whose name starts like the one asked for; the execute phase of Node is never run;
  Rust's import of a crate with `-` in its name cannot compile.

## 4. The proofs

Each module `X_proofs` extends `X` (`SandboxParts_proofs` and `WebParts_proofs` several
modules) and is checked by tlapm from nothing but the named `ASSUME`s of these modules: the
constants have their types. No theorem bounds the number of tasks, workers, threads,
requests, packages, analyses or faults, or leaves a fault out. Every safety
invariant of the passing runs, and the refinement, is a theorem. One has a hypothesis
more: `AdmittedIsBounded` counts the requests a process serves, and takes them to be
finitely many.

### Task queues

All theorems of `AnalysisQueue_proofs` rest on one invariant, `Sound`. None of the properties is
inductive by itself, since rows are saved from memory long after they were read, and
nothing says that what is saved there is still true. What can be said is that
everything that refers to a row refers to one that was queued (`MessagesFit`,
`WorkerFit`, `ThreadFit`, `ClientFit`); that every copy of a row in somebody's memory is a
copy of a row that lives and has its purl, which never changes (`CopyOf`); and that a
report, a cached result, a copy that says "completed" exists only when a container has
given that result (`Fit`, `TableFit`). A row in use is not deleted (`UsedStays`). There
is one lemma for each group of variables (`WorkersStep`, `ThreadsStep`, `ClientsStep`,
`BrokerStep`, `TableStays`, ...), with one step per action.

| theorem | says | argument |
|---|---|---|
| `TypeCorrect` | `Spec => []TypeOK` | a conjunct of `Sound`: the package of a report is that of a row's purl, and an index into the table a task that was queued. |
| `CompletedAreAnalysed` | `Spec => []CompletedWasAnalysed` | from `Sound`: a completed row is `Fit`, whoever saved it. |
| `QueuedIsNotLost` | `Spec => []NoLostTask` | inductive with `Sound`. A row becomes queued by `Queue`, or by a thread that saves one that has run (`NewQueued`, `revived`); a message stays in the broker until it is received (`MessageStays`); whoever holds it keeps it, hands it back or changes the row (`QueuedHeldStays`, `HandedBack`, `RowEnds`); the request that queued the row sends it, fails it or dies (`SenderStays`). |
| `RunningIsWorkedOn` | `Spec => []RunningIsOwned` | the same lemmas for workers (`HeldStays`) and, for threads, `HandStays`: a thread keeps its task in hand until it has saved an end, cannot, or ends itself, and both of the latter put it in `left`. `NewRunning` says who makes a row running: `Start`, `SaveHeartbeat`, `StartTask` and `Heartbeat`, each with the task in hand. |
| `QueuesAreLifecycle` | `Spec => ImplementsLifecycle` | `Shape`: a step changes one row at most, or is `SaveTimeouts` or `SaveQueue`. One changed row is a `Create`, `Queue`, `Save` or `Remove` of `TaskLifecycle`, as what is saved is `Fit` (`OneStep`); the two others are `SaveMany` (`ManyStep`); a container's result is `Analyse` (`AnalyseStep`). |

### Hosts and workers

| theorem | says | argument |
|---|---|---|
| `AnalysisRun_proofs!FailuresAreReported`, `UploadsAreHeld` | `Spec => []FailureIsReported`, `Spec => []UploadHeldWhileRunning` | `RunInv` relates the handler to its container: one that reads has waited for status 0, one that runs belongs to a request that has stored its upload and not been answered by a success. |
| `TypesAreKept` | `Spec => []TypeOK` | `TypeInv` adds that a scan under way has the name of an archive, and then a directory, of a package (`Keyed`). |
| `OwnResultWhenAlone` | `Spec => []AloneIsOwn` | `OwnInv`, for each request that is not disturbed: its container is the only one, the sandbox and the logs are the ones it made, and the result file is its own when it has exited (`OwnAnalysis`), at each step of a bandit scan the directory holds its package only (`OwnScan`), and what it has read is its own (`OwnAnswer`). A step of another request disturbs it or leaves these alone. |
| `AnalysisWorker_proofs!PlacesAreTyped`, `StopEndsExtensions` | `Spec => []PlaceInv`, which has `TypeOK`, and `Spec => []NoExtensionAfterStop` | `GoroutineInv`: the goroutine lives from `Receive` to the two meetings of `Stop`, and a ticker only with a deadline beyond the grace period; `CarriedInv`: the message in hand was sent. |
| `ExtenderHolds` | `Spec => []HeldWhileHandled` | `LeaseInv` measures the lease: before a tick it outlasts the timer by the grace period, after it the lease and the time the tick has waited do; an extension sets both anew. |
| `SavedFlagIsRight`, `AckedHasResults` | `Spec => []SavedIsThisArchive`, `Spec => []AckedIsStored` | `StoringInv`: for each kind of result that this handling found, the places that are reached without an error only after it was stored, and for each of them an object under the entry's key. Under a key the bucket only ever replaces, so a crash, a redelivery or another version takes nothing away, and what was `promised` stays stored. |
| `DynamicAnalysis_proofs!CaptureEndsWithPhase` | `Spec => []CaptureWithinPhase` | `CaptureInv`: there is a handle exactly while the goroutine lives, and it answers on `done` only after `stop`. |
| `ContainersAreRemoved` | `Spec => []NoContainerLeft` | `ContainerInv`: once Init has succeeded, or failed after the container was created, the object holds it until `Clean`. |
| `LogsAreOfThisSandbox` | `Spec => []LogsAreOwn` | `LogsInv`: from Init on every log is of the sandbox in hand, and the phase that is parsed has one. |
| `ResultAgreesWithItself` | `Spec => []ResultIsConsistent` | `RecordInv`: the phases to come differ from each other and from those with data (`PhasesLeft`), the order lists the data and all but its last completed (`RecordsInv`), and at each place of the loop what is known of the last phase and the error (`ResultInv`). |
| `TypesAreKept` | `Spec => []TypeOK` | with these, `CountsInv`: the sandboxes used, and the modes still to run, are at most two for each package begun. |

### Scripts, observations and static analysis

| theorem of `SandboxParts_proofs` | says | argument |
|---|---|---|
| `ImportsLoadAll` | `PhasesSpec => []NothingIsSkipped` | `PhaseInv`: the phases come in order, nothing is loaded before the script's commands have ended, and every loaded file was one the script goes on after. |
| `RecordsAreWhole` | `StaticSpec => []RecordIsWhole` | `StaticInv`: what is on disk is what the entries extracted so far leave of each other, the tasks begin when all of it is there, and what has been written is nothing, a part or the whole record of this analysis. |
| `DataIsOfItsFile` | `StaticSpec => []DataIsOwn` | `DataInv` says of which files the answers of each task are. A list of paths written one to a line has as many lines as paths only if no name has a newline, and then line and path agree (`FlatOneEach`, by least counterexample over the list). |
| `HangingCallsCostNothing` | `ScriptSpec => []TimeoutsCostNothing` | every step in which package code raises, exits or constructs another class sets `failed`; the rest is about the behaviours before. `OnItsWay`: the modules to come are the end of the list, and the bottom frame is the end of the current module's names; `Counted`: a function or class has been called as often as it stands in what is done of the lists (`Visits`); `Costless`: with no exception and every constructor returning, the alarm is pending only in a call and has cut nothing else short. |
| `ResultsAreWhatHappened` | `ObsSpec => []ResultIsWhatHappened` | `ObsInv` relates the result to the history line by line: of each path who accessed and wrote it and its buffers in their order (`FilesAreRight`), the sockets (`SocketsAreRight`), the names asked for (`NamesAreRight`). |

### Web services

| theorem | says | argument |
|---|---|---|
| `ReportStore_proofs!DownloadsAreLinked` | `Spec => []DownloadIsLinked` | `StoreInv` follows a report from the task that saves it over the link to the copy: under a key is only what belongs to a package with that key (`Stored`, `Copied`), a package's report is saved once and only one task gets as far as to link one to it (`Alone`), and what an actor has in hand fits its place (`Saving`, `Linking`, `Publishing`). |
| `TypesAreKept` | `Spec => []TypeOK` | with `StoreInv`: what is stored is numbered by an analysis that took place. |
| `RateLimit_proofs!AdmittedIsBounded` | `IsFiniteSet(Request) /\ LimitSpec => []AdmittedBound` | a process is not disturbed by the others' requests (`Elsewhere`). With one request at a time, what was admitted is the counter. With two, a potential: `Twice(n)` is double what two clients can still pass when the counter stands at `n`, and what was admitted and what still can be never exceed `Twice(0)`, with no request, one or both between their read and their set; `TwiceStep` and `TwiceFalls` are its arithmetic. |
| `LimitTypesAreKept` | `LimitSpec => []LimitTypes` | what was read before a request was let through is below the limit, so no set passes it. |
| `WebParts_proofs!ListsAreWhole` | `ListsSpec => []ServedWhole` | `WholeInv`: what was fetched, when the file is opened, is what the registry's fetch can give (`Fetchable`: for packagist also the empty list), and the file holds such a list or a part that the reader takes for an error. |
| `FilesAreJudged` | `LpmSpec => []EveryFileIsJudged` | `LpmInv`: the sources hold what the commits scanned so far brought; a content that was ever committed is brought by the first commit that has it (`FirstCommitBrings`, by least counterexample over the history), and the recursive function in `Risk` gives the worst of the findings (`RiskIsWorst`). |
| `WalksMissNothing` | `ApiSpec => []WalkMissesNothing` | `ApiInv`: no two tasks were created at once (`CreatedOK`), and what stayed in the list and was not shown yet is on a page still to come (`WalkOK`): a new task moves the others towards these. |

*Induction over data.* What a recursive function gives for every argument is
proved by its least counterexample: `LeastNatural`, from the library's `WFMin` and
`NatLessThanWellFounded`, gives the least natural number of a set.

*Only model-checked*: the liveness properties `EveryTaskSettles`, `MessagesDrain`,
`EveryRequestAnswered`, `EveryEntryAnalysed`, `PythonPhasesEnd`,
`AnalysisEnds` and `ServedAgain`, because liveness under fairness is out of TLAPS's reach,
and with it everything that needs `ENABLED`. The types of
the modules in `SandboxParts_proofs` and `WebParts_proofs` are in no run; what their
inductions read of them is part of their invariants.

## 5. What is left

- `EveryTaskSettles` with retries and a thread at once, which is out of TLC's reach with
  two tasks: a smaller abstraction of what a thread does to a row may do.
- `AdmittedBound` for any number of requests at a time: a bound in their number,
  found with TLC first, and its potential.
- Workers with crashes, without threads: what stays of "one task at a time" as an abstract
  specification of its own.
- A finished walk over the pages when tasks leave the list: how many tasks it may miss.

## 6. Not modelled

| part | why |
|---|---|
| Container manager, `PA/helper.py` | stops containers by `container_id`, which nothing sets; `helper.py` is a facade that delegates to the services |
| py2src | guesses a repository from URLs and badges: text and HTTP requests, no state |
| bandit4mal, YARA and its rules | vendored scanners, one process per run; how their directories are shared is in `AnalysisRun`, their findings are inputs of `LastPyMile` |
| PURL parsing | a pure function of a string; in the models a purl names its package |
| dashboards, statistics, forms | only read |
| package managers and downloads | HTTP and URL formatting; that a download fails is a step of `AnalysisWorker`, `StaticAnalysis` and `LastPyMile` |
| log writer | splits output into log lines, on which nothing depends |
| report generator, the file of `download_professional_report` | formatting |
| what the static parsers and signals compute, which files a phase script picks | functions of a file's text |
| BigQuery loader, Terraform, manifests, migrations | configuration |

## 7. Running

    tlc -workers 2 -config two_queues.cfg MCAnalysisQueue
    tlc -workers 2 -config analysis_run.cfg MCAnalysisRun
    tlc -workers 2 -config pubsub_worker.cfg MCAnalysisWorker
    tlc -workers 2 -config sandbox_parts.cfg MCSandbox
    tlc -workers 2 -config web_parts.cfg MCWeb
    tlapm AnalysisQueue_proofs.tla    # and likewise the other seven

The other runs of section 3 are for `MCAnalysisQueue`; the configurations kept beside
them name their modules there. `Parts` in `sandbox_parts.cfg` and `web_parts.cfg` may be a
smaller set, to run one module alone.
