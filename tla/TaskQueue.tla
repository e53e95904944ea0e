------------------------------ MODULE TaskQueue ------------------------------
(***************************************************************************)
(* The Celery task queue of the Django application: what analyze_api,      *)
(* run_dynamic_analysis, _process_next_queued_task, check_timeouts and     *)
(* cleanup_old_tasks do to the AnalysisTask and ReportDynamicAnalysis      *)
(* tables and to the broker.                                               *)
(*                                                                         *)
(* A step is one database transaction, one autocommitted query that a      *)
(* later step relies on, or one call to the broker.  The code runs at      *)
(* PostgreSQL's READ COMMITTED, so the first transaction of a worker is    *)
(* two steps: the row lock with the search for running tasks, and the      *)
(* commit.  Names of steps follow the comments of tasks.py and views.py.   *)
(* AnalysisQueue composes these steps with those of the queue threads,     *)
(* which write the same rows.                                              *)
(***************************************************************************)
EXTENDS Naturals, Sequences, FiniteSets

CONSTANTS
  MaxTasks,     \* ids the AnalysisTask table may hand out
  Worker,       \* Celery pool processes (one per worker: concurrency 1)
  Thread,       \* queue threads, one in each Django process
  Client,       \* requests to analyze_api that can be in progress at once
  Purl,         \* package URLs clients submit
  Package,      \* <name, version, ecosystem> triples
  PackageOf,    \* the package a purl is parsed to
  Priority,     \* priorities clients ask for
  Key,          \* idempotency keys clients send
  MaxRetries,   \* max_retries of run_dynamic_analysis
  Faults,       \* the kinds of fault that may happen
  MaxFaults,    \* how many faults may happen
  None          \* SQL NULL, Python None

FaultKind == {"crash", "kill", "soft", "send", "api", "thread"}
Cause == {"missing", "blocked", "duplicate", "analysis", "timeout", "send"}

ASSUME ConstantsOK ==
  /\ MaxTasks \in Nat
  /\ MaxRetries \in Nat
  /\ MaxFaults \in Nat
  /\ Priority \subseteq Nat
  /\ PackageOf \in [Purl -> Package]
  /\ Faults \subseteq FaultKind
  /\ Worker \cap Thread = {}
  /\ None \notin Package \cup Key \cup Purl \cup Nat \cup Cause \cup Worker \cup Thread

VARIABLES
  row,        \* AnalysisTask table
  reports,    \* ReportDynamicAnalysis table, in id order: the package of each
  broker,     \* number of copies of each message of the "analysis" queue
  pc,         \* where each worker is in run_dynamic_analysis
  job,        \* the message each worker holds
  mem,        \* the worker's in-memory AnalysisTask
  error,      \* the exception a worker is handling, if any
  cache,      \* the worker process's django cache (LocMemCache)
  expired,    \* the rows a worker's check_timeouts has read as timed out
  orphans,    \* tasks with a container that nobody waits for any more
  analysed,   \* packages with a container that ended with a result
  at,         \* where each request is in analyze_api
  req,        \* the request a client sent
  made,       \* the row a request created
  faults      \* faults so far

dbVars     == <<row, reports>>
workerVars == <<pc, job, mem, error, cache>>
limitVars  == <<expired, orphans, analysed>>
apiVars    == <<at, req, made>>
queueVars  == <<dbVars, broker, workerVars, limitVars, apiVars, faults>>

------------------------------------------------------------------------------
(* Types *)

Task    == 1 .. MaxTasks
Message == [task : Task, retries : 0 .. MaxRetries]
Request == [purl : Purl, priority : Priority, key : Key \cup {None}]

Status == {"absent", "pending", "queued", "running", "completed", "failed",
           "deleted"}

(* The columns that order the queue are kept while a row is queued,        *)
(* error_message while it is failed, and started_at (as whose start of the *)
(* task it is, "by") while it runs: nothing reads them in other states.    *)
Row == [status    : Status,
        purl      : Purl \cup {None},
        key       : Key \cup {None},
        report    : Package \cup {None},  \* the report of that package
        priority  : Nat,
        queued_at : Nat,
        error     : Cause \cup {None},
        by        : Worker \cup Thread \cup {None}]

WorkerPC == {"idle", "begin", "claimed", "started", "analyzing", "heartbeat",
             "saving", "linking", "publishing", "failing", "dispatching",
             "finishing", "acking", "checking"}
ClientPC == {"idle", "completed?", "active?", "key?", "create", "queue",
             "send", "dead"}

(* A worker with no message of the analysis queue                          *)
Free == {"idle", "checking"}

DbOK ==
  /\ row \in [Task -> Row]
  /\ reports \in Seq(Package)

WorkersOK ==
  /\ pc \in [Worker -> WorkerPC]
  /\ job \in [Worker -> Message \cup {None}]
  /\ \A w \in Worker : pc[w] \notin Free => job[w] \in Message
  /\ mem \in [Worker -> Row \cup {None}]
  /\ \A w \in Worker : pc[w] \notin Free \cup {"begin", "analyzing", "failing",
       "dispatching", "finishing", "acking"} => mem[w] \in Row
  /\ error \in [Worker -> Cause \cup {None}]
  /\ cache \in [Worker -> SUBSET Package]

LimitsOK ==
  /\ expired \in [Worker -> SUBSET [task : Task, report : Package \cup {None}]]
  /\ orphans \subseteq Task
  /\ analysed \subseteq Package

ApiOK ==
  /\ at \in [Client -> ClientPC]
  /\ req \in [Client -> Request \cup {None}]
  /\ \A c \in Client : at[c] \notin {"idle", "dead"} => req[c] \in Request
  /\ made \in [Client -> Task \cup {None}]
  /\ \A c \in Client : at[c] \in {"queue", "send"} => made[c] \in Task

QueueTypeOK ==
  /\ DbOK
  /\ broker \in [Message -> Nat]
  /\ WorkersOK
  /\ LimitsOK
  /\ ApiOK
  /\ faults \in 0 .. MaxFaults

------------------------------------------------------------------------------
(* Queries *)

NoRow == [status |-> "absent", purl |-> None, key |-> None, report |-> None,
          priority |-> 0, queued_at |-> 0, error |-> None, by |-> None]

(* a row whose status becomes st, with report r and error_message e        *)
Becomes(rw, st, r, e) ==
  [rw EXCEPT !.status = st, !.report = r, !.error = e,
             !.priority = 0, !.queued_at = 0, !.by = None]

(* ... and a row that runs since d started its task                        *)
Running(rw, d) == [Becomes(rw, "running", rw.report, None) EXCEPT !.by = d]

Exists(t) == row[t].status \notin {"absent", "deleted"}

WithStatus(rw, S) == {t \in Task : rw[t].status \in S}

(* completed, for this purl, with a report: the "smart cache" query        *)
HasResult(rw, t, p) ==
  /\ rw[t].status = "completed"
  /\ rw[t].purl = p
  /\ rw[t].report # None

(* the head of the queue: order_by('-priority', 'queued_at').first()       *)
IsNext(rw, t) ==
  /\ rw[t].status = "queued"
  /\ \A u \in WithStatus(rw, {"queued"}) :
        \/ rw[t].priority > rw[u].priority
        \/ /\ rw[t].priority = rw[u].priority
           /\ rw[t].queued_at <= rw[u].queued_at

(* AnalysisTask.report is a OneToOneField: one row per report, or NULL     *)
Linkable(t, r) ==
  r = None \/ \A u \in Task \ {t} : Exists(u) => row[u].report # r

PackageOfTask(t) == PackageOf[row[t].purl]

(* select_for_update: of the transactions that outlive a step only the     *)
(* first one of a worker locks a row before it ends, so only it can make   *)
(* another writer of the row wait                                          *)
Unlocked(t) == \A w \in Worker : ~(pc[w] = "claimed" /\ job[w].task = t)

Send(b, t, r) == [b EXCEPT ![[task |-> t, retries |-> r]] = @ + 1]

(* _process_next_queued_task, on the rows rw: the broker goes from b to    *)
(* b2.  When a completed task of the same purl has a report, linking that  *)
(* report a second time breaks the unique constraint of the OneToOneField: *)
(* the transaction rolls back, the exception is swallowed and nothing is   *)
(* sent.                                                                   *)
DispatchNext(rw, b, b2) ==
  IF WithStatus(rw, {"running"}) # {} \/ WithStatus(rw, {"queued"}) = {}
  THEN b2 = b
  ELSE \E t \in Task :
         /\ IsNext(rw, t)
         /\ IF \E u \in Task \ {t} : HasResult(rw, u, rw[t].purl)
            THEN b2 = b
            ELSE b2 = Send(b, t, 0)

Fault(kind) ==
  /\ kind \in Faults
  /\ faults < MaxFaults
  /\ faults' = faults + 1

Step(w, from, to) ==
  /\ pc[w] = from
  /\ pc' = [pc EXCEPT ![w] = to]

(* The message is acked (or taken back), what the process knew of it gone  *)
End(w, from) ==
  /\ Step(w, from, "idle")
  /\ job' = [job EXCEPT ![w] = None]
  /\ mem' = [mem EXCEPT ![w] = None]
  /\ error' = [error EXCEPT ![w] = None]

(* An exception: the handler reads the row anew                            *)
Raise(w, from, cause) ==
  /\ Step(w, from, "failing")
  /\ mem' = [mem EXCEPT ![w] = None]
  /\ error' = [error EXCEPT ![w] = cause]

QueueInit ==
  /\ row = [t \in Task |-> NoRow]
  /\ reports = <<>>
  /\ broker = [m \in Message |-> 0]
  /\ pc = [w \in Worker |-> "idle"]
  /\ job = [w \in Worker |-> None]
  /\ mem = [w \in Worker |-> None]
  /\ error = [w \in Worker |-> None]
  /\ cache = [w \in Worker |-> {}]
  /\ expired = [w \in Worker |-> {}]
  /\ orphans = {}
  /\ analysed = {}
  /\ at = [c \in Client |-> "idle"]
  /\ req = [c \in Client |-> None]
  /\ made = [c \in Client |-> None]
  /\ faults = 0

------------------------------------------------------------------------------
(* run_dynamic_analysis, first transaction *)

Receive(w) ==
  \E m \in Message :
    /\ broker[m] > 0
    /\ Step(w, "idle", "begin")
    /\ broker' = [broker EXCEPT ![m] = @ - 1]
    /\ job' = [job EXCEPT ![w] = m]
    /\ UNCHANGED <<dbVars, mem, error, cache, limitVars, apiVars, faults>>

OtherRunning(t) == WithStatus(row, {"running"}) \ {t} # {}

(* AnalysisTask.objects.select_for_update().get(id=task_id) finds no row   *)
ClaimMissing(w) ==
  /\ Raise(w, "begin", "missing")
  /\ ~Exists(job[w].task)
  /\ UNCHANGED <<dbVars, broker, job, cache, limitVars, apiVars, faults>>

(* Another task is running: self.retry(countdown=30)                       *)
RetryBlocked(w) ==
  LET t == job[w].task IN
  /\ Step(w, "begin", "acking")
  /\ Exists(t) /\ Unlocked(t)
  /\ OtherRunning(t)
  /\ job[w].retries < MaxRetries
  /\ broker' = Send(broker, t, job[w].retries + 1)
  /\ UNCHANGED <<dbVars, job, mem, error, cache, limitVars, apiVars, faults>>

(* ... but once the retries are used up self.retry raises its exc argument,*)
(* which the handler of every other exception catches                      *)
FailBlocked(w) ==
  LET t == job[w].task IN
  /\ Raise(w, "begin", "blocked")
  /\ Exists(t) /\ Unlocked(t)
  /\ OtherRunning(t)
  /\ job[w].retries >= MaxRetries
  /\ UNCHANGED <<dbVars, broker, job, cache, limitVars, apiVars, faults>>

SkipCompleted(w) ==
  LET t == job[w].task IN
  /\ End(w, "begin")
  /\ Exists(t) /\ Unlocked(t)
  /\ ~OtherRunning(t)
  /\ row[t].status = "completed"
  /\ UNCHANGED <<dbVars, broker, cache, limitVars, apiVars, faults>>

(* No other task is running in this transaction's snapshot                 *)
Claim(w) ==
  LET t == job[w].task IN
  /\ Step(w, "begin", "claimed")
  /\ Exists(t) /\ Unlocked(t)
  /\ ~OtherRunning(t)
  /\ row[t].status # "completed"
  /\ mem' = [mem EXCEPT ![w] = row[t]]
  /\ UNCHANGED <<dbVars, broker, job, error, cache, limitVars, apiVars, faults>>

(* Smart caching: another task of the purl holds a report.  Linking that   *)
(* report here as well breaks the unique constraint, and the transaction   *)
(* rolls back.                                                             *)
ReuseResult(w) ==
  LET t == job[w].task IN
  /\ Raise(w, "claimed", "duplicate")
  /\ \E u \in Task \ {t} : HasResult(row, u, row[t].purl)
  /\ UNCHANGED <<dbVars, broker, job, cache, limitVars, apiVars, faults>>

Start(w) ==
  LET t == job[w].task IN
  /\ Step(w, "claimed", "started")
  /\ ~\E u \in Task \ {t} : HasResult(row, u, row[t].purl)
  /\ mem' = [mem EXCEPT ![w] = Running(@, w)]
  /\ row' = [row EXCEPT ![t] = mem'[w]]
  /\ UNCHANGED <<reports, broker, job, error, cache, limitVars, apiVars, faults>>

------------------------------------------------------------------------------
(* run_dynamic_analysis, the analysis and its results *)

(* The result is in this process's cache.  task.result is no column of     *)
(* the table: the row is completed with the report it was read with.       *)
UseCache(w) ==
  LET t == job[w].task IN
  /\ Step(w, "started", "dispatching")
  /\ PackageOfTask(t) \in cache[w]
  /\ Linkable(t, mem[w].report)
  /\ Unlocked(t)
  /\ row' = [row EXCEPT ![t] = Becomes(mem[w], "completed", mem[w].report, None)]
  /\ mem' = [mem EXCEPT ![w] = None]
  /\ UNCHANGED <<reports, broker, job, error, cache, limitVars, apiVars, faults>>

StartContainer(w) ==
  /\ Step(w, "started", "analyzing")
  /\ PackageOfTask(job[w].task) \notin cache[w]
  /\ UNCHANGED <<dbVars, broker, job, mem, error, cache, limitVars, apiVars, faults>>

(* The container exits, its result is read and the task is refreshed from  *)
(* its row ...                                                             *)
FinishAnalysis(w) ==
  LET t == job[w].task IN
  /\ Step(w, "analyzing", IF row[t].status = "running" THEN "heartbeat" ELSE "saving")
  /\ mem' = [mem EXCEPT ![w] = row[t]]
  /\ analysed' = analysed \cup {PackageOfTask(t)}
  /\ UNCHANGED <<dbVars, broker, job, error, cache, expired, orphans, apiVars, faults>>

(* ... and if it was still running, saved with its heartbeat               *)
SaveHeartbeat(w) ==
  LET t == job[w].task IN
  /\ Step(w, "heartbeat", "saving")
  /\ Linkable(t, mem[w].report)
  /\ Unlocked(t)
  /\ row' = [row EXCEPT ![t] = mem[w]]
  /\ UNCHANGED <<reports, broker, job, mem, error, cache, limitVars, apiVars, faults>>

(* Mutant: the handler of run_package_analysis logs and does not raise     *)
SwallowFailure(w) ==
  /\ Step(w, "analyzing", "saving")
  /\ mem' = [mem EXCEPT ![w] = row[job[w].task]]
  /\ UNCHANGED <<dbVars, broker, job, error, cache, limitVars, apiVars, faults>>

FailAnalysis(w) ==
  /\ Raise(w, "analyzing", "analysis")
  /\ UNCHANGED <<dbVars, broker, job, cache, limitVars, apiVars, faults>>

(* SoftTimeLimitExceeded is raised in the worker; nothing stops the        *)
(* container it was waiting for                                            *)
SoftTimeLimit(w) ==
  /\ Fault("soft")
  /\ Raise(w, "analyzing", "analysis")
  /\ orphans' = orphans \cup {job[w].task}
  /\ UNCHANGED <<dbVars, broker, job, cache, expired, analysed, apiVars>>

(* The result is cached, then save_report saves it.                        *)
(* ReportDynamicAnalysis.package is a OneToOneField: it fails if the       *)
(* package has a report.                                                   *)
CacheResult(w) == cache' = [cache EXCEPT ![w] = @ \cup {PackageOfTask(job[w].task)}]

SaveReport(w) ==
  LET p == PackageOfTask(job[w].task) IN
  /\ Step(w, "saving", "linking")
  /\ CacheResult(w)
  /\ p \notin {reports[i] : i \in DOMAIN reports}
  /\ reports' = Append(reports, p)
  /\ UNCHANGED <<row, broker, job, mem, error, limitVars, apiVars, faults>>

SaveReportTwice(w) ==
  /\ Raise(w, "saving", "duplicate")
  /\ CacheResult(w)
  /\ PackageOfTask(job[w].task) \in {reports[i] : i \in DOMAIN reports}
  /\ UNCHANGED <<dbVars, broker, job, limitVars, apiVars, faults>>

(* ReportDynamicAnalysis.objects.latest('id')                              *)
Latest == reports[Len(reports)]

(* the row becomes completed, whatever its status is by now                *)
LinkReport(w) ==
  LET t == job[w].task IN
  /\ Step(w, "linking", "publishing")
  /\ Linkable(t, Latest)
  /\ Unlocked(t)
  /\ mem' = [mem EXCEPT ![w] = Becomes(@, "completed", Latest, None)]
  /\ row' = [row EXCEPT ![t] = mem'[w]]
  /\ UNCHANGED <<reports, broker, job, error, cache, limitVars, apiVars, faults>>

(* another task got that report first, and the save raises IntegrityError  *)
LinkReportTwice(w) ==
  LET t == job[w].task IN
  /\ pc[w] \in {"started", "heartbeat", "linking"}
  /\ pc[w] = "started" => PackageOfTask(t) \in cache[w]
  /\ ~Linkable(t, IF pc[w] = "linking" THEN Latest ELSE mem[w].report)
  /\ Raise(w, pc[w], "duplicate")
  /\ UNCHANGED <<dbVars, broker, job, cache, limitVars, apiVars, faults>>

(* save_professional_report and the save of download_url, which writes the *)
(* in-memory status and report once more                                   *)
Publish(w) ==
  LET t == job[w].task IN
  /\ Step(w, "publishing", "dispatching")
  /\ Linkable(t, mem[w].report)
  /\ Unlocked(t)
  /\ row' = [row EXCEPT ![t] = Becomes(mem[w], "completed", mem[w].report, None)]
  /\ mem' = [mem EXCEPT ![w] = None]
  /\ UNCHANGED <<reports, broker, job, error, cache, limitVars, apiVars, faults>>

(* any failure of it is logged and ignored                                 *)
FailToPublish(w) ==
  /\ Step(w, "publishing", "dispatching")
  /\ mem' = [mem EXCEPT ![w] = None]
  /\ UNCHANGED <<dbVars, broker, job, error, cache, limitVars, apiVars, faults>>

------------------------------------------------------------------------------
(* run_dynamic_analysis, its exception handler and its end *)

(* except Exception: the row, whatever its status, becomes failed          *)
MarkFailed(w) ==
  LET t == job[w].task IN
  /\ Step(w, "failing", "dispatching")
  /\ Exists(t) /\ Unlocked(t)
  /\ row' = [row EXCEPT ![t] = Becomes(@, "failed", row[t].report, error[w])]
  /\ UNCHANGED <<reports, broker, job, mem, error, cache, limitVars, apiVars, faults>>

(* Mutant: saving the error state may fail for any row                     *)
ForgetFailure(w) ==
  /\ Step(w, "failing", "dispatching")
  /\ UNCHANGED <<dbVars, broker, job, mem, error, cache, limitVars, apiVars, faults>>

FailToMarkFailed(w) ==
  /\ Step(w, "failing", "dispatching")
  /\ ~Exists(job[w].task)
  /\ UNCHANGED <<dbVars, broker, job, mem, error, cache, limitVars, apiVars, faults>>

ProcessNext(w) ==
  /\ Step(w, "dispatching", "finishing")
  /\ DispatchNext(row, broker, broker')
  /\ UNCHANGED <<dbVars, job, mem, error, cache, limitVars, apiVars, faults>>

(* Mutant: the retry does not count                                        *)
RetryForever(w) ==
  /\ Step(w, "finishing", "acking")
  /\ error[w] # None
  /\ job[w].retries < MaxRetries
  /\ broker' = Send(broker, job[w].task, job[w].retries)
  /\ UNCHANGED <<dbVars, job, mem, error, cache, limitVars, apiVars, faults>>

(* self.retry(exc=e, countdown=...)                                        *)
RetryFailed(w) ==
  /\ Step(w, "finishing", "acking")
  /\ error[w] # None
  /\ job[w].retries < MaxRetries
  /\ broker' = Send(broker, job[w].task, job[w].retries + 1)
  /\ UNCHANGED <<dbVars, job, mem, error, cache, limitVars, apiVars, faults>>

(* ... or the task is over                                                 *)
Finish(w) ==
  /\ End(w, "finishing")
  /\ error[w] = None \/ job[w].retries >= MaxRetries
  /\ UNCHANGED <<dbVars, broker, cache, limitVars, apiVars, faults>>

(* task_acks_late: a worker lost before this step leaves both its message  *)
(* and the retry.  Elsewhere nothing happens between the last step of a    *)
(* task and the ack, and they are one step.                                *)
Ack(w) ==
  /\ End(w, "acking")
  /\ UNCHANGED <<dbVars, broker, cache, limitVars, apiVars, faults>>

------------------------------------------------------------------------------
(* Workers that are lost, and the periodic tasks *)

Orphaned(w) == IF pc[w] = "analyzing" THEN {job[w].task} ELSE {}

(* Mutant: task_acks_late off, the message is acked when it is received    *)
CrashAcked(w) ==
  /\ Fault("crash")
  /\ pc[w] \notin Free
  /\ End(w, pc[w])
  /\ cache' = [cache EXCEPT ![w] = {}]
  /\ orphans' = orphans \cup Orphaned(w)
  /\ UNCHANGED <<dbVars, broker, expired, analysed, apiVars>>

(* The process dies: its transaction rolls back, its message, not acked    *)
(* yet (acks_late), is delivered again (reject_on_worker_lost), its cache  *)
(* is gone and the container runs on                                       *)
Crash(w) ==
  /\ Fault("crash")
  /\ pc[w] \notin Free
  /\ End(w, pc[w])
  /\ broker' = Send(broker, job[w].task, job[w].retries)
  /\ cache' = [cache EXCEPT ![w] = {}]
  /\ orphans' = orphans \cup Orphaned(w)
  /\ UNCHANGED <<dbVars, expired, analysed, apiVars>>

(* task_time_limit: the pool process is killed and the message acked.  The *)
(* limit is as long as an analysis may take, so it strikes at or after it. *)
HardTimeLimit(w) ==
  /\ Fault("kill")
  /\ pc[w] \in {"analyzing", "heartbeat", "saving", "linking", "publishing"}
  /\ End(w, pc[w])
  /\ cache' = [cache EXCEPT ![w] = {}]
  /\ orphans' = orphans \cup Orphaned(w)
  /\ UNCHANGED <<dbVars, broker, expired, analysed, apiVars>>

(* worker_max_tasks_per_child: a new pool process, with an empty cache     *)
Recycle(w) ==
  /\ pc[w] = "idle" /\ cache[w] # {}
  /\ cache' = [cache EXCEPT ![w] = {}]
  /\ UNCHANGED <<dbVars, broker, pc, job, mem, error, limitVars, apiVars, faults>>

ContainerExits(t) ==
  /\ t \in orphans
  /\ orphans' = orphans \ {t}
  /\ UNCHANGED <<dbVars, broker, workerVars, expired, analysed, apiVars, faults>>

(* Mutant: only tasks with a container_id time out, and it is never set    *)
NeverAbandoned == {}

(* A row times out timeout_minutes (30) after started_at.  The hard limit  *)
(* (1800 s from before started_at) ends the Celery worker that set it      *)
(* sooner, so the rows that time out are those their worker no longer      *)
(* executes, and those of the threads, which have no limit.                *)
Executing == {"started", "analyzing", "heartbeat", "saving", "linking", "publishing"}

(* Mutant: only what Celery workers run times out                          *)
AbandonedByWorkers ==
  {t \in WithStatus(row, {"running"}) :
     /\ row[t].by \in Worker
     /\ ~\E w \in Worker : row[t].by = w /\ pc[w] \in Executing /\ job[w].task = t}

Abandoned ==
  {t \in WithStatus(row, {"running"}) :
     ~\E w \in Worker : row[t].by = w /\ pc[w] \in Executing /\ job[w].task = t}

(* check_timeouts, which Celery Beat sends to the same workers every 60 s: *)
(* it reads the running rows and picks those that timed out ...            *)
ScanTimeouts(w) ==
  \E T \in SUBSET Abandoned :
    /\ T # {}
    /\ Step(w, "idle", "checking")
    /\ expired' = [expired EXCEPT ![w] =
                    {[task |-> t, report |-> row[t].report] : t \in T}]
    /\ UNCHANGED <<dbVars, broker, job, mem, error, cache, orphans, analysed, apiVars, faults>>

(* ... then saves them, without looking again, and sends the next task.    *)
(* container_id is never set while a task runs: no container is stopped.   *)
(* A report linked twice rolls all of it back.                             *)
SaveTimeouts(w) ==
  /\ Step(w, "checking", "idle")
  /\ \A x \in expired[w] : Unlocked(x.task)
  /\ IF \A x \in expired[w] : Linkable(x.task, x.report)
     THEN /\ row' = [t \in Task |->
                      IF \E x \in expired[w] : x.task = t
                      THEN Becomes(row[t], "failed",
                             (CHOOSE x \in expired[w] : x.task = t).report, "timeout")
                      ELSE row[t]]
          /\ DispatchNext(row', broker, broker')
     ELSE UNCHANGED <<row, broker>>
  /\ expired' = [expired EXCEPT ![w] = {}]
  /\ UNCHANGED <<reports, job, mem, error, cache, orphans, analysed, apiVars, faults>>

(* Mutant: tasks are deleted by their age alone                            *)
CleanupAny(t) ==
  /\ Exists(t)
  /\ \A w \in Worker : pc[w] \notin Free => job[w].task # t
  /\ \A c \in Client : at[c] \in {"queue", "send"} => made[c] # t
  /\ \A w \in Worker : \A x \in expired[w] : x.task # t
  /\ row' = [row EXCEPT ![t] = [NoRow EXCEPT !.status = "deleted"]]
  /\ UNCHANGED <<reports, broker, workerVars, limitVars, apiVars, faults>>

(* cleanup_old_tasks, seven days after completed_at: no worker and no      *)
(* request that knows the row is still there                               *)
Cleanup(t) ==
  /\ row[t].status \in {"completed", "failed"}
  /\ \A w \in Worker : pc[w] \notin Free => job[w].task # t
  /\ \A c \in Client : at[c] \in {"queue", "send"} => made[c] # t
  /\ \A w \in Worker : \A x \in expired[w] : x.task # t
  /\ row' = [row EXCEPT ![t] = [NoRow EXCEPT !.status = "deleted"]]
  /\ UNCHANGED <<reports, broker, workerVars, limitVars, apiVars, faults>>

------------------------------------------------------------------------------
(* analyze_api *)

Move(c, from, to) ==
  /\ at[c] = from
  /\ at' = [at EXCEPT ![c] = to]

Respond(c, from) ==
  /\ Move(c, from, "idle")
  /\ req' = [req EXCEPT ![c] = None]
  /\ made' = [made EXCEPT ![c] = None]

(* Requests come while the table has ids left: MaxTasks bounds the model   *)
Submit(c) ==
  /\ Move(c, "idle", "completed?")
  /\ Cardinality({d \in Client : at[d] # "idle" /\ made[d] = None})
       < Cardinality(WithStatus(row, {"absent"}))
  /\ \E r \in Request : req' = [req EXCEPT ![c] = r]
  /\ UNCHANGED <<dbVars, broker, workerVars, limitVars, made, faults>>

CompletedTasks(c) == {t \in Task : HasResult(row, t, req[c].purl)}

ReplyCompleted(c) ==
  /\ Respond(c, "completed?")
  /\ CompletedTasks(c) # {}
  /\ UNCHANGED <<dbVars, broker, workerVars, limitVars, faults>>

NoneCompleted(c) ==
  /\ Move(c, "completed?", "active?")
  /\ CompletedTasks(c) = {}
  /\ UNCHANGED <<dbVars, broker, workerVars, limitVars, req, made, faults>>

ActiveTasks(c) ==
  {t \in WithStatus(row, {"pending", "queued", "running"}) :
     row[t].purl = req[c].purl}

(* Only tasks created in the last 24 hours count.  The rows that may be    *)
(* older and still active are those their request died over.               *)
Stranded(t) == \E c \in Client : at[c] = "dead" /\ made[c] = t

ReplyActive(c) ==
  /\ Respond(c, "active?")
  /\ ActiveTasks(c) # {}
  /\ UNCHANGED <<dbVars, broker, workerVars, limitVars, faults>>

(* last_check queries a subset of the same rows                            *)
NoneActive(c) ==
  /\ Move(c, "active?", IF req[c].key = None THEN "create" ELSE "key?")
  /\ \A t \in ActiveTasks(c) : Stranded(t)
  /\ UNCHANGED <<dbVars, broker, workerVars, limitVars, req, made, faults>>

Keyed(k) == {t \in Task : Exists(t) /\ row[t].key = k}

ReplayKey(c) ==
  /\ Respond(c, "key?")
  /\ Keyed(req[c].key) # {}
  /\ UNCHANGED <<dbVars, broker, workerVars, limitVars, faults>>

NewKey(c) ==
  /\ Move(c, "key?", "create")
  /\ Keyed(req[c].key) = {}
  /\ UNCHANGED <<dbVars, broker, workerVars, limitVars, req, made, faults>>

(* Mutant: the new row is not kept for the rest of the request             *)
CreateOnly(c) ==
  \E t \in WithStatus(row, {"absent"}) :
    /\ Move(c, "create", "queue")
    /\ \A u \in WithStatus(row, {"absent"}) : t <= u
    /\ row' = [row EXCEPT ![t].status = "pending", ![t].purl = req[c].purl,
                          ![t].priority = req[c].priority, ![t].key = req[c].key]
    /\ UNCHANGED <<reports, broker, workerVars, limitVars, req, made, faults>>

(* AnalysisTask.objects.create, with the next id                           *)
Create(c) ==
  \E t \in WithStatus(row, {"absent"}) :
    /\ Move(c, "create", "queue")
    /\ \A u \in WithStatus(row, {"absent"}) : t <= u
    /\ req[c].key # None => Keyed(req[c].key) = {}
    /\ row' = [row EXCEPT ![t].status = "pending", ![t].purl = req[c].purl,
                          ![t].priority = req[c].priority, ![t].key = req[c].key]
    /\ made' = [made EXCEPT ![c] = t]
    /\ UNCHANGED <<reports, broker, workerVars, limitVars, req, faults>>

(* unique_api_key_idempotency_key: a request that lost the race gets a 500 *)
CreateTwice(c) ==
  /\ Respond(c, "create")
  /\ req[c].key # None
  /\ Keyed(req[c].key) # {}
  /\ UNCHANGED <<dbVars, broker, workerVars, limitVars, faults>>

Queue(c) ==
  LET t == made[c]
      ahead == WithStatus(row, {"queued"}) \ {t} IN
  \E now \in Task :
    /\ Move(c, "queue", "send")
    /\ \A u \in ahead : row[u].queued_at < now
    /\ \A n \in 1 .. now - 1 : \E u \in ahead : row[u].queued_at >= n
    /\ row' = [row EXCEPT ![t].status = "queued", ![t].queued_at = now]
    /\ UNCHANGED <<reports, broker, workerVars, limitVars, req, made, faults>>

SendTask(c) ==
  /\ Respond(c, "send")
  /\ broker' = Send(broker, made[c], 0)
  /\ UNCHANGED <<dbVars, workerVars, limitVars, faults>>

(* apply_async raises: the stale in-memory row is saved as failed          *)
FailToSend(c) ==
  LET t == made[c] IN
  /\ Fault("send")
  /\ Unlocked(t)
  /\ Respond(c, "send")
  /\ row' = [row EXCEPT ![t] = Becomes(@, "failed", None, "send")]
  /\ UNCHANGED <<reports, broker, workerVars, limitVars>>

(* the API process dies in the middle of a request                         *)
Die(c) ==
  /\ Fault("api")
  /\ at[c] \notin {"idle", "dead"}
  /\ at' = [at EXCEPT ![c] = "dead"]
  /\ UNCHANGED <<dbVars, broker, workerVars, limitVars, req, made>>

------------------------------------------------------------------------------

FirstTransaction(w) ==
  \/ ClaimMissing(w) \/ RetryBlocked(w) \/ FailBlocked(w) \/ SkipCompleted(w)
  \/ Claim(w) \/ ReuseResult(w) \/ Start(w)

Analysis(w) ==
  \/ UseCache(w) \/ StartContainer(w) \/ FinishAnalysis(w) \/ FailAnalysis(w)
  \/ SaveHeartbeat(w) \/ SaveReport(w) \/ SaveReportTwice(w)
  \/ LinkReport(w) \/ LinkReportTwice(w) \/ Publish(w) \/ FailToPublish(w)

Ending(w) ==
  \/ MarkFailed(w) \/ FailToMarkFailed(w) \/ ProcessNext(w)
  \/ RetryFailed(w) \/ Finish(w) \/ Ack(w)

Lost(w) == SoftTimeLimit(w) \/ Crash(w) \/ HardTimeLimit(w)

Work(w) == FirstTransaction(w) \/ Analysis(w) \/ Ending(w)

Handle(c) ==
  \/ ReplyCompleted(c) \/ NoneCompleted(c) \/ ReplyActive(c) \/ NoneActive(c)
  \/ ReplayKey(c) \/ NewKey(c) \/ Create(c) \/ CreateTwice(c) \/ Queue(c)
  \/ SendTask(c)

==============================================================================
