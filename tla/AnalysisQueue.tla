---------------------------- MODULE AnalysisQueue ----------------------------
(***************************************************************************)
(* The two queues that serve the AnalysisTask table together: the Celery   *)
(* workers of TaskQueue and the queue threads of QueueManager.  Neither    *)
(* knows of the other but by the rows.                                     *)
(***************************************************************************)
EXTENDS QueueManager

VARIABLES
  left,     \* running rows whose worker or thread is gone for good
  revived   \* queued rows that have run before

vars == <<queueVars, threadVars, left, revived>>

(* Tasks in lost are left by a worker or thread in this step               *)
Follow(lost) ==
  /\ left' = {t \in Task : t \in left \cup lost /\ row'[t].status = "running"}
  /\ revived' = {t \in Task :
       /\ row'[t].status = "queued"
       /\ t \in revived \/ row[t].status \in {"running", "completed", "failed"}}

(* seven days later no thread has the row in its memory either             *)
NotInThread(t) == \A h \in Thread : hand[h] # t /\ seen[h][t] = None

Init ==
  /\ QueueInit
  /\ ThreadInit
  /\ left = {} /\ revived = {}

(* Steps of the Celery workers, the requests and the periodic tasks        *)
WorkStep(w)    == Work(w) /\ UNCHANGED threadVars /\ Follow({})
ReceiveStep(w) == Receive(w) /\ UNCHANGED threadVars /\ Follow({})
ScanStep(w)    == ScanTimeouts(w) /\ UNCHANGED threadVars /\ Follow({})
TimeoutStep(w) == SaveTimeouts(w) /\ UNCHANGED threadVars /\ Follow({})
HandleStep(c)  == Handle(c) /\ UNCHANGED threadVars /\ Follow({})

WorkerStep ==
  \E w \in Worker :
    /\ \/ Receive(w) \/ Work(w) \/ SoftTimeLimit(w) \/ Crash(w) \/ Recycle(w)
       \/ ScanTimeouts(w) \/ SaveTimeouts(w)
    /\ UNCHANGED threadVars /\ Follow({})

KillStep ==
  \E w \in Worker :
    HardTimeLimit(w) /\ UNCHANGED threadVars /\ Follow({job[w].task})

ClientStep ==
  \E c \in Client :
    /\ Submit(c) \/ Handle(c) \/ FailToSend(c) \/ Die(c)
    /\ UNCHANGED threadVars /\ Follow({})

TableStep ==
  \E t \in Task :
    /\ ContainerExits(t) \/ (Cleanup(t) /\ NotInThread(t))
    /\ UNCHANGED threadVars /\ Follow({})

(* Steps of the threads                                                    *)
ThreadStep(h) ==
  \/ Loop(h) /\ Follow({})
  \/ FailTwice(h) /\ Follow({hand[h]})

PerishStep == \E h \in Thread : Perish(h) /\ Follow({hand[h]})

Next ==
  \/ WorkerStep \/ KillStep \/ ClientStep \/ TableStep
  \/ \E h \in Thread : ThreadStep(h)
  \/ PerishStep

Spec == Init /\ [][Next]_vars

(* Workers keep taking and finishing what they take, Celery Beat keeps     *)
(* sending check_timeouts, a request in progress is answered, threads run  *)
(* and are started again with their process.  Nobody has to submit         *)
(* anything, and no fault has to happen.                                   *)
Fairness ==
  /\ \A w \in Worker : /\ WF_vars(ReceiveStep(w)) /\ WF_vars(WorkStep(w))
                       /\ WF_vars(ScanStep(w)) /\ WF_vars(TimeoutStep(w))
  /\ \A c \in Client : WF_vars(HandleStep(c))
  /\ \A h \in Thread : WF_vars(ThreadStep(h))

FairSpec == Spec /\ Fairness

------------------------------------------------------------------------------
(* Properties *)

(* The types of the variables.                                             *)
TypeOK ==
  /\ QueueTypeOK
  /\ ThreadsOK
  /\ left \subseteq Task /\ revived \subseteq Task

(* A worker holds a message of the task and has yet to start or fail it;   *)
(* or to complete or fail it.                                              *)
ToStart == {"begin", "claimed", "failing"}
ToEnd   == ToStart \cup {"started", "analyzing", "heartbeat", "saving", "linking"}

Held(t, S) == \E w \in Worker : pc[w] \in S /\ job[w].task = t

InBroker(t) == \E m \in Message : m.task = t /\ broker[m] > 0

InHand(t) ==
  \E h \in Thread : hand[h] = t /\ place[h] \in Processing \ {"start", "publishing"}

(* A queued row is never forgotten: a message for it is in the broker, a   *)
(* worker holds one, or the request that queued it is about to send one    *)
(* (or died before it could).  The only others are those that have run and *)
(* that a thread saved back as it had read them before.                    *)
NoLostTask ==
  \A t \in WithStatus(row, {"queued"}) :
    \/ InBroker(t)
    \/ Held(t, ToStart)
    \/ \E c \in Client : at[c] \in {"send", "dead"} /\ made[c] = t
    \/ t \in revived

(* A running row is being worked on: a worker holds its message, the       *)
(* broker will deliver it again, or a thread has it in hand.  Only the     *)
(* task_time_limit, which acks the message of the worker it kills, the end *)
(* of a thread's process, and a thread whose handler cannot save the       *)
(* failure leave a running row to check_timeouts.                          *)
RunningIsOwned ==
  \A t \in WithStatus(row, {"running"}) :
    InBroker(t) \/ Held(t, ToEnd) \/ InHand(t) \/ t \in left

(* A task is completed only when a container has ended with a result for   *)
(* its package, through the caches, the reports of other tasks, and the    *)
(* objects that workers and threads save long after they read them.        *)
CompletedWasAnalysed ==
  \A t \in WithStatus(row, {"completed"}) : PackageOfTask(t) \in analysed

(* The two queues together keep what TaskLifecycle says.                   *)
Lifecycle == INSTANCE TaskLifecycle WITH
  status   <- [t \in Task |-> row[t].status],
  purl     <- [t \in Task |-> row[t].purl],
  result   <- [t \in Task |-> row[t].report],
  ResultOf <- PackageOf

ImplementsLifecycle == Lifecycle!Spec

(* A row that ran and was saved back as queued has no message, and the     *)
(* threads stop at a queued row whose purl has a result.                   *)
Stalled(t) ==
  /\ t \in revived
  /\ \E u, v \in Task : row[u].status = "queued" /\ HasResult(row, v, row[u].purl)

(* Every task that is queued ends, whatever workers and threads are lost   *)
(* on the way, unless it is stalled.                                       *)
EveryTaskSettles ==
  \A t \in Task :
    row[t].status \in {"queued", "running"} ~>
      row[t].status \in {"completed", "failed", "deleted"} \/ Stalled(t)

(* Retries and the messages _process_next_queued_task duplicates die out.  *)
MessagesDrain == <>[](\A m \in Message : broker[m] = 0)

------------------------------------------------------------------------------
(* What the code does not do *)

(* README, task lifecycle: "Tasks are processed sequentially (one container*)
(* at a time)".  No two rows of the table are running.                     *)
AtMostOneRunning ==
  \A t, u \in WithStatus(row, {"running"}) : t = u

(* queue_manager.py: "Ensures only one container runs at a time", those of *)
(* workers and threads, and those nobody waits for.                        *)
AtMostOneContainer ==
  Cardinality({w \in Worker : pc[w] = "analyzing"})
    + Cardinality({h \in Thread : place[h] = "analyzing"})
    + Cardinality(orphans) <= 1

(* A task is never linked to the report of another package, although the   *)
(* report is found with latest('id').                                      *)
ReportIsOwn ==
  \A t \in Task : row[t].report # None => row[t].report = PackageOfTask(t)

(* A completed task stays completed until it is cleaned up.                *)
CompletedIsFinal ==
  [][\A t \in Task : row[t].status = "completed" =>
       row'[t].status \in {"completed", "deleted"}]_row

(* tasks.py, run_dynamic_analysis: "If another task is running, this task  *)
(* will be retried."  It does not fail for that reason.                    *)
BlockedIsRetried ==
  \A t \in WithStatus(row, {"failed"}) : row[t].error # "blocked"

(* Smart caching: a task whose purl has a result gets that result, or runs,*)
(* but does not fail because the result is there.                          *)
ResultIsReused ==
  \A t \in WithStatus(row, {"failed"}) : row[t].error # "duplicate"

(* Every task that is queued ends.                                         *)
EveryTaskEnds ==
  \A t \in Task :
    row[t].status = "queued" ~> row[t].status \in {"completed", "failed", "deleted"}

==============================================================================
