---------------------------- MODULE QueueManager ----------------------------
(***************************************************************************)
(* The queue thread of web/packamal/package_analysis/queue_manager.py,     *)
(* which apps.py starts in every process that loads the application: each  *)
(* gunicorn worker, the Celery worker and Celery Beat.  It takes the rows  *)
(* that analyze_api queued, the ones Celery has a message for, and analyses*)
(* them by itself.                                                         *)
(*                                                                         *)
(* A transaction that reads before it writes is a step for each query and  *)
(* one for the writes.  save() writes all the columns of the object in     *)
(* memory.  queue_position, which a thread orders the tasks of a priority  *)
(* by, follows no rule the two queues share: any of them may be first.     *)
(***************************************************************************)
EXTENDS TaskQueue

VARIABLES
  place,    \* where each thread is in _worker_loop
  hand,     \* the task it processes
  object,   \* that task in its memory
  seen      \* the rows of a transaction, as it is about to save them

threadVars == <<place, hand, object, seen>>

ThreadPlace == {"off", "loop", "pick", "start", "analyzing", "heartbeat",
                "saving", "linking", "publishing", "failing", "renumber",
                "numbering"}

Nothing == [t \in Task |-> None]

(* A thread that processes a task                                          *)
Processing == {"start", "analyzing", "heartbeat", "saving", "linking",
               "publishing", "failing"}

ThreadsOK ==
  /\ place \in [Thread -> ThreadPlace]
  /\ hand \in [Thread -> Task \cup {None}]
  /\ object \in [Thread -> Row \cup {None}]
  /\ \A h \in Thread : place[h] \in Processing =>
       hand[h] \in Task /\ object[h] \in Row
  /\ seen \in [Thread -> [Task -> Row \cup {None}]]

ThreadInit ==
  /\ place = [h \in Thread |-> "off"]
  /\ hand = [h \in Thread |-> None]
  /\ object = [h \in Thread |-> None]
  /\ seen = [h \in Thread |-> Nothing]

Advance(h, from, to) ==
  /\ place[h] = from
  /\ place' = [place EXCEPT ![h] = to]

(* The task is done with                                                   *)
Drop(h, from, to) ==
  /\ Advance(h, from, to)
  /\ hand' = [hand EXCEPT ![h] = None]
  /\ object' = [object EXCEPT ![h] = None]

(* save() of the object, with some columns changed; it raises when another *)
(* row has the report                                                      *)
Save(h, o) ==
  /\ Linkable(hand[h], o.report)
  /\ Unlocked(hand[h])
  /\ row' = [row EXCEPT ![hand[h]] = o]

Set(h, o) == object' = [object EXCEPT ![h] = o]

(* The handler of _process_task changes the object and saves it            *)
FailWith(h, from, cause) ==
  /\ Advance(h, from, "failing")
  /\ Set(h, Becomes(object[h], "failed", object[h].report, cause))

------------------------------------------------------------------------------
(* The loop: check_timeouts and _get_next_task *)

(* apps.py, or the command start_queue_worker, when a process starts       *)
StartWorker(h) ==
  /\ Advance(h, "off", "loop")
  /\ UNCHANGED <<queueVars, hand, object, seen>>

(* The running rows that have timed out.  container_id is never set: no    *)
(* container is stopped.                                                   *)
CheckTimeouts(h) ==
  \E T \in SUBSET Abandoned :
    /\ T # {}
    /\ Advance(h, "loop", "renumber")
    /\ seen' = [seen EXCEPT ![h] = [t \in Task |->
         IF t \in T THEN Becomes(row[t], "failed", row[t].report, "timeout") ELSE None]]
    /\ UNCHANGED <<queueVars, hand, object>>

(* Otherwise the loop waits for the running task to end                    *)
GetRunning(h) ==
  /\ Advance(h, "loop", "pick")
  /\ WithStatus(row, {"running"}) = {}
  /\ UNCHANGED <<queueVars, hand, object, seen>>

First(t) ==
  /\ row[t].status = "queued"
  /\ \A u \in WithStatus(row, {"queued"}) : row[t].priority >= row[u].priority

GetNext(h) ==
  \E t \in Task :
    /\ Advance(h, "pick", "start")
    /\ First(t)
    /\ ~\E u \in Task : HasResult(row, u, row[t].purl)
    /\ hand' = [hand EXCEPT ![h] = t]
    /\ Set(h, row[t])
    /\ UNCHANGED <<queueVars, seen>>

(* No task is queued; or the purl of the first one has a completed task,   *)
(* whose report breaks the unique constraint when it is saved here as well:*)
(* the transaction rolls back and the loop begins again                    *)
GetNone(h) ==
  /\ Advance(h, "pick", "loop")
  /\ \/ WithStatus(row, {"queued"}) = {}
     \/ \E t, u \in Task : First(t) /\ HasResult(row, u, row[t].purl)
  /\ UNCHANGED <<queueVars, hand, object, seen>>

------------------------------------------------------------------------------
(* _process_task *)

(* Whatever became of the row since it was read, it is running             *)
StartTask(h) ==
  LET o == Running(object[h], h) IN
  /\ Advance(h, "start", "analyzing")
  /\ Save(h, o) /\ Set(h, o)
  /\ UNCHANGED <<reports, broker, workerVars, limitVars, apiVars, faults, hand, seen>>

GetResult(h) ==
  /\ Advance(h, "analyzing", "heartbeat")
  /\ analysed' = analysed \cup {PackageOfTask(hand[h])}
  /\ UNCHANGED <<dbVars, broker, workerVars, expired, orphans, apiVars, faults>>
  /\ UNCHANGED <<hand, object, seen>>

(* Mutant: the error of the analysis is logged as the one of the heartbeat *)
SwallowError(h) ==
  /\ Advance(h, "analyzing", "saving")
  /\ UNCHANGED <<queueVars, hand, object, seen>>

GetError(h) ==
  /\ FailWith(h, "analyzing", "analysis")
  /\ UNCHANGED <<queueVars, hand, seen>>

(* The heartbeat: the object is saved as it is                             *)
Heartbeat(h) ==
  /\ Advance(h, "heartbeat", "saving")
  /\ Save(h, object[h])
  /\ UNCHANGED <<reports, broker, workerVars, limitVars, apiVars, faults>>
  /\ UNCHANGED <<hand, object, seen>>

(* save_report; a package has one report                                   *)
StoreReport(h) ==
  LET p == PackageOfTask(hand[h]) IN
  /\ Advance(h, "saving", "linking")
  /\ p \notin {reports[i] : i \in DOMAIN reports}
  /\ reports' = Append(reports, p)
  /\ UNCHANGED <<row, broker, workerVars, limitVars, apiVars, faults>>
  /\ UNCHANGED <<hand, object, seen>>

StoreTwice(h) ==
  /\ FailWith(h, "saving", "duplicate")
  /\ PackageOfTask(hand[h]) \in {reports[i] : i \in DOMAIN reports}
  /\ UNCHANGED <<queueVars, hand, seen>>

(* The latest report becomes the task's                                    *)
Complete(h) ==
  LET o == Becomes(object[h], "completed", Latest, None) IN
  /\ Advance(h, "linking", "publishing")
  /\ Save(h, o) /\ Set(h, o)
  /\ UNCHANGED <<reports, broker, workerVars, limitVars, apiVars, faults, hand, seen>>

(* ... unless another row has it: the save raises, and the object keeps it *)
LoseReport(h) ==
  /\ Advance(h, "linking", "failing")
  /\ ~Linkable(hand[h], Latest)
  /\ Set(h, Becomes(object[h], "failed", Latest, "duplicate"))
  /\ UNCHANGED <<queueVars, hand, seen>>

(* The professional report: the object is saved with its download_url      *)
SaveUrl(h) ==
  /\ Drop(h, "publishing", "renumber")
  /\ Save(h, object[h])
  /\ UNCHANGED <<reports, broker, workerVars, limitVars, apiVars, faults, seen>>

(* ... and any failure of that is logged                                   *)
NoUrl(h) ==
  /\ Drop(h, "publishing", "renumber")
  /\ UNCHANGED <<queueVars, seen>>

(* Mutant: an exception goes to the loop, which logs it                    *)
LeaveRunning(h) ==
  /\ Drop(h, "failing", "loop")
  /\ UNCHANGED <<queueVars, seen>>

Fail(h) ==
  /\ Drop(h, "failing", "renumber")
  /\ Save(h, object[h])
  /\ UNCHANGED <<reports, broker, workerVars, limitVars, apiVars, faults, seen>>

(* The handler's own save raises when the object has kept a report of      *)
(* another row: the row is left as it is                                   *)
FailTwice(h) ==
  /\ Drop(h, "failing", "loop")
  /\ ~Linkable(hand[h], object[h].report)
  /\ UNCHANGED <<queueVars, seen>>

------------------------------------------------------------------------------
(* _update_queue_positions, for itself or in the transaction of            *)
(* check_timeouts                                                          *)

ReadQueue(h) ==
  /\ Advance(h, "renumber", "numbering")
  /\ seen' = [seen EXCEPT ![h] = [t \in Task |->
       IF @[t] # None THEN @[t] ELSE IF row[t].status = "queued" THEN row[t] ELSE None]]
  /\ UNCHANGED <<queueVars, hand, object>>

(* All the rows are saved as they were read, or none is                    *)
SaveQueue(h) ==
  LET T == {t \in Task : seen[h][t] # None} IN
  /\ Advance(h, "numbering", "loop")
  /\ \A t \in T : Unlocked(t)
  /\ row' = IF \A t \in T : Linkable(t, seen[h][t].report)
            THEN [t \in Task |-> IF t \in T THEN seen[h][t] ELSE row[t]]
            ELSE row
  /\ seen' = [seen EXCEPT ![h] = Nothing]
  /\ UNCHANGED <<reports, broker, workerVars, limitVars, apiVars, faults, hand, object>>

(* The process ends, by a signal too (stop_worker waits ten seconds): the  *)
(* container it waits for goes on                                          *)
Perish(h) ==
  /\ Fault("thread")
  /\ place[h] # "off"
  /\ Drop(h, place[h], "off")
  /\ seen' = [seen EXCEPT ![h] = Nothing]
  /\ orphans' = orphans \cup IF place[h] = "analyzing" THEN {hand[h]} ELSE {}
  /\ UNCHANGED <<dbVars, broker, workerVars, expired, analysed, apiVars>>

Loop(h) ==
  \/ StartWorker(h) \/ CheckTimeouts(h) \/ GetRunning(h) \/ GetNext(h) \/ GetNone(h)
  \/ StartTask(h) \/ GetResult(h) \/ GetError(h) \/ Heartbeat(h) \/ StoreReport(h)
  \/ StoreTwice(h) \/ Complete(h) \/ LoseReport(h) \/ SaveUrl(h) \/ NoUrl(h) \/ Fail(h)
  \/ ReadQueue(h) \/ SaveQueue(h)
=============================================================================
