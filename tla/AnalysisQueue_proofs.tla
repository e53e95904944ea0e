------------------------ MODULE AnalysisQueue_proofs -------------------------
(***************************************************************************)
(* Proofs about AnalysisQueue, for any number of tasks, workers, threads,  *)
(* clients and faults.                                                     *)
(*                                                                         *)
(* None of the properties is inductive by itself.  What both queues rely   *)
(* on, and what the invariant Sound says, is that everything that refers   *)
(* to a row (a message, a worker, a thread, a request, a list of rows that *)
(* timed out) refers to one that was queued; that every copy of a row in   *)
(* somebody's memory has the purl of that row, which never changes; and    *)
(* that a report, a cached result or a completed copy exists only when a   *)
(* container has given that result.                                        *)
(***************************************************************************)
EXTENDS AnalysisQueue, TLAPS

(* A row that was queued and is still there                                *)
Alive == {"queued", "running", "completed", "failed"}

(* What may be written in the table for a row                              *)
Fit(o) ==
  /\ o.purl \in Purl
  /\ o.report \in analysed \cup {None}
  /\ o.status = "completed" => PackageOf[o.purl] \in analysed
  /\ o.status \in {"pending", "queued"} => o.report = None

(* o is row t as it is, was, or will be saved                              *)
CopyOf(t, o) ==
  /\ o \in Row /\ Fit(o)
  /\ o.status \in Alive
  /\ row[t].status \in Alive
  /\ row[t].purl = o.purl

Working == {"claimed", "started", "analyzing", "heartbeat", "saving", "linking",
            "publishing"}
Recalling == Working \ {"analyzing"}
Analyzed  == {"heartbeat", "saving", "linking", "publishing"}

Queued(t) == row[t].status \notin {"absent", "pending"}

TableFit ==
  /\ \A t \in Task : IF Exists(t) THEN Fit(row[t])
                     ELSE row[t].purl = None /\ row[t].report = None
  /\ \A i \in DOMAIN reports : reports[i] \in analysed

MessagesFit == \A m \in Message : broker[m] > 0 => Queued(m.task)

WorkerFit(w) ==
  /\ pc[w] \notin Free => Queued(job[w].task)
  /\ pc[w] = "analyzing" => row[job[w].task].status \in Alive
  /\ pc[w] \in Recalling => CopyOf(job[w].task, mem[w])
  /\ pc[w] \in Analyzed => PackageOfTask(job[w].task) \in analysed
  /\ pc[w] = "linking" => reports # <<>>
  /\ cache[w] \subseteq analysed
  /\ \A x \in expired[w] : row[x.task].status \in Alive
                           /\ x.report \in analysed \cup {None}

ThreadFit(h) ==
  /\ place[h] \in Processing => CopyOf(hand[h], object[h])
  /\ place[h] \in Analyzed => PackageOfTask(hand[h]) \in analysed
  /\ place[h] = "linking" => reports # <<>>
  /\ place[h] = "publishing" => object[h].status = "completed"
  /\ place[h] = "failing" => object[h].status = "failed"
  /\ \A t \in Task : seen[h][t] # None =>
       CopyOf(t, seen[h][t]) /\ seen[h][t].status \in {"queued", "failed"}

ClientFit(c) ==
  /\ at[c] = "queue" =>
       /\ row[made[c]].status = "pending"
       /\ \A d \in Client : at[d] = "queue" /\ made[d] = made[c] => d = c
  /\ at[c] = "send" => row[made[c]].status \in Alive

Sound ==
  /\ TypeOK
  /\ TableFit /\ MessagesFit
  /\ \A w \in Worker : WorkerFit(w)
  /\ \A h \in Thread : ThreadFit(h)
  /\ \A c \in Client : ClientFit(c)

------------------------------------------------------------------------------
(* Lemmas about the operators the actions are built from *)

(* A copy that is given a status, a report and a cause of failure is a     *)
(* copy still, if there was a result to complete it with.                  *)
LEMMA BecomesFit ==
  ASSUME NEW t \in Task, NEW o, CopyOf(t, o),
         NEW st \in {"running", "completed", "failed"},
         NEW r \in Package \cup {None}, r \in analysed \cup {None},
         NEW e \in Cause \cup {None},
         st = "completed" => PackageOfTask(t) \in analysed
  PROVE  CopyOf(t, Becomes(o, st, r, e)) /\ Becomes(o, st, r, e).status = st
<1>1. o \in Row
  BY DEF CopyOf
<1>2. /\ Becomes(o, st, r, e) \in Row
      /\ Becomes(o, st, r, e).status = st
      /\ Becomes(o, st, r, e).report = r
      /\ Becomes(o, st, r, e).purl = o.purl
  BY <1>1 DEF Becomes, Row, Status
<1> QED
  BY <1>2 DEF CopyOf, Fit, Alive, PackageOfTask

LEMMA RunningFit ==
  ASSUME NEW t \in Task, NEW o, CopyOf(t, o), NEW d \in Worker \cup Thread
  PROVE  CopyOf(t, Running(o, d)) /\ Running(o, d).status = "running"
<1>1. o \in Row
  BY DEF CopyOf
<1>2. /\ Running(o, d) \in Row
      /\ Running(o, d).status = "running"
      /\ Running(o, d).report = o.report
      /\ Running(o, d).purl = o.purl
  BY <1>1 DEF Running, Becomes, Row, Status
<1> QED
  BY <1>2 DEF CopyOf, Fit, Alive

(* A row that was queued is a copy of itself.                              *)
LEMMA RowIsCopy ==
  ASSUME Sound, NEW t \in Task, row[t].status \in Alive
  PROVE  CopyOf(t, row[t])
BY DEF Sound, TypeOK, QueueTypeOK, DbOK, TableFit, CopyOf, Alive, Exists

(* Sending adds one message and takes none away.                           *)
LEMMA SendType ==
  ASSUME NEW b \in [Message -> Nat], NEW t \in Task, NEW r \in 0 .. MaxRetries
  PROVE  /\ Send(b, t, r) \in [Message -> Nat]
         /\ \A m \in Message : Send(b, t, r)[m] >= b[m]
         /\ \A m \in Message : Send(b, t, r)[m] > 0 => b[m] > 0 \/ m.task = t
         /\ [task |-> t, retries |-> r] \in Message
         /\ Send(b, t, r)[[task |-> t, retries |-> r]] > 0
<1> DEFINE m0 == [task |-> t, retries |-> r]
<1>1. m0 \in Message /\ m0.task = t
  BY DEF Message
<1>2. Send(b, t, r) = [b EXCEPT ![m0] = @ + 1]
  BY DEF Send
<1> HIDE DEF m0
<1>3. /\ [b EXCEPT ![m0] = @ + 1] \in [Message -> Nat]
      /\ \A m \in Message : [b EXCEPT ![m0] = @ + 1][m] >= b[m]
      /\ \A m \in Message : [b EXCEPT ![m0] = @ + 1][m] > 0 => b[m] > 0 \/ m = m0
      /\ [b EXCEPT ![m0] = @ + 1][m0] > 0
  BY <1>1
<1> QED
  BY <1>1, <1>2, <1>3 DEF m0

(* _process_next_queued_task only sends messages, for queued rows.         *)
LEMMA DispatchType ==
  ASSUME NEW rw, NEW b \in [Message -> Nat], NEW b2, DispatchNext(rw, b, b2)
  PROVE  /\ b2 \in [Message -> Nat]
         /\ \A m \in Message : b2[m] >= b[m]
         /\ \A m \in Message :
              b2[m] > 0 => b[m] > 0 \/ rw[m.task].status = "queued"
<1>1. CASE b2 = b
  BY <1>1
<1>2. CASE b2 # b
  <2>1. PICK t \in Task : IsNext(rw, t) /\ b2 = Send(b, t, 0)
    BY <1>2 DEF DispatchNext
  <2>2. rw[t].status = "queued"
    BY <2>1 DEF IsNext
  <2>3. 0 \in 0 .. MaxRetries
    BY ConstantsOK
  <2> QED
    BY <2>1, <2>2, <2>3, SendType
<1> QED
  BY <1>1, <1>2

------------------------------------------------------------------------------
(* Who moves, and what they leave alone *)

WorkerMoves(w) ==
  \/ Receive(w) \/ Work(w) \/ Lost(w) \/ Recycle(w) \/ ScanTimeouts(w) \/ SaveTimeouts(w)
ClientMoves(c) == Submit(c) \/ Handle(c) \/ FailToSend(c) \/ Die(c)
TableMoves(t)  == ContainerExits(t) \/ (Cleanup(t) /\ NotInThread(t))
ThreadMoves(h) == Loop(h) \/ FailTwice(h) \/ Perish(h)

LEMMA Movers ==
  ASSUME Next
  PROVE  \/ \E w \in Worker : WorkerMoves(w) /\ UNCHANGED threadVars
         \/ \E c \in Client : ClientMoves(c) /\ UNCHANGED threadVars
         \/ \E t \in Task : TableMoves(t) /\ UNCHANGED threadVars
         \/ \E h \in Thread : ThreadMoves(h)
BY DEF Next, WorkerStep, KillStep, ClientStep, TableStep, ThreadStep, PerishStep,
   WorkerMoves, ClientMoves, TableMoves, ThreadMoves, Lost

(* Another worker is where it was, with what it had.                       *)
Others(w) ==
  \A v \in Worker \ {w} :
    /\ pc'[v] = pc[v] /\ job'[v] = job[v] /\ mem'[v] = mem[v]
    /\ error'[v] = error[v] /\ cache'[v] = cache[v] /\ expired'[v] = expired[v]

LEMMA WorkerFrame ==
  ASSUME TypeOK, NEW w \in Worker, WorkerMoves(w)
  PROVE  /\ UNCHANGED apiVars
         /\ Others(w)
         /\ expired' = expired \/ ScanTimeouts(w) \/ SaveTimeouts(w)
         /\ reports' = reports \/ SaveReport(w)
         /\ analysed' = analysed \/ FinishAnalysis(w)
<1> USE DEF TypeOK, QueueTypeOK, WorkersOK, LimitsOK
<1>1. UNCHANGED apiVars
  BY DEF WorkerMoves, Receive, Work, Lost, Recycle, ScanTimeouts, SaveTimeouts,
     FirstTransaction, Analysis, Ending, ClaimMissing, RetryBlocked, FailBlocked,
     SkipCompleted, Claim, ReuseResult, Start, UseCache, StartContainer,
     FinishAnalysis, SaveHeartbeat, FailAnalysis, SoftTimeLimit, SaveReport,
     SaveReportTwice, LinkReport, LinkReportTwice, Publish, FailToPublish,
     MarkFailed, FailToMarkFailed, ProcessNext, RetryFailed, Finish, Ack, Crash,
     HardTimeLimit
<1>2. /\ expired' = expired \/ ScanTimeouts(w) \/ SaveTimeouts(w)
      /\ reports' = reports \/ SaveReport(w)
      /\ analysed' = analysed \/ FinishAnalysis(w)
  BY DEF WorkerMoves, Receive, Work, Lost, Recycle, ScanTimeouts, SaveTimeouts,
     FirstTransaction, Analysis, Ending, ClaimMissing, RetryBlocked, FailBlocked,
     SkipCompleted, Claim, ReuseResult, Start, UseCache, StartContainer,
     FinishAnalysis, SaveHeartbeat, FailAnalysis, SoftTimeLimit, SaveReport,
     SaveReportTwice, LinkReport, LinkReportTwice, Publish, FailToPublish,
     MarkFailed, FailToMarkFailed, ProcessNext, RetryFailed, Finish, Ack, Crash,
     HardTimeLimit, limitVars, dbVars
<1>3. ASSUME NEW v \in Worker \ {w}
      PROVE  pc'[v] = pc[v] /\ job'[v] = job[v] /\ error'[v] = error[v]
  BY DEF WorkerMoves, Receive, Work, Lost, Recycle, ScanTimeouts, SaveTimeouts,
     FirstTransaction, Analysis, Ending, ClaimMissing, RetryBlocked, FailBlocked,
     SkipCompleted, Claim, ReuseResult, Start, UseCache, StartContainer,
     FinishAnalysis, SaveHeartbeat, FailAnalysis, SoftTimeLimit, SaveReport,
     SaveReportTwice, LinkReport, LinkReportTwice, Publish, FailToPublish,
     MarkFailed, FailToMarkFailed, ProcessNext, RetryFailed, Finish, Ack, Crash,
     HardTimeLimit, Step, End, Raise
<1>4. ASSUME NEW v \in Worker \ {w}
      PROVE  mem'[v] = mem[v]
  BY DEF WorkerMoves, Receive, Work, Lost, Recycle, ScanTimeouts, SaveTimeouts,
     FirstTransaction, Analysis, Ending, ClaimMissing, RetryBlocked, FailBlocked,
     SkipCompleted, Claim, ReuseResult, Start, UseCache, StartContainer,
     FinishAnalysis, SaveHeartbeat, FailAnalysis, SoftTimeLimit, SaveReport,
     SaveReportTwice, LinkReport, LinkReportTwice, Publish, FailToPublish,
     MarkFailed, FailToMarkFailed, ProcessNext, RetryFailed, Finish, Ack, Crash,
     HardTimeLimit, End, Raise
<1>5. ASSUME NEW v \in Worker \ {w}
      PROVE  cache'[v] = cache[v] /\ expired'[v] = expired[v]
  BY DEF WorkerMoves, Receive, Work, Lost, Recycle, ScanTimeouts, SaveTimeouts,
     FirstTransaction, Analysis, Ending, ClaimMissing, RetryBlocked, FailBlocked,
     SkipCompleted, Claim, ReuseResult, Start, UseCache, StartContainer,
     FinishAnalysis, SaveHeartbeat, FailAnalysis, SoftTimeLimit, SaveReport,
     SaveReportTwice, LinkReport, LinkReportTwice, Publish, FailToPublish,
     MarkFailed, FailToMarkFailed, ProcessNext, RetryFailed, Finish, Ack, Crash,
     HardTimeLimit, CacheResult, limitVars
<1> QED
  BY <1>1, <1>2, <1>3, <1>4, <1>5 DEF Others

LEMMA ClientFrame ==
  ASSUME TypeOK, NEW c \in Client, ClientMoves(c)
  PROVE  /\ UNCHANGED <<reports, workerVars, limitVars>>
         /\ \A d \in Client \ {c} : at'[d] = at[d] /\ made'[d] = made[d]
         /\ broker' = broker \/ SendTask(c)
<1> USE DEF TypeOK, QueueTypeOK, ApiOK
<1>1. UNCHANGED <<reports, workerVars, limitVars>> /\ (broker' = broker \/ SendTask(c))
  BY DEF ClientMoves, Handle, Submit, ReplyCompleted, NoneCompleted, ReplyActive,
     NoneActive, ReplayKey, NewKey, Create, CreateTwice, Queue, SendTask, FailToSend,
     Die, dbVars
<1>2. \A d \in Client \ {c} : at'[d] = at[d] /\ made'[d] = made[d]
  BY DEF ClientMoves, Handle, Submit, ReplyCompleted, NoneCompleted, ReplyActive,
     NoneActive, ReplayKey, NewKey, Create, CreateTwice, Queue, SendTask, FailToSend,
     Die, Move, Respond
<1> QED
  BY <1>1, <1>2

LEMMA TableFrame ==
  ASSUME NEW t \in Task, TableMoves(t)
  PROVE  UNCHANGED <<reports, broker, workerVars, expired, analysed, apiVars, faults>>
BY DEF TableMoves, ContainerExits, Cleanup, dbVars, limitVars

LEMMA ThreadFrame ==
  ASSUME TypeOK, ThreadsOK, NEW h \in Thread, ThreadMoves(h)
  PROVE  /\ UNCHANGED <<broker, workerVars, expired, apiVars>>
         /\ reports' = reports \/ StoreReport(h)
         /\ analysed' = analysed \/ GetResult(h)
         /\ \A g \in Thread \ {h} :
              /\ place'[g] = place[g] /\ hand'[g] = hand[g]
              /\ object'[g] = object[g] /\ seen'[g] = seen[g]
<1> USE DEF ThreadsOK
<1>1. UNCHANGED <<broker, workerVars, expired, apiVars>>
  BY DEF ThreadMoves, Loop, StartWorker, CheckTimeouts, GetRunning, GetNext, GetNone,
     StartTask, GetResult, GetError, Heartbeat, StoreReport, StoreTwice, Complete,
     LoseReport, SaveUrl, NoUrl, Fail, FailTwice, ReadQueue, SaveQueue, Perish,
     queueVars, limitVars
<1>2. /\ reports' = reports \/ StoreReport(h)
      /\ analysed' = analysed \/ GetResult(h)
  BY DEF ThreadMoves, Loop, StartWorker, CheckTimeouts, GetRunning, GetNext, GetNone,
     StartTask, GetResult, GetError, Heartbeat, StoreReport, StoreTwice, Complete,
     LoseReport, SaveUrl, NoUrl, Fail, FailTwice, ReadQueue, SaveQueue, Perish,
     queueVars, limitVars, dbVars
<1>3. ASSUME NEW g \in Thread \ {h}
      PROVE  place'[g] = place[g] /\ hand'[g] = hand[g]
  BY DEF ThreadMoves, Loop, StartWorker, CheckTimeouts, GetRunning, GetNext, GetNone,
     StartTask, GetResult, GetError, Heartbeat, StoreReport, StoreTwice, Complete,
     LoseReport, SaveUrl, NoUrl, Fail, FailTwice, ReadQueue, SaveQueue, Perish,
     Advance, Drop, FailWith
<1>4. ASSUME NEW g \in Thread \ {h}
      PROVE  object'[g] = object[g]
  BY DEF ThreadMoves, Loop, StartWorker, CheckTimeouts, GetRunning, GetNext, GetNone,
     StartTask, GetResult, GetError, Heartbeat, StoreReport, StoreTwice, Complete,
     LoseReport, SaveUrl, NoUrl, Fail, FailTwice, ReadQueue, SaveQueue, Perish,
     Drop, FailWith, Set
<1>5. ASSUME NEW g \in Thread \ {h}
      PROVE  seen'[g] = seen[g]
  BY DEF ThreadMoves, Loop, StartWorker, CheckTimeouts, GetRunning, GetNext, GetNone,
     StartTask, GetResult, GetError, Heartbeat, StoreReport, StoreTwice, Complete,
     LoseReport, SaveUrl, NoUrl, Fail, FailTwice, ReadQueue, SaveQueue, Perish
<1> QED
  BY <1>1, <1>2, <1>3, <1>4, <1>5

------------------------------------------------------------------------------
(* The rows *)

Created(t) ==
  /\ row[t].status = "absent"
  /\ row'[t].status = "pending"
  /\ row'[t].purl \in Purl /\ row'[t].report = None

Enqueued(t) ==
  /\ \E c \in Client : Queue(c) /\ made[c] = t
  /\ row[t].status = "pending"
  /\ row'[t].status = "queued"
  /\ row'[t].purl = row[t].purl /\ row'[t].report = row[t].report

Removed(t) ==
  /\ Cleanup(t) /\ NotInThread(t)
  /\ row'[t].status = "deleted"
  /\ row'[t].purl = None /\ row'[t].report = None

(* A step leaves a row alone, or saves a copy of it; else it creates the   *)
(* row, queues it or deletes it.                                           *)
Moved(t) == CopyOf(t, row'[t]) \/ Created(t) \/ Enqueued(t) \/ Removed(t)

RowsMove ==
  /\ row' \in [Task -> Row]
  /\ \A t \in Task : row'[t] = row[t] \/ Moved(t)

LEMMA SavedRow ==
  ASSUME Sound, NEW t \in Task, NEW o, CopyOf(t, o), row' = [row EXCEPT ![t] = o]
  PROVE  RowsMove
BY DEF Sound, TypeOK, QueueTypeOK, DbOK, RowsMove, Moved, CopyOf

(* What latest('id') finds is the report of a package that was analysed.   *)
LEMMA LatestFit ==
  ASSUME Sound, reports # <<>>
  PROVE  Latest \in Package /\ Latest \in analysed
BY DEF Sound, TypeOK, QueueTypeOK, DbOK, TableFit, Latest

(* A worker that is not free has the message of a row.                     *)
LEMMA JobType ==
  ASSUME Sound, NEW w \in Worker, pc[w] \notin Free
  PROVE  /\ job[w] \in Message
         /\ job[w].task \in Task
         /\ job[w].retries \in 0 .. MaxRetries
         /\ Queued(job[w].task)
         /\ Exists(job[w].task) => row[job[w].task].status \in Alive
BY DEF Sound, TypeOK, QueueTypeOK, WorkersOK, WorkerFit, Message, Queued, Exists, Alive,
   DbOK, Row, Status

LEMMA MemFit ==
  ASSUME Sound, NEW w \in Worker, pc[w] \in Recalling
  PROVE  /\ pc[w] \notin Free
         /\ CopyOf(job[w].task, mem[w])
         /\ mem[w].report \in Package \cup {None}
         /\ mem[w].report \in analysed \cup {None}
BY DEF Sound, WorkerFit, Recalling, Working, Free, CopyOf, Fit, TypeOK, QueueTypeOK, LimitsOK

LEMMA WorkerRows ==
  ASSUME Sound, NEW w \in Worker, WorkerMoves(w)
  PROVE  RowsMove
<1> DEFINE t == job[w].task
<1>1. CASE UNCHANGED row
  BY <1>1 DEF Sound, TypeOK, QueueTypeOK, DbOK, RowsMove
<1>2. CASE Start(w)
  <2>1. pc[w] \in Recalling /\ w \in Worker \cup Thread
    BY <1>2 DEF Start, Step, Recalling, Working
  <2>2. t \in Task /\ CopyOf(t, mem[w])
    BY <2>1, MemFit, JobType
  <2>3. row' = [row EXCEPT ![t] = Running(mem[w], w)]
    BY <1>2 DEF Start, Sound, TypeOK, QueueTypeOK, WorkersOK
  <2> QED
    BY <2>1, <2>2, <2>3, RunningFit, SavedRow
<1>3. CASE UseCache(w) \/ Publish(w)
  <2>1. pc[w] \in Recalling
    BY <1>3 DEF UseCache, Publish, Step, Recalling, Working
  <2>2. t \in Task /\ CopyOf(t, mem[w])
    BY <2>1, MemFit, JobType
  <2>3. PackageOfTask(t) \in analysed
    BY <1>3 DEF UseCache, Publish, Step, Sound, WorkerFit, Analyzed
  <2>4. CopyOf(t, Becomes(mem[w], "completed", mem[w].report, None))
    BY <2>1, <2>2, <2>3, MemFit, BecomesFit
  <2> QED
    BY <1>3, <2>2, <2>4, SavedRow DEF UseCache, Publish
<1>4. CASE SaveHeartbeat(w)
  <2>1. pc[w] \in Recalling
    BY <1>4 DEF SaveHeartbeat, Step, Recalling, Working
  <2> QED
    BY <1>4, <2>1, MemFit, JobType, SavedRow DEF SaveHeartbeat
<1>5. CASE LinkReport(w)
  <2>1. pc[w] = "linking" /\ pc[w] \in Recalling
    BY <1>5 DEF LinkReport, Step, Recalling, Working
  <2>2. t \in Task /\ CopyOf(t, mem[w])
    BY <2>1, MemFit, JobType
  <2>3. PackageOfTask(t) \in analysed /\ reports # <<>>
    BY <2>1 DEF Sound, WorkerFit, Analyzed
  <2>4. CopyOf(t, Becomes(mem[w], "completed", Latest, None))
    BY <2>2, <2>3, LatestFit, BecomesFit
  <2>5. row' = [row EXCEPT ![t] = Becomes(mem[w], "completed", Latest, None)]
    BY <1>5 DEF LinkReport, Sound, TypeOK, QueueTypeOK, WorkersOK
  <2> QED
    BY <2>2, <2>4, <2>5, SavedRow
<1>6. CASE MarkFailed(w)
  <2>1. pc[w] \notin Free
    BY <1>6 DEF MarkFailed, Step, Free
  <2>2. t \in Task /\ row[t].status \in Alive
    BY <1>6, <2>1, JobType DEF MarkFailed
  <2>3. CopyOf(t, row[t])
    BY <2>2, RowIsCopy
  <2>4. error[w] \in Cause \cup {None}
    BY DEF Sound, TypeOK, QueueTypeOK, WorkersOK
  <2>5. row[t].report \in Package \cup {None} /\ row[t].report \in analysed \cup {None}
    BY <2>2, <2>3 DEF CopyOf, Fit, Sound, TypeOK, QueueTypeOK, LimitsOK
  <2>6. CopyOf(t, Becomes(row[t], "failed", row[t].report, error[w]))
    BY <2>2, <2>3, <2>4, <2>5, BecomesFit
  <2> QED
    BY <1>6, <2>2, <2>6, SavedRow DEF MarkFailed
<1>7. CASE SaveTimeouts(w) /\ row' # row
  <2> DEFINE hit(u) == \E x \in expired[w] : x.task = u
             old(u) == CHOOSE x \in expired[w] : x.task = u
             new(u) == Becomes(row[u], "failed", old(u).report, "timeout")
  <2>1. row' = [u \in Task |-> IF hit(u) THEN new(u) ELSE row[u]]
    BY <1>7 DEF SaveTimeouts
  <2>2. ASSUME NEW u \in Task, hit(u)
        PROVE  CopyOf(u, new(u)) /\ new(u) \in Row
    <3>1. old(u) \in expired[w] /\ old(u).task = u
      BY <2>2
    <3> HIDE DEF old
    <3>7. expired[w] \subseteq [task : Task, report : Package \cup {None}]
      BY DEF Sound, TypeOK, QueueTypeOK, LimitsOK
    <3>2. PICK r \in Package \cup {None} : r = old(u).report
      BY <3>1, <3>7
    <3>3. r \in analysed \cup {None} /\ row[u].status \in Alive
      BY <3>1, <3>2 DEF Sound, WorkerFit
    <3>4. CopyOf(u, row[u])
      BY <3>3, RowIsCopy
    <3>5. "timeout" \in Cause \cup {None}
      BY DEF Cause
    <3>6. CopyOf(u, Becomes(row[u], "failed", r, "timeout"))
      BY <3>3, <3>4, <3>5, BecomesFit
    <3> QED
      BY <3>2, <3>6 DEF CopyOf
  <2> HIDE DEF hit, new
  <2>3. \A u \in Task : row'[u] = row[u] \/ CopyOf(u, row'[u])
    BY <2>1, <2>2
  <2>4. row' \in [Task -> Row]
    BY <2>1, <2>2 DEF Sound, TypeOK, QueueTypeOK, DbOK
  <2> QED
    BY <2>3, <2>4 DEF RowsMove, Moved
<1> QED
  BY <1>1, <1>2, <1>3, <1>4, <1>5, <1>6, <1>7
     DEF WorkerMoves, Work, Lost, FirstTransaction, Analysis, Ending,
         Receive, ClaimMissing, RetryBlocked, FailBlocked, SkipCompleted, Claim,
         ReuseResult, StartContainer, FinishAnalysis, FailAnalysis, SoftTimeLimit,
         SaveReport, SaveReportTwice, LinkReportTwice, FailToPublish, FailToMarkFailed,
         ProcessNext, RetryFailed, Finish, Ack, Crash, HardTimeLimit, Recycle,
         ScanTimeouts, dbVars

LEMMA ClientRows ==
  ASSUME Sound, NEW c \in Client, ClientMoves(c)
  PROVE  RowsMove
<1>1. CASE UNCHANGED row
  BY <1>1 DEF Sound, TypeOK, QueueTypeOK, DbOK, RowsMove
<1>2. CASE Create(c)
  <2>1. PICK t \in Task :
          /\ row[t].status = "absent"
          /\ row' = [row EXCEPT ![t].status = "pending", ![t].purl = req[c].purl,
                                ![t].priority = req[c].priority, ![t].key = req[c].key]
    BY <1>2 DEF Create, WithStatus
  <2>2. req[c] \in Request
    BY <1>2 DEF Create, Move, Sound, TypeOK, QueueTypeOK, ApiOK
  <2>3. req[c].purl \in Purl /\ req[c].priority \in Nat /\ req[c].key \in Key \cup {None}
    BY <2>2, ConstantsOK DEF Request
  <2>4. row[t] \in Row /\ row[t].report = None
    BY <2>1 DEF Sound, TypeOK, QueueTypeOK, DbOK, TableFit, Exists
  <2> DEFINE o == [row[t] EXCEPT !.status = "pending", !.purl = req[c].purl,
                                 !.priority = req[c].priority, !.key = req[c].key]
  <2>5. o \in Row /\ o.status = "pending" /\ o.purl \in Purl /\ o.report = None
    BY <2>3, <2>4 DEF Row, Status
  <2>6. row' = [row EXCEPT ![t] = o]
    BY <2>1
  <2> HIDE DEF o
  <2>7. row \in [Task -> Row]
    BY DEF Sound, TypeOK, QueueTypeOK, DbOK
  <2>8. row'[t] = o /\ \A u \in Task \ {t} : row'[u] = row[u]
    BY <2>6, <2>7
  <2>9. Created(t)
    BY <2>1, <2>5, <2>8 DEF Created
  <2> QED
    BY <2>5, <2>6, <2>7, <2>8, <2>9 DEF RowsMove, Moved
<1>3. CASE Queue(c)
  <2> DEFINE t == made[c]
  <2>1. PICK now \in Task :
          row' = [row EXCEPT ![t].status = "queued", ![t].queued_at = now]
    BY <1>3 DEF Queue
  <2>2. t \in Task /\ row[t].status = "pending"
    BY <1>3 DEF Queue, Move, Sound, TypeOK, QueueTypeOK, ApiOK, ClientFit
  <2>3. row[t] \in Row
    BY <2>2 DEF Sound, TypeOK, QueueTypeOK, DbOK
  <2> DEFINE o == [row[t] EXCEPT !.status = "queued", !.queued_at = now]
  <2>4. now \in Nat
    BY ConstantsOK DEF Task
  <2>5. row' = [row EXCEPT ![t] = o]
    BY <2>1
  <2>6. o \in Row /\ o.status = "queued" /\ o.purl = row[t].purl /\ o.report = row[t].report
    BY <2>3, <2>4 DEF Row, Status
  <2> HIDE DEF o
  <2>7. Enqueued(t)
    BY <1>3, <2>2, <2>5, <2>6 DEF Sound, TypeOK, QueueTypeOK, DbOK, Enqueued
  <2> QED
    BY <2>2, <2>5, <2>6, <2>7 DEF Sound, TypeOK, QueueTypeOK, DbOK, RowsMove, Moved
<1>4. CASE FailToSend(c)
  <2>1. made[c] \in Task /\ row[made[c]].status \in Alive
    BY <1>4 DEF FailToSend, Respond, Move, Sound, TypeOK, QueueTypeOK, ApiOK, ClientFit
  <2>2. CopyOf(made[c], row[made[c]])
    BY <2>1, RowIsCopy
  <2>3. "send" \in Cause
    BY DEF Cause
  <2>4. CopyOf(made[c], Becomes(row[made[c]], "failed", None, "send"))
    BY <2>1, <2>2, <2>3, BecomesFit
  <2> QED
    BY <1>4, <2>1, <2>4, SavedRow DEF FailToSend
<1> QED
  BY <1>1, <1>2, <1>3, <1>4
     DEF ClientMoves, Handle, Submit, ReplyCompleted, NoneCompleted, ReplyActive,
         NoneActive, ReplayKey, NewKey, CreateTwice, SendTask, Die, dbVars

LEMMA TableRows ==
  ASSUME Sound, NEW t \in Task, TableMoves(t)
  PROVE  RowsMove
<1>1. CASE ContainerExits(t)
  BY <1>1 DEF ContainerExits, dbVars, Sound, TypeOK, QueueTypeOK, DbOK, RowsMove
<1>2. CASE Cleanup(t) /\ NotInThread(t)
  <2> DEFINE o == [NoRow EXCEPT !.status = "deleted"]
  <2>1. o \in Row /\ o.status = "deleted" /\ o.purl = None /\ o.report = None
    BY DEF NoRow, Row, Status
  <2>2. row' = [row EXCEPT ![t] = o]
    BY <1>2 DEF Cleanup
  <2> HIDE DEF o
  <2> QED
    BY <1>2, <2>1, <2>2 DEF Sound, TypeOK, QueueTypeOK, DbOK, RowsMove, Moved, Removed
<1> QED
  BY <1>1, <1>2 DEF TableMoves

(* The object of a thread that processes a task is a copy of its row.      *)
LEMMA ObjectFit ==
  ASSUME Sound, NEW h \in Thread, place[h] \in Processing
  PROVE  /\ hand[h] \in Task
         /\ object[h] \in Row
         /\ CopyOf(hand[h], object[h])
         /\ object[h].report \in Package \cup {None}
         /\ object[h].report \in analysed \cup {None}
BY DEF Sound, ThreadFit, TypeOK, ThreadsOK, QueueTypeOK, LimitsOK, CopyOf, Fit

LEMMA ThreadRows ==
  ASSUME Sound, NEW h \in Thread, ThreadMoves(h)
  PROVE  RowsMove
<1>1. CASE UNCHANGED row
  BY <1>1 DEF Sound, TypeOK, QueueTypeOK, DbOK, RowsMove
<1>2. CASE StartTask(h)
  <2>1. place[h] \in Processing /\ h \in Worker \cup Thread
    BY <1>2 DEF StartTask, Advance, Processing
  <2>2. CopyOf(hand[h], Running(object[h], h))
    BY <2>1, ObjectFit, RunningFit
  <2> QED
    BY <1>2, <2>1, <2>2, ObjectFit, SavedRow DEF StartTask, Save
<1>3. CASE Heartbeat(h) \/ SaveUrl(h) \/ Fail(h)
  <2>1. place[h] \in Processing
    BY <1>3 DEF Heartbeat, SaveUrl, Fail, Drop, Advance, Processing
  <2> QED
    BY <1>3, <2>1, ObjectFit, SavedRow DEF Heartbeat, SaveUrl, Fail, Save
<1>4. CASE Complete(h)
  <2>1. place[h] = "linking" /\ place[h] \in Processing
    BY <1>4 DEF Complete, Advance, Processing
  <2>2. PackageOfTask(hand[h]) \in analysed /\ reports # <<>>
    BY <2>1 DEF Sound, ThreadFit, Analyzed
  <2>3. CopyOf(hand[h], Becomes(object[h], "completed", Latest, None))
    BY <2>1, <2>2, ObjectFit, LatestFit, BecomesFit
  <2> QED
    BY <1>4, <2>1, <2>3, ObjectFit, SavedRow DEF Complete, Save
<1>5. CASE SaveQueue(h) /\ row' # row
  <2> DEFINE T == {t \in Task : seen[h][t] # None}
  <2>1. row' = [t \in Task |-> IF t \in T THEN seen[h][t] ELSE row[t]]
    BY <1>5 DEF SaveQueue
  <2>2. \A t \in T : CopyOf(t, seen[h][t]) /\ seen[h][t] \in Row
    BY DEF Sound, ThreadFit, CopyOf
  <2> HIDE DEF T
  <2>3. \A t \in Task : row'[t] = row[t] \/ CopyOf(t, row'[t])
    BY <2>1, <2>2
  <2>4. row' \in [Task -> Row]
    BY <2>1, <2>2 DEF Sound, TypeOK, QueueTypeOK, DbOK
  <2> QED
    BY <2>3, <2>4 DEF RowsMove, Moved
<1> QED
  BY <1>1, <1>2, <1>3, <1>4, <1>5
     DEF ThreadMoves, Loop, StartWorker, CheckTimeouts, GetRunning, GetNext, GetNone,
     GetResult, GetError, StoreReport, StoreTwice, LoseReport, NoUrl, FailTwice,
     ReadQueue, Perish, queueVars, dbVars

LEMMA RowStep ==
  ASSUME Sound, Next
  PROVE  RowsMove
BY Movers, WorkerRows, ClientRows, TableRows, ThreadRows

(* What was queued has been queued; a row that somebody uses is not        *)
(* deleted, and keeps its purl.                                            *)
LEMMA RowStays ==
  ASSUME RowsMove, NEW t \in Task
  PROVE  /\ Queued(t) => row'[t].status \notin {"absent", "pending"}
         /\ row[t].status \in Alive /\ ~Removed(t) =>
              row'[t].status \in Alive /\ row'[t].purl = row[t].purl
         /\ row[t].status = "pending" => row'[t].status = "pending" \/ Enqueued(t)
BY DEF RowsMove, Moved, CopyOf, Created, Enqueued, Removed, Cleanup, Queued, Alive

LEMMA UsedStays ==
  /\ \A w \in Worker : pc[w] \notin Free => ~Removed(job[w].task)
  /\ \A w \in Worker : \A x \in expired[w] : ~Removed(x.task)
  /\ \A c \in Client : at[c] \in {"queue", "send"} => ~Removed(made[c])
  /\ \A h \in Thread : ~Removed(hand[h])
  /\ \A h \in Thread, t \in Task : seen[h][t] # None => ~Removed(t)
BY DEF Removed, Cleanup, NotInThread

LEMMA PackageType ==
  ASSUME Sound, NEW t \in Task, row[t].status \in Alive
  PROVE  PackageOfTask(t) \in Package
BY RowIsCopy, ConstantsOK DEF CopyOf, Fit, PackageOfTask

(* A result stays one.                                                     *)
LEMMA AnalysedStep ==
  ASSUME Sound, Next
  PROVE  analysed \subseteq analysed' /\ analysed' \subseteq Package
<1> USE DEF Sound, TypeOK
<1>1. CASE analysed' = analysed
  BY <1>1 DEF QueueTypeOK, LimitsOK
<1>2. ASSUME NEW w \in Worker, FinishAnalysis(w)
      PROVE  analysed \subseteq analysed' /\ analysed' \subseteq Package
  <2>1. pc[w] = "analyzing" /\ pc[w] \notin Free
    BY <1>2 DEF FinishAnalysis, Step, Free
  <2>2. job[w].task \in Task /\ row[job[w].task].status \in Alive
    BY <2>1, JobType DEF WorkerFit
  <2>3. PackageOfTask(job[w].task) \in Package
    BY <2>2, PackageType
  <2> QED
    BY <1>2, <2>3 DEF FinishAnalysis, QueueTypeOK, LimitsOK
<1>3. ASSUME NEW h \in Thread, GetResult(h)
      PROVE  analysed \subseteq analysed' /\ analysed' \subseteq Package
  <2>1. place[h] \in Processing
    BY <1>3 DEF GetResult, Advance, Processing
  <2>2. PackageOfTask(hand[h]) \in Package
    BY <2>1, ObjectFit, PackageType DEF CopyOf
  <2> QED
    BY <1>3, <2>2 DEF GetResult, QueueTypeOK, LimitsOK
<1>4. TypeOK /\ ThreadsOK
  OBVIOUS
<1> HIDE DEF Sound, TypeOK
<1> QED
  BY <1>1, <1>2, <1>3, <1>4, Movers, WorkerFrame, ClientFrame, TableFrame, ThreadFrame
     DEF limitVars

LEMMA ReportsStep ==
  ASSUME Sound, Next
  PROVE  /\ reports' \in Seq(Package)
         /\ \A i \in DOMAIN reports' : reports'[i] \in analysed'
         /\ reports # <<>> => reports' # <<>>
<1> DEFINE Goal == /\ reports' \in Seq(Package)
                   /\ \A i \in DOMAIN reports' : reports'[i] \in analysed'
                   /\ reports # <<>> => reports' # <<>>
<1>1. reports \in Seq(Package) /\ \A i \in DOMAIN reports : reports[i] \in analysed
  BY DEF Sound, TypeOK, QueueTypeOK, DbOK, TableFit
<1>2. CASE reports' = reports
  BY <1>1, <1>2, AnalysedStep
<1>3. ASSUME NEW p \in Package, p \in analysed, reports' = Append(reports, p)
      PROVE  Goal
  BY <1>1, <1>3, AnalysedStep
<1> HIDE DEF Goal
<1>4. ASSUME NEW w \in Worker, SaveReport(w)
      PROVE  Goal
  <2>1. pc[w] \in Analyzed /\ pc[w] \in Recalling
    BY <1>4 DEF SaveReport, Step, Analyzed, Recalling, Working
  <2>2. PackageOfTask(job[w].task) \in analysed
    BY <2>1 DEF Sound, WorkerFit
  <2>3. PackageOfTask(job[w].task) \in Package
    BY <2>2 DEF Sound, TypeOK, QueueTypeOK, LimitsOK
  <2> QED
    BY <1>3, <1>4, <2>2, <2>3 DEF SaveReport
<1>5. ASSUME NEW h \in Thread, StoreReport(h)
      PROVE  Goal
  <2>1. PackageOfTask(hand[h]) \in analysed
    BY <1>5 DEF StoreReport, Advance, Sound, ThreadFit, Analyzed
  <2>2. PackageOfTask(hand[h]) \in Package
    BY <2>1 DEF Sound, TypeOK, QueueTypeOK, LimitsOK
  <2> QED
    BY <1>3, <1>5, <2>1, <2>2 DEF StoreReport
<1>6. TypeOK /\ ThreadsOK
  BY DEF Sound, TypeOK
<1>7. reports' = reports \/ (\E w \in Worker : SaveReport(w)) \/ (\E h \in Thread : StoreReport(h))
  BY <1>6, Movers, WorkerFrame, ClientFrame, TableFrame, ThreadFrame
<1>8. Goal
  BY <1>2, <1>4, <1>5, <1>7 DEF Goal
<1> QED
  BY <1>8 DEF Goal

LEMMA TableStays ==
  ASSUME Sound, Next
  PROVE  DbOK' /\ TableFit'
<1>1. RowsMove /\ analysed \subseteq analysed'
  BY RowStep, AnalysedStep
<1>2. ASSUME NEW t \in Task
      PROVE  IF Exists(t)' THEN Fit(row[t])' ELSE row'[t].purl = None /\ row'[t].report = None
  <2>1. CASE row'[t] = row[t]
    BY <1>1, <2>1 DEF Sound, TableFit, Exists, Fit
  <2>2. CASE CopyOf(t, row'[t])
    BY <1>1, <2>2 DEF CopyOf, Exists, Fit, Alive
  <2>3. CASE Created(t)
    BY <1>1, <2>3 DEF Created, Exists, Fit
  <2>4. CASE Enqueued(t)
    BY <1>1, <2>4 DEF Enqueued, Sound, TableFit, Exists, Fit
  <2>5. CASE Removed(t)
    BY <2>5 DEF Removed, Exists
  <2> QED
    BY <1>1, <2>1, <2>2, <2>3, <2>4, <2>5 DEF RowsMove, Moved
<1> QED
  BY <1>1, <1>2, ReportsStep DEF RowsMove, DbOK, TableFit

(* The broker's messages                                                   *)
BrokerGrows == \A m \in Message : broker'[m] >= broker[m]

LEMMA BrokerStep ==
  ASSUME Sound, Next
  PROVE  /\ broker' \in [Message -> Nat]
         /\ MessagesFit'
         /\ BrokerGrows \/ \E w \in Worker : Receive(w)
<1> USE DEF MessagesFit, BrokerGrows
<1>1. \A t \in Task : Queued(t) => Queued(t)'
  BY RowStep, RowStays DEF Queued
<1>2. \A m \in Message : m.task \in Task
  BY DEF Message
<1>0. broker \in [Message -> Nat] /\ MessagesFit /\ TypeOK /\ ThreadsOK
  BY DEF Sound, TypeOK, QueueTypeOK
<1>3. ASSUME UNCHANGED broker
      PROVE  broker' \in [Message -> Nat] /\ MessagesFit' /\ BrokerGrows
  BY <1>0, <1>1, <1>2, <1>3
<1>4. ASSUME NEW t \in Task, NEW r \in 0 .. MaxRetries,
             broker' = Send(broker, t, r), Queued(t)
      PROVE  broker' \in [Message -> Nat] /\ MessagesFit' /\ BrokerGrows
  BY <1>0, <1>1, <1>2, <1>4, SendType
<1>5. ASSUME NEW w \in Worker, Receive(w)
      PROVE  broker' \in [Message -> Nat] /\ MessagesFit'
  <2>1. PICK m \in Message : broker[m] > 0 /\ broker' = [broker EXCEPT ![m] = @ - 1]
    BY <1>5 DEF Receive
  <2> QED
    BY <1>0, <2>1, <1>1, <1>2
<1>6. ASSUME NEW w \in Worker, RetryBlocked(w) \/ RetryFailed(w) \/ Crash(w)
      PROVE  broker' \in [Message -> Nat] /\ MessagesFit' /\ BrokerGrows
  <2>1. pc[w] \notin Free
    BY <1>6 DEF RetryBlocked, RetryFailed, Crash, End, Step, Free
  <2>2. /\ job[w].task \in Task /\ Queued(job[w].task)
        /\ job[w].retries \in 0 .. MaxRetries
        /\ job[w].retries < MaxRetries => job[w].retries + 1 \in 0 .. MaxRetries
    BY <2>1, JobType, ConstantsOK
  <2> QED
    BY <1>4, <1>6, <2>2 DEF RetryBlocked, RetryFailed, Crash
<1>7. ASSUME NEW w \in Worker, ProcessNext(w)
      PROVE  broker' \in [Message -> Nat] /\ MessagesFit' /\ BrokerGrows
  <2>1. DispatchNext(row, broker, broker')
    BY <1>7 DEF ProcessNext
  <2> QED
    BY <1>0, <2>1, <1>1, <1>2, DispatchType DEF Queued
<1>8. ASSUME NEW w \in Worker, SaveTimeouts(w)
      PROVE  broker' \in [Message -> Nat] /\ MessagesFit' /\ BrokerGrows
  <2>1. CASE DispatchNext(row', broker, broker')
    BY <1>0, <2>1, <1>1, <1>2, DispatchType DEF Queued
  <2> QED
    BY <1>3, <1>8, <2>1 DEF SaveTimeouts
<1>9. ASSUME NEW c \in Client, SendTask(c)
      PROVE  broker' \in [Message -> Nat] /\ MessagesFit' /\ BrokerGrows
  <2>1. made[c] \in Task /\ Queued(made[c])
    BY <1>9 DEF SendTask, Respond, Move, Sound, TypeOK, QueueTypeOK, ApiOK, ClientFit,
       Alive, Queued
  <2>2. 0 \in 0 .. MaxRetries
    BY ConstantsOK
  <2> QED
    BY <1>4, <1>9, <2>1, <2>2 DEF SendTask
<1>10. ASSUME NEW w \in Worker, WorkerMoves(w)
       PROVE  /\ broker' \in [Message -> Nat] /\ MessagesFit'
              /\ BrokerGrows \/ Receive(w)
  BY <1>3, <1>5, <1>6, <1>7, <1>8, <1>10
     DEF WorkerMoves, Work, Lost, FirstTransaction, Analysis, Ending,
         ClaimMissing, FailBlocked, SkipCompleted, Claim, ReuseResult, Start,
         UseCache, StartContainer, FinishAnalysis, SaveHeartbeat, FailAnalysis,
         SoftTimeLimit, SaveReport, SaveReportTwice, LinkReport,
         LinkReportTwice, Publish, FailToPublish, MarkFailed,
         FailToMarkFailed, Finish, Ack, HardTimeLimit, Recycle, ScanTimeouts
<1> QED
  BY <1>0, <1>3, <1>9, <1>10, Movers, ClientFrame, TableFrame, ThreadFrame

------------------------------------------------------------------------------
(* The workers *)

LEMMA WorkersType ==
  ASSUME Sound, NEW w \in Worker, WorkerMoves(w)
  PROVE  WorkersOK' /\ expired' \in [Worker -> SUBSET [task : Task, report : Package \cup {None}]]
         /\ orphans' \subseteq Task
<1> DEFINE Lists == /\ expired \in [Worker -> SUBSET [task : Task, report : Package \cup {None}]]
                    /\ orphans \subseteq Task
           t == job[w].task
<1>1. WorkersOK /\ Lists /\ row \in [Task -> Row] /\ analysed \subseteq Package
  BY DEF Sound, TypeOK, QueueTypeOK, DbOK, LimitsOK
<1>2. pc[w] \notin Free => t \in Task /\ row[t] \in Row
  BY <1>1, JobType
<1>3. /\ Orphaned(w) \subseteq Task
      /\ pc[w] = "analyzing" => t \in Task
  BY <1>2 DEF Orphaned, Free
<1>4. pc[w] \in Analyzed => PackageOfTask(t) \in Package
  BY <1>1 DEF Sound, WorkerFit
<1> USE <1>1 DEF WorkersOK, WorkerPC, Free, Step, End, Raise, limitVars
<1>5. CASE Receive(w)
  <2>1. PICK m \in Message : job' = [job EXCEPT ![w] = m]
    BY <1>5 DEF Receive
  <2> QED
    BY <1>5, <2>1 DEF Receive
<1>6. CASE ClaimMissing(w) \/ FailBlocked(w) \/ ReuseResult(w) \/ FailAnalysis(w)
             \/ LinkReportTwice(w)
  BY <1>6 DEF ClaimMissing, FailBlocked, ReuseResult, FailAnalysis, LinkReportTwice, Cause
<1>7. CASE RetryBlocked(w) \/ SkipCompleted(w) \/ StartContainer(w)
             \/ MarkFailed(w) \/ FailToMarkFailed(w) \/ ProcessNext(w)
             \/ RetryFailed(w) \/ Finish(w) \/ Ack(w) \/ SaveHeartbeat(w)
  BY <1>7 DEF RetryBlocked, SkipCompleted, StartContainer, MarkFailed, FailToMarkFailed,
     ProcessNext, RetryFailed, Finish, Ack, SaveHeartbeat
<1>8. CASE Claim(w)
  BY <1>2, <1>8 DEF Claim
<1>9. CASE Start(w)
  <2>1. pc[w] \in Recalling /\ w \in Worker \cup Thread
    BY <1>9 DEF Start, Recalling, Working
  <2>2. Running(mem[w], w) \in Row
    BY <2>1, MemFit, JobType, RunningFit DEF CopyOf
  <2> QED
    BY <1>9, <2>2 DEF Start
<1>10. CASE UseCache(w) \/ Publish(w) \/ FailToPublish(w)
  BY <1>10 DEF UseCache, Publish, FailToPublish
<1>11. CASE FinishAnalysis(w)
  BY <1>2, <1>11 DEF FinishAnalysis
<1>12. CASE SoftTimeLimit(w)
  BY <1>3, <1>12 DEF SoftTimeLimit, Cause
<1>13. CASE SaveReport(w)
  BY <1>4, <1>13 DEF SaveReport, CacheResult, Analyzed
<1>14. CASE SaveReportTwice(w)
  BY <1>4, <1>14 DEF SaveReportTwice, CacheResult, Analyzed, Cause
<1>15. CASE LinkReport(w)
  <2>1. pc[w] = "linking" /\ pc[w] \in Recalling
    BY <1>15 DEF LinkReport, Recalling, Working
  <2>2. PackageOfTask(t) \in analysed /\ reports # <<>>
    BY <2>1 DEF Sound, WorkerFit, Analyzed
  <2>3. Becomes(mem[w], "completed", Latest, None) \in Row
    BY <2>1, <2>2, MemFit, JobType, LatestFit, BecomesFit DEF CopyOf
  <2> QED
    BY <1>15, <2>3 DEF LinkReport
<1>16. CASE Crash(w) \/ HardTimeLimit(w)
  BY <1>3, <1>16 DEF Crash, HardTimeLimit
<1>17. CASE Recycle(w)
  BY <1>17 DEF Recycle
<1>18. CASE ScanTimeouts(w)
  <2>1. PICK T \in SUBSET Abandoned :
          /\ pc' = [pc EXCEPT ![w] = "checking"] /\ pc[w] = "idle"
          /\ expired' = [expired EXCEPT ![w] =
                          {[task |-> u, report |-> row[u].report] : u \in T}]
    BY <1>18 DEF ScanTimeouts
  <2>2. \A u \in T : u \in Task /\ row[u].report \in Package \cup {None}
    BY DEF Abandoned, WithStatus, Row
  <2> DEFINE found == {[task |-> u, report |-> row[u].report] : u \in T}
  <2>3. found \subseteq [task : Task, report : Package \cup {None}]
    BY <2>2
  <2> HIDE DEF found
  <2>4. expired' = [expired EXCEPT ![w] = found]
    BY <2>1 DEF found
  <2> QED
    BY <1>18, <2>1, <2>3, <2>4 DEF ScanTimeouts
<1>19. CASE SaveTimeouts(w)
  BY <1>19 DEF SaveTimeouts
<1> HIDE <1>1
<1> HIDE DEF Lists, WorkersOK, WorkerPC, Free, Step, End, Raise
<1> QED
  BY <1>5, <1>6, <1>7, <1>8, <1>9, <1>10, <1>11, <1>12, <1>13, <1>14, <1>15, <1>16,
     <1>17, <1>18, <1>19 DEF WorkerMoves, Work, Lost, FirstTransaction, Analysis, Ending

(* What a worker refers to stays fit while it is not the one to move.      *)
LEMMA WorkerStays ==
  ASSUME Sound, Next, NEW w \in Worker,
         pc'[w] = pc[w], job'[w] = job[w], mem'[w] = mem[w], cache'[w] = cache[w],
         expired'[w] = expired[w]
  PROVE  WorkerFit(w)'
<1>1. RowsMove /\ analysed \subseteq analysed' /\ (reports # <<>> => reports' # <<>>)
  BY RowStep, AnalysedStep, ReportsStep
<1>2. WorkerFit(w)
  BY DEF Sound
<1>3. ASSUME pc[w] \notin Free
      PROVE  /\ Queued(job[w].task)'
             /\ row[job[w].task].status \in Alive =>
                  row'[job[w].task].status \in Alive
                  /\ row'[job[w].task].purl = row[job[w].task].purl
  BY <1>1, <1>3, JobType, RowStays, UsedStays DEF Queued
<1>4. \A x \in expired[w] : row'[x.task].status \in Alive
  <2>1. \A x \in expired[w] : x.task \in Task
    BY DEF Sound, TypeOK, QueueTypeOK, LimitsOK
  <2> QED
    BY <1>1, <1>2, <2>1, RowStays, UsedStays DEF WorkerFit
<1>5. pc[w] = "analyzing" \/ pc[w] \in Recalling => pc[w] \notin Free
  BY DEF Recalling, Working, Free
<1>6. pc[w] \in Recalling => CopyOf(job[w].task, mem[w])'
  BY <1>1, <1>2, <1>3, <1>5 DEF WorkerFit, CopyOf, Fit
<1>7. pc[w] \in Analyzed => PackageOfTask(job[w].task)' \in analysed'
  <2>1. pc[w] \in Analyzed => pc[w] \in Recalling
    BY DEF Analyzed, Recalling, Working
  <2> QED
    BY <1>1, <1>2, <1>3, <1>5, <2>1 DEF WorkerFit, CopyOf, PackageOfTask
<1> QED
  BY <1>1, <1>2, <1>3, <1>4, <1>5, <1>6, <1>7 DEF WorkerFit, Queued

(* The one that moves refers to what it did, to what it read, or to the    *)
(* row of a message.                                                       *)
LEMMA WorkerGoes ==
  ASSUME Sound, Next, NEW w \in Worker, WorkerMoves(w)
  PROVE  WorkerFit(w)'
<1> DEFINE t == job[w].task
           all == /\ pc \in [Worker -> WorkerPC]
                  /\ job \in [Worker -> Message \cup {None}]
                  /\ mem \in [Worker -> Row \cup {None}]
                  /\ cache \in [Worker -> SUBSET Package]
                  /\ row \in [Task -> Row]
<1>1. RowsMove /\ analysed \subseteq analysed' /\ (reports # <<>> => reports' # <<>>)
  BY RowStep, AnalysedStep, ReportsStep
<1>2. all
  BY DEF Sound, TypeOK, QueueTypeOK, WorkersOK, DbOK
<1>3. WorkerFit(w)
  BY DEF Sound
<1>4. ASSUME pc[w] \notin Free
      PROVE  /\ t \in Task
             /\ row'[t].status \notin {"absent", "pending"}
             /\ row[t].status \in Alive =>
                  row'[t].status \in Alive /\ row'[t].purl = row[t].purl
  <2>1. t \in Task /\ Queued(t) /\ ~Removed(t)
    BY <1>4, JobType, UsedStays
  <2> HIDE DEF t
  <2> QED
    BY <1>1, <2>1, RowStays
<1>5. pc[w] \in Working => pc[w] \notin Free
  BY DEF Working, Free
(* The cache, and the rows that timed out                                  *)
<1>6. cache'[w] \subseteq analysed'
  <2>1. CASE cache'[w] = cache[w] \/ cache'[w] = {}
    BY <1>1, <1>3, <2>1 DEF WorkerFit
  <2>2. CASE SaveReport(w) \/ SaveReportTwice(w)
    BY <1>1, <1>2, <1>3, <2>2 DEF SaveReport, SaveReportTwice, CacheResult, Step, Raise,
       WorkerFit, Analyzed
  <2>3. cache' = cache \/ cache' = [cache EXCEPT ![w] = {}]
          \/ SaveReport(w) \/ SaveReportTwice(w)
    BY DEF WorkerMoves, Receive, Work, Lost, Recycle, ScanTimeouts, SaveTimeouts,
       FirstTransaction, Analysis, Ending, ClaimMissing, RetryBlocked, FailBlocked,
       SkipCompleted, Claim, ReuseResult, Start, UseCache, StartContainer,
       FinishAnalysis, SaveHeartbeat, FailAnalysis, SoftTimeLimit,
       LinkReport, LinkReportTwice, Publish, FailToPublish,
       MarkFailed, FailToMarkFailed, ProcessNext, RetryFailed, Finish, Ack, Crash,
       HardTimeLimit
  <2> QED
    BY <1>2, <2>1, <2>2, <2>3
<1>7. \A x \in expired'[w] : row'[x.task].status \in Alive /\ x.report \in analysed' \cup {None}
  <2>1. CASE expired' = expired
    <3>1. \A x \in expired[w] : x.task \in Task
      BY DEF Sound, TypeOK, QueueTypeOK, LimitsOK
    <3> QED
      BY <1>1, <1>3, <2>1, <3>1, RowStays, UsedStays DEF WorkerFit
  <2>2. CASE ScanTimeouts(w)
    <3>1. PICK T \in SUBSET Abandoned :
            /\ expired' = [expired EXCEPT ![w] =
                            {[task |-> u, report |-> row[u].report] : u \in T}]
            /\ row' = row /\ analysed' = analysed
      BY <2>2 DEF ScanTimeouts, dbVars
    <3>2. expired'[w] = {[task |-> u, report |-> row[u].report] : u \in T}
      BY <3>1 DEF Sound, TypeOK, QueueTypeOK, LimitsOK
    <3>3. ASSUME NEW u \in T
          PROVE  row[u].status \in Alive /\ row[u].report \in analysed \cup {None}
      <4>1. u \in Task /\ row[u].status = "running"
        BY DEF Abandoned, WithStatus
      <4> QED
        BY <4>1, RowIsCopy DEF CopyOf, Fit, Alive
    <3> QED
      BY <3>1, <3>2, <3>3
  <2>3. CASE SaveTimeouts(w)
    BY <2>3 DEF SaveTimeouts, Sound, TypeOK, QueueTypeOK, LimitsOK
  <2> QED
    BY <2>1, <2>2, <2>3, WorkerFrame DEF Sound
(* Its message, and its copy                                               *)
<1>8. \/ pc'[w] \in Free
      \/ pc[w] \notin Free /\ job'[w] = job[w]
      \/ Receive(w)
  BY <1>2 DEF WorkerMoves, Work, Lost, Recycle, ScanTimeouts, SaveTimeouts,
       FirstTransaction, Analysis, Ending, ClaimMissing, RetryBlocked, FailBlocked,
       SkipCompleted, Claim, ReuseResult, Start, UseCache, StartContainer,
       FinishAnalysis, SaveHeartbeat, FailAnalysis, SoftTimeLimit, SaveReport,
       SaveReportTwice, LinkReport, LinkReportTwice, Publish, FailToPublish,
       MarkFailed, FailToMarkFailed, ProcessNext, RetryFailed, Finish, Ack, Crash,
       HardTimeLimit, Step, End, Raise, Free
<1>9. pc'[w] \notin Free => Queued(job[w].task)'
  <2>1. CASE Receive(w)
    <3>1. PICK m \in Message : broker[m] > 0 /\ job' = [job EXCEPT ![w] = m] /\ row' = row
      BY <2>1 DEF Receive, dbVars
    <3>2. job'[w] = m
      BY <1>2, <3>1
    <3> QED
      BY <3>1, <3>2 DEF Sound, MessagesFit, Queued
  <2> QED
    BY <1>4, <1>8, <2>1 DEF Queued
<1> DEFINE Rest == /\ pc'[w] = "analyzing" => row'[job'[w].task].status \in Alive
                   /\ pc'[w] \in Recalling => CopyOf(job[w].task, mem[w])'
                   /\ pc'[w] \in Analyzed => PackageOfTask(job[w].task)' \in analysed'
                   /\ pc'[w] = "linking" => reports' # <<>>
<1>10. CASE pc'[w] \notin Working
  <2>1. Rest
    BY <1>10 DEF Working, Recalling, Analyzed
  <2> QED
    BY <1>6, <1>7, <1>9, <2>1 DEF WorkerFit
<1>11. CASE Claim(w)
  <2>1. /\ row' = row /\ job' = job /\ analysed' = analysed
        /\ pc'[w] = "claimed" /\ mem'[w] = row[t] /\ pc[w] \notin Free /\ Exists(t)
    BY <1>2, <1>11 DEF Claim, Step, dbVars, limitVars, Free
  <2>2. CopyOf(t, row[t])
    BY <1>4, <2>1, JobType, RowIsCopy
  <2>3. Rest
    BY <2>1, <2>2 DEF CopyOf, Fit, Analyzed
  <2> QED
    BY <1>6, <1>7, <1>9, <2>3 DEF WorkerFit
<1>12. CASE Start(w)
  <2>1. /\ pc[w] \in Recalling /\ job' = job /\ analysed' = analysed
        /\ pc'[w] = "started" /\ mem'[w] = Running(mem[w], w)
    BY <1>2, <1>12 DEF Start, Step, limitVars, Recalling, Working
  <2>2. CopyOf(t, Running(mem[w], w)) /\ w \in Worker \cup Thread
    BY <1>4, <2>1, MemFit, RunningFit
  <2>3. row'[t].status \in Alive /\ row'[t].purl = row[t].purl
    BY <1>4, <2>1, <2>2, MemFit DEF CopyOf
  <2>4. Rest
    BY <2>1, <2>2, <2>3 DEF CopyOf, Fit, Analyzed
  <2> QED
    BY <1>6, <1>7, <1>9, <2>4 DEF WorkerFit
<1>13. CASE StartContainer(w)
  <2>1. /\ pc[w] \in Recalling /\ row' = row /\ job' = job /\ pc'[w] = "analyzing"
    BY <1>2, <1>13 DEF StartContainer, Step, dbVars, Recalling, Working
  <2>2. Rest
    BY <2>1, MemFit DEF CopyOf, Recalling, Working, Analyzed
  <2> QED
    BY <1>6, <1>7, <1>9, <2>2 DEF WorkerFit
<1>14. CASE FinishAnalysis(w)
  <2>1. /\ pc[w] = "analyzing" /\ row' = row /\ job' = job /\ mem'[w] = row[t]
        /\ pc'[w] \in {"heartbeat", "saving"}
        /\ analysed' = analysed \cup {PackageOfTask(t)}
    BY <1>2, <1>14 DEF FinishAnalysis, Step, dbVars
  <2>2. CopyOf(t, row[t])
    BY <1>3, <1>4, <2>1, RowIsCopy DEF WorkerFit, Free
  <2>3. Rest
    BY <2>1, <2>2 DEF CopyOf, Fit, PackageOfTask
  <2> QED
    BY <1>6, <1>7, <1>9, <2>3 DEF WorkerFit
<1>15. CASE SaveHeartbeat(w) \/ SaveReport(w)
  <2>1. /\ pc[w] \in Recalling /\ pc[w] \in Analyzed /\ job' = job /\ mem' = mem
        /\ analysed' = analysed
        /\ pc'[w] \in {"saving", "linking"}
        /\ pc'[w] = "linking" => reports' # <<>>
    <3>1. SaveReport(w) => reports' # <<>>
      <4>1. reports \in Seq(Package)
        BY DEF Sound, TypeOK, QueueTypeOK, DbOK
      <4>2. SaveReport(w) => \E p : reports' = Append(reports, p)
        BY DEF SaveReport
      <4> QED
        BY <4>1, <4>2
    <3> QED
      BY <1>2, <1>15, <3>1
         DEF SaveHeartbeat, SaveReport, Step, limitVars, Recalling, Working, Analyzed
  <2>2. CopyOf(t, mem[w]) /\ pc[w] \notin Free
    BY <2>1, MemFit
  <2>3. row'[t].status \in Alive /\ row'[t].purl = row[t].purl
    BY <1>4, <2>2 DEF CopyOf
  <2>4. Rest
    BY <1>3, <2>1, <2>2, <2>3 DEF CopyOf, Fit, WorkerFit, PackageOfTask
  <2> QED
    BY <1>6, <1>7, <1>9, <2>4 DEF WorkerFit
<1>16. CASE LinkReport(w)
  <2>1. /\ pc[w] \in Recalling /\ pc[w] \in Analyzed /\ pc[w] = "linking"
        /\ job' = job /\ analysed' = analysed /\ pc'[w] = "publishing"
        /\ mem'[w] = Becomes(mem[w], "completed", Latest, None)
    BY <1>2, <1>16 DEF LinkReport, Step, limitVars, Recalling, Working, Analyzed
  <2>2. CopyOf(t, mem[w]) /\ pc[w] \notin Free
    BY <2>1, MemFit
  <2>3. row'[t].status \in Alive /\ row'[t].purl = row[t].purl
    BY <1>4, <2>2 DEF CopyOf
  <2>4. CopyOf(t, Becomes(mem[w], "completed", Latest, None))
    BY <1>3, <1>4, <2>1, <2>2, LatestFit, BecomesFit DEF WorkerFit
  <2>5. Rest
    BY <1>3, <2>1, <2>3, <2>4 DEF CopyOf, Fit, WorkerFit, PackageOfTask
  <2> QED
    BY <1>6, <1>7, <1>9, <2>5 DEF WorkerFit
<1>17. \/ pc'[w] \notin Working
       \/ Claim(w) \/ Start(w) \/ StartContainer(w) \/ FinishAnalysis(w)
       \/ SaveHeartbeat(w) \/ SaveReport(w) \/ LinkReport(w)
  BY <1>2 DEF WorkerMoves, Receive, Work, Lost, Recycle, ScanTimeouts, SaveTimeouts,
       FirstTransaction, Analysis, Ending, ClaimMissing, RetryBlocked, FailBlocked,
       SkipCompleted, ReuseResult, UseCache, FailAnalysis, SoftTimeLimit,
       SaveReportTwice, LinkReportTwice, Publish, FailToPublish,
       MarkFailed, FailToMarkFailed, ProcessNext, RetryFailed, Finish, Ack, Crash,
       HardTimeLimit, Step, End, Raise, Working
<1> QED
  BY <1>10, <1>11, <1>12, <1>13, <1>14, <1>15, <1>16, <1>17

LEMMA WorkersStep ==
  ASSUME Sound, Next
  PROVE  WorkersOK' /\ LimitsOK' /\ \A w \in Worker : WorkerFit(w)'
<1>1. ASSUME NEW w \in Worker, WorkerMoves(w)
      PROVE  WorkersOK' /\ LimitsOK' /\ \A v \in Worker : WorkerFit(v)'
  <2>1. Others(w)
    BY <1>1, WorkerFrame DEF Sound
  <2> QED
    BY <1>1, <2>1, WorkersType, WorkerGoes, WorkerStays, AnalysedStep DEF Others, LimitsOK
<1>2. ASSUME UNCHANGED <<workerVars, expired>>, orphans' \subseteq Task
      PROVE  WorkersOK' /\ LimitsOK' /\ \A v \in Worker : WorkerFit(v)'
  <2>1. WorkersOK' /\ LimitsOK'
    BY <1>2, AnalysedStep DEF Sound, TypeOK, QueueTypeOK, workerVars, WorkersOK, LimitsOK
  <2> QED
    BY <1>2, <2>1, WorkerStays DEF workerVars
<1>3. orphans \subseteq Task /\ TypeOK /\ ThreadsOK
  BY DEF Sound, TypeOK, QueueTypeOK, LimitsOK
<1>4. ASSUME NEW c \in Client, ClientMoves(c)
      PROVE  UNCHANGED <<workerVars, expired>> /\ orphans' \subseteq Task
  BY <1>3, <1>4, ClientFrame DEF limitVars
<1>5. ASSUME NEW t \in Task, TableMoves(t)
      PROVE  UNCHANGED <<workerVars, expired>> /\ orphans' \subseteq Task
  <2>1. orphans' \subseteq Task
    BY <1>3, <1>5 DEF TableMoves, ContainerExits, Cleanup, limitVars
  <2> QED
    BY <1>5, <2>1, TableFrame
<1>6. ASSUME NEW h \in Thread, ThreadMoves(h)
      PROVE  UNCHANGED <<workerVars, expired>> /\ orphans' \subseteq Task
  <2>1. orphans' = orphans \/ Perish(h)
    BY <1>6 DEF ThreadMoves, Loop, StartWorker, CheckTimeouts, GetRunning, GetNext, GetNone,
     StartTask, GetResult, GetError, Heartbeat, StoreReport, StoreTwice, Complete,
     LoseReport, SaveUrl, NoUrl, Fail, FailTwice, ReadQueue, SaveQueue,
     queueVars, limitVars
  <2>2. CASE Perish(h)
    <3>1. place[h] = "analyzing" => hand[h] \in Task
      BY ObjectFit DEF Processing
    <3> QED
      BY <1>3, <1>6, <2>2, <3>1, ThreadFrame DEF Perish
  <2> QED
    BY <1>3, <1>6, <2>1, <2>2, ThreadFrame
<1> QED
  BY <1>1, <1>2, <1>4, <1>5, <1>6, Movers

------------------------------------------------------------------------------
(* The requests *)

LEMMA ClientStays ==
  ASSUME Sound, Next, NEW c \in Client, at'[c] = at[c], made'[c] = made[c]
  PROVE  /\ at[c] = "queue" => row'[made[c]].status = "pending"
         /\ at[c] = "send" => row'[made[c]].status \in Alive
<1>1. RowsMove
  BY RowStep
<1>2. at[c] \in {"queue", "send"} => made[c] \in Task /\ ~Removed(made[c])
  BY UsedStays DEF Sound, TypeOK, QueueTypeOK, ApiOK
<1>3. ASSUME at[c] = "queue", Enqueued(made[c])
      PROVE  FALSE
  <2>1. PICK d \in Client : Queue(d) /\ made[d] = made[c]
    BY <1>3 DEF Enqueued
  <2>2. at[d] = "queue" /\ at'[d] = "send"
    BY <2>1 DEF Queue, Move, Sound, TypeOK, QueueTypeOK, ApiOK
  <2>3. d = c
    BY <1>3, <2>1, <2>2 DEF Sound, ClientFit
  <2> QED
    BY <2>2, <2>3
<1> QED
  BY <1>1, <1>2, <1>3, RowStays DEF Sound, ClientFit

LEMMA ClientGoes ==
  ASSUME Sound, Next, NEW c \in Client, ClientMoves(c)
  PROVE  ApiOK' /\ \A d \in Client : ClientFit(d)'
<1>1. ApiOK /\ row \in [Task -> Row] /\ \A d \in Client : ClientFit(d)
  BY DEF Sound, TypeOK, QueueTypeOK, DbOK
<1>2. \A d \in Client \ {c} : at'[d] = at[d] /\ made'[d] = made[d]
  BY ClientFrame DEF Sound
<1>3. \A d \in Client \ {c} : /\ at[d] = "queue" => row'[made[d]].status = "pending"
                              /\ at[d] = "send" => row'[made[d]].status \in Alive
  BY <1>2, ClientStays
<1>4. CASE Create(c)
  <2>1. PICK t \in Task :
          /\ row[t].status = "absent"
          /\ at[c] = "create" /\ at' = [at EXCEPT ![c] = "queue"]
          /\ made' = [made EXCEPT ![c] = t]
          /\ req' = req
          /\ row' = [row EXCEPT ![t].status = "pending", ![t].purl = req[c].purl,
                                ![t].priority = req[c].priority, ![t].key = req[c].key]
    BY <1>4 DEF Create, Move, WithStatus
  <2>2. row'[t].status = "pending"
    BY <1>1, <2>1 DEF Row
  <2>3. ApiOK'
    BY <1>1, <2>1 DEF ApiOK, ClientPC
  <2>4. at'[c] = "queue" /\ made'[c] = t
    BY <1>1, <2>1 DEF ApiOK
  <2>5. \A d \in Client \ {c} : at[d] = "queue" => made[d] # t
    BY <1>1, <2>1 DEF ClientFit
  <2>6. ASSUME NEW d \in Client
        PROVE  ClientFit(d)'
    BY <1>1, <1>2, <1>3, <2>2, <2>4, <2>5 DEF ClientFit
  <2> QED
    BY <2>3, <2>6
<1>5. CASE Queue(c)
  <2>1. at' = [at EXCEPT ![c] = "send"] /\ at[c] = "queue" /\ UNCHANGED <<made, req>>
    BY <1>5 DEF Queue, Move
  <2>2. row'[made[c]].status = "queued"
    <3>1. PICK now \in Task :
            row' = [row EXCEPT ![made[c]].status = "queued", ![made[c]].queued_at = now]
      BY <1>5 DEF Queue
    <3>2. made[c] \in Task
      BY <1>1, <2>1 DEF ApiOK
    <3> QED
      BY <1>1, <3>1, <3>2 DEF Row
  <2>3. ApiOK'
    BY <1>1, <2>1 DEF ApiOK, ClientPC
  <2>4. ASSUME NEW d \in Client
        PROVE  ClientFit(d)'
    BY <1>1, <1>2, <1>3, <2>1, <2>2 DEF ClientFit, ApiOK, Alive
  <2> QED
    BY <2>3, <2>4
<1>6. ASSUME at'[c] \notin {"queue", "send"}, ApiOK'
      PROVE  ApiOK' /\ \A d \in Client : ClientFit(d)'
  <2>1. ASSUME NEW d \in Client
        PROVE  ClientFit(d)'
    BY <1>1, <1>2, <1>3, <1>6 DEF ClientFit
  <2> QED
    BY <1>6, <2>1
<1>7. ASSUME \/ Submit(c) \/ FailToSend(c) \/ Die(c)
             \/ ReplyCompleted(c) \/ ReplyActive(c) \/ ReplayKey(c) \/ CreateTwice(c)
             \/ SendTask(c) \/ NoneCompleted(c) \/ NoneActive(c) \/ NewKey(c)
      PROVE  at'[c] \notin {"queue", "send"} /\ ApiOK'
  BY <1>1, <1>7
     DEF Submit, FailToSend, Die, ReplyCompleted, ReplyActive, ReplayKey, CreateTwice,
         SendTask, NoneCompleted, NoneActive, NewKey, Move, Respond, ApiOK, ClientPC
<1> QED
  BY <1>4, <1>5, <1>6, <1>7 DEF ClientMoves, Handle

LEMMA ClientsStep ==
  ASSUME Sound, Next
  PROVE  ApiOK' /\ \A c \in Client : ClientFit(c)'
<1>1. TypeOK /\ ThreadsOK
  BY DEF Sound, TypeOK
<1>2. CASE UNCHANGED apiVars
  <2>1. ApiOK'
    BY <1>1, <1>2 DEF TypeOK, QueueTypeOK, ApiOK, apiVars
  <2>2. ASSUME NEW c \in Client
        PROVE  ClientFit(c)'
    BY <1>2, ClientStays DEF Sound, ClientFit, apiVars
  <2> QED
    BY <2>1, <2>2
<1>3. UNCHANGED apiVars \/ \E c \in Client : ClientMoves(c)
  BY <1>1, Movers, WorkerFrame, TableFrame, ThreadFrame
<1> QED
  BY <1>2, <1>3, ClientGoes

LEMMA FaultsStep ==
  ASSUME Sound, Next
  PROVE  faults' \in 0 .. MaxFaults
<1>1. UNCHANGED faults \/ \E kind \in FaultKind : Fault(kind)
  <2>1. ASSUME NEW w \in Worker, WorkerMoves(w)
        PROVE  UNCHANGED faults \/ Fault("soft") \/ Fault("crash") \/ Fault("kill")
    BY <2>1 DEF WorkerMoves, Receive, Work, Lost, Recycle, ScanTimeouts, SaveTimeouts,
         FirstTransaction, Analysis, Ending, ClaimMissing, RetryBlocked, FailBlocked,
         SkipCompleted, Claim, ReuseResult, Start, UseCache, StartContainer,
         FinishAnalysis, SaveHeartbeat, FailAnalysis, SoftTimeLimit, SaveReport,
         SaveReportTwice, LinkReport, LinkReportTwice, Publish, FailToPublish,
         MarkFailed, FailToMarkFailed, ProcessNext, RetryFailed, Finish, Ack, Crash,
         HardTimeLimit
  <2>2. ASSUME NEW c \in Client, ClientMoves(c)
        PROVE  UNCHANGED faults \/ Fault("send") \/ Fault("api")
    BY <2>2 DEF ClientMoves, Handle, Submit, ReplyCompleted, NoneCompleted, ReplyActive,
         NoneActive, ReplayKey, NewKey, Create, CreateTwice, Queue, SendTask, FailToSend,
         Die
  <2>3. ASSUME NEW h \in Thread, ThreadMoves(h)
        PROVE  UNCHANGED faults \/ Fault("thread")
    BY <2>3 DEF ThreadMoves, Loop, StartWorker, CheckTimeouts, GetRunning, GetNext,
         GetNone, StartTask, GetResult, GetError, Heartbeat, StoreReport, StoreTwice,
         Complete, LoseReport, SaveUrl, NoUrl, Fail, FailTwice, ReadQueue, SaveQueue,
         Perish, queueVars
  <2> QED
    BY <2>1, <2>2, <2>3, Movers, TableFrame DEF FaultKind
<1> QED
  BY <1>1, ConstantsOK DEF Fault, Sound, TypeOK, QueueTypeOK

------------------------------------------------------------------------------
(* The threads *)

LEMMA ThreadStays ==
  ASSUME Sound, Next, NEW h \in Thread,
         place'[h] = place[h], hand'[h] = hand[h], object'[h] = object[h],
         seen'[h] = seen[h]
  PROVE  ThreadFit(h)'
<1>1. RowsMove /\ analysed \subseteq analysed' /\ (reports # <<>> => reports' # <<>>)
  BY RowStep, AnalysedStep, ReportsStep
<1>2. ThreadFit(h)
  BY DEF Sound
<1>3. ASSUME NEW t \in Task, row[t].status \in Alive, ~Removed(t)
      PROVE  row'[t].status \in Alive /\ row'[t].purl = row[t].purl
  BY <1>1, <1>3, RowStays
<1>4. ASSUME place[h] \in Processing
      PROVE  CopyOf(hand[h], object[h])' /\ row'[hand[h]].purl = row[hand[h]].purl
  <2>1. hand[h] \in Task /\ CopyOf(hand[h], object[h]) /\ ~Removed(hand[h])
    BY <1>4, ObjectFit, UsedStays
  <2> QED
    BY <1>1, <1>3, <2>1 DEF CopyOf, Fit
<1>5. ASSUME NEW t \in Task, seen[h][t] # None
      PROVE  CopyOf(t, seen[h][t])'
  <2>1. CopyOf(t, seen[h][t]) /\ ~Removed(t)
    BY <1>2, <1>5, UsedStays DEF ThreadFit
  <2> QED
    BY <1>1, <1>3, <2>1 DEF CopyOf, Fit
<1>6. place[h] \in Analyzed => place[h] \in Processing
  BY DEF Analyzed, Processing
<1> QED
  BY <1>1, <1>2, <1>4, <1>5, <1>6 DEF ThreadFit, PackageOfTask

(* The rows a thread has read to save them later                           *)
LEMMA SeenGoes ==
  ASSUME Sound, Next, NEW h \in Thread, ThreadMoves(h)
  PROVE  /\ seen' \in [Thread -> [Task -> Row \cup {None}]]
         /\ \A t \in Task : seen'[h][t] # None =>
              CopyOf(t, seen[h][t])' /\ seen'[h][t].status \in {"queued", "failed"}
<1>1. RowsMove /\ analysed \subseteq analysed'
  BY RowStep, AnalysedStep
<1>2. seen \in [Thread -> [Task -> Row \cup {None}]] /\ row \in [Task -> Row]
  BY DEF Sound, TypeOK, ThreadsOK, QueueTypeOK, DbOK
<1>3. ASSUME NEW t \in Task, seen[h][t] # None
      PROVE  /\ seen[h][t] \in Row /\ seen[h][t].status \in {"queued", "failed"}
             /\ seen[h][t].purl \in Purl /\ seen[h][t].report \in analysed' \cup {None}
             /\ seen[h][t].status = "queued" => seen[h][t].report = None
             /\ row'[t].status \in Alive /\ row'[t].purl = seen[h][t].purl
  <2>1. CopyOf(t, seen[h][t]) /\ ~Removed(t) /\ seen[h][t].status \in {"queued", "failed"}
    BY <1>3, UsedStays DEF Sound, ThreadFit
  <2>2. row'[t].status \in Alive /\ row'[t].purl = row[t].purl
    BY <1>1, <2>1, RowStays DEF CopyOf
  <2> QED
    BY <1>1, <2>1, <2>2 DEF CopyOf, Fit
<1>4. ASSUME NEW f \in [Task -> Row \cup {None}], seen' = [seen EXCEPT ![h] = f],
             UNCHANGED <<row, analysed>>,
             \A t \in Task : f[t] # None =>
               \/ f[t] = seen[h][t]
               \/ CopyOf(t, f[t]) /\ f[t].status \in {"queued", "failed"}
      PROVE  /\ seen' \in [Thread -> [Task -> Row \cup {None}]]
             /\ \A t \in Task : seen'[h][t] # None =>
                  CopyOf(t, seen[h][t])' /\ seen'[h][t].status \in {"queued", "failed"}
  <2>1. seen'[h] = f
    BY <1>2, <1>4
  <2>2. ASSUME NEW t \in Task, f[t] # None
        PROVE  CopyOf(t, f[t]) /\ f[t].status \in {"queued", "failed"}
    BY <1>3, <1>4, <2>2 DEF CopyOf, Fit, Alive
  <2> QED
    BY <1>2, <1>4, <2>1, <2>2 DEF CopyOf, Fit
<1>5. CASE seen' = seen
  BY <1>2, <1>3, <1>5 DEF CopyOf, Fit, Alive
<1>6. CASE CheckTimeouts(h)
  <2>1. PICK T \in SUBSET Abandoned :
          seen' = [seen EXCEPT ![h] = [t \in Task |->
            IF t \in T THEN Becomes(row[t], "failed", row[t].report, "timeout") ELSE None]]
    BY <1>6 DEF CheckTimeouts
  <2> DEFINE f == [t \in Task |->
            IF t \in T THEN Becomes(row[t], "failed", row[t].report, "timeout") ELSE None]
  <2>2. ASSUME NEW t \in T
        PROVE  CopyOf(t, Becomes(row[t], "failed", row[t].report, "timeout"))
               /\ Becomes(row[t], "failed", row[t].report, "timeout").status = "failed"
    <3>1. t \in Task /\ row[t].status \in Alive
      BY DEF Abandoned, WithStatus, Alive
    <3>2. CopyOf(t, row[t])
      BY <3>1, RowIsCopy
    <3>3. /\ row[t].report \in Package \cup {None}
          /\ row[t].report \in analysed \cup {None}
          /\ "timeout" \in Cause \cup {None}
      BY <1>2, <3>1, <3>2 DEF CopyOf, Fit, Row, Cause
    <3> QED
      BY <3>1, <3>2, <3>3, BecomesFit
  <2>3. \A t \in T : Becomes(row[t], "failed", row[t].report, "timeout") \in Row
    BY <2>2 DEF CopyOf
  <2>4. f \in [Task -> Row \cup {None}]
    BY <2>3
  <2>5. \A t \in Task : f[t] # None => CopyOf(t, f[t]) /\ f[t].status = "failed"
    BY <2>2
  <2>6. UNCHANGED <<row, analysed>> /\ seen' = [seen EXCEPT ![h] = f]
    BY <1>6, <2>1 DEF CheckTimeouts, queueVars, dbVars, limitVars
  <2> HIDE DEF f
  <2> QED
    BY <1>4, <2>4, <2>5, <2>6
<1>7. CASE ReadQueue(h)
  <2> DEFINE f == [t \in Task |-> IF seen[h][t] # None THEN seen[h][t]
                                  ELSE IF row[t].status = "queued" THEN row[t] ELSE None]
  <2>1. seen' = [seen EXCEPT ![h] = f] /\ UNCHANGED <<row, analysed>>
    BY <1>2, <1>7 DEF ReadQueue, queueVars, dbVars, limitVars
  <2>2. f \in [Task -> Row \cup {None}]
    BY <1>2
  <2>3. ASSUME NEW t \in Task, f[t] # None
        PROVE  \/ f[t] = seen[h][t]
               \/ CopyOf(t, f[t]) /\ f[t].status \in {"queued", "failed"}
    <3>1. f[t] = seen[h][t] \/ (f[t] = row[t] /\ row[t].status = "queued")
      BY <2>3
    <3> HIDE DEF f
    <3> QED
      BY <3>1, RowIsCopy DEF Alive
  <2> HIDE DEF f
  <2> QED
    BY <1>4, <2>1, <2>2, <2>3
<1>8. CASE SaveQueue(h) \/ Perish(h)
  <2>1. seen' = [seen EXCEPT ![h] = Nothing]
    BY <1>8 DEF SaveQueue, Perish
  <2>2. seen'[h] = Nothing
    BY <1>2, <2>1
  <2> QED
    BY <1>2, <2>1, <2>2 DEF Nothing
<1> QED
  BY <1>5, <1>6, <1>7, <1>8
     DEF ThreadMoves, Loop, StartWorker, GetRunning, GetNext, GetNone,
     StartTask, GetResult, GetError, Heartbeat, StoreReport, StoreTwice, Complete,
     LoseReport, SaveUrl, NoUrl, Fail, FailTwice

LEMMA ThreadGoes ==
  ASSUME Sound, Next, NEW h \in Thread, ThreadMoves(h)
  PROVE  ThreadsOK' /\ ThreadFit(h)'
<1> DEFINE t == hand[h]
           Types == /\ place' \in [Thread -> ThreadPlace]
                    /\ hand' \in [Thread -> Task \cup {None}]
                    /\ object' \in [Thread -> Row \cup {None}]
           Rest == /\ place'[h] \in Processing => hand'[h] \in Task /\ CopyOf(hand[h], object[h])'
                   /\ place'[h] \in Analyzed => PackageOfTask(hand[h])' \in analysed'
                   /\ place'[h] = "linking" => reports' # <<>>
                   /\ place'[h] = "publishing" => object'[h].status = "completed"
                   /\ place'[h] = "failing" => object'[h].status = "failed"
<1>1. RowsMove /\ analysed \subseteq analysed' /\ (reports # <<>> => reports' # <<>>)
  BY RowStep, AnalysedStep, ReportsStep
<1>2. ThreadsOK /\ ThreadFit(h) /\ row \in [Task -> Row]
  BY DEF Sound, TypeOK, QueueTypeOK, DbOK
<1>3. ASSUME place[h] \in Processing
      PROVE  /\ t \in Task /\ object[h] \in Row /\ CopyOf(t, object[h])
             /\ row'[t].status \in Alive /\ row'[t].purl = row[t].purl
  <2>1. t \in Task /\ object[h] \in Row /\ CopyOf(t, object[h]) /\ ~Removed(t)
    BY <1>3, ObjectFit, UsedStays
  <2> HIDE DEF t
  <2> QED
    BY <1>1, <2>1, RowStays DEF CopyOf
(* A copy of the row that is in hand is one still after the step           *)
<1>4. ASSUME place[h] \in Processing, NEW o, CopyOf(t, o), hand' = hand, object'[h] = o
      PROVE  hand'[h] \in Task /\ CopyOf(hand[h], object[h])'
  BY <1>1, <1>3, <1>4 DEF CopyOf, Fit
<1>5. ASSUME place[h] \in Analyzed, hand' = hand
      PROVE  PackageOfTask(hand[h])' \in analysed'
  <2>1. place[h] \in Processing
    BY <1>5 DEF Analyzed, Processing
  <2> QED
    BY <1>1, <1>2, <1>3, <1>5, <2>1 DEF ThreadFit, PackageOfTask
<1>6. ASSUME Types, Rest
      PROVE  ThreadsOK' /\ ThreadFit(h)'
  <2>1. place'[h] \in Processing => object'[h] \in Row
    BY <1>6 DEF CopyOf
  <2>2. \A g \in Thread \ {h} :
          place'[g] = place[g] /\ hand'[g] = hand[g] /\ object'[g] = object[g]
    BY <1>2, ThreadFrame DEF Sound
  <2>3. ThreadsOK'
    BY <1>2, <1>6, <2>1, <2>2, SeenGoes DEF ThreadsOK
  <2> QED
    BY <1>6, <2>3, SeenGoes DEF ThreadFit
<1> HIDE DEF Types, Rest
<1>7. CASE \/ StartWorker(h) \/ CheckTimeouts(h) \/ GetRunning(h) \/ GetNone(h)
           \/ SaveUrl(h) \/ NoUrl(h) \/ Fail(h) \/ FailTwice(h) \/ ReadQueue(h)
           \/ SaveQueue(h) \/ Perish(h)
  <2>1. Types /\ place'[h] \in ThreadPlace \ Processing
    BY <1>2, <1>7 DEF StartWorker, CheckTimeouts, GetRunning, GetNone, SaveUrl, NoUrl, Fail,
       FailTwice, ReadQueue, SaveQueue, Perish, Advance, Drop, ThreadsOK, ThreadPlace,
       Processing, Types
  <2>2. Rest
    BY <2>1 DEF Rest, Processing, Analyzed
  <2> QED
    BY <1>6, <2>1, <2>2
<1>8. CASE GetNext(h)
  <2>1. PICK u \in Task :
          /\ place' = [place EXCEPT ![h] = "start"]
          /\ row[u].status = "queued"
          /\ hand' = [hand EXCEPT ![h] = u]
          /\ object' = [object EXCEPT ![h] = row[u]]
          /\ UNCHANGED <<row, analysed>>
    BY <1>8 DEF GetNext, Advance, Set, First, queueVars, dbVars, limitVars
  <2>2. Types /\ place'[h] = "start" /\ hand'[h] = u /\ object'[h] = row[u]
    BY <1>2, <2>1 DEF ThreadsOK, ThreadPlace, Types
  <2>3. CopyOf(u, row[u])
    BY <2>1, RowIsCopy DEF Alive
  <2>4. Rest
    BY <2>1, <2>2, <2>3 DEF Rest, Analyzed, CopyOf, Fit
  <2> QED
    BY <1>6, <2>2, <2>4
<1>9. CASE StartTask(h)
  <2>1. /\ place[h] \in Processing /\ hand' = hand /\ place'[h] = "analyzing"
        /\ object'[h] = Running(object[h], h)
    BY <1>2, <1>9 DEF StartTask, Advance, Set, ThreadsOK, Processing
  <2>2. CopyOf(t, Running(object[h], h))
    BY <1>3, <2>1, RunningFit
  <2>3. Types
    BY <1>2, <1>9, <2>2 DEF StartTask, Advance, Set, ThreadsOK, ThreadPlace, Types, CopyOf
  <2>4. Rest
    BY <1>4, <2>1, <2>2 DEF Rest, Analyzed
  <2> QED
    BY <1>6, <2>3, <2>4
<1>10. CASE GetResult(h) \/ Heartbeat(h) \/ StoreReport(h)
  <2>1. /\ place[h] \in Processing /\ hand' = hand /\ object' = object
        /\ place'[h] \in {"heartbeat", "saving", "linking"}
        /\ place[h] \in Analyzed \/ GetResult(h)
        /\ place'[h] = "linking" => StoreReport(h)
    BY <1>2, <1>10 DEF GetResult, Heartbeat, StoreReport, Advance, ThreadsOK, Processing,
       Analyzed
  <2>2. PackageOfTask(hand[h])' \in analysed'
    <3>1. CASE GetResult(h)
      BY <2>1, <3>1 DEF GetResult, PackageOfTask, dbVars
    <3> QED
      BY <1>5, <2>1, <3>1
  <2>3. StoreReport(h) => reports' # <<>>
    <3>1. reports \in Seq(Package)
      BY DEF Sound, TypeOK, QueueTypeOK, DbOK
    <3>2. StoreReport(h) => \E p : reports' = Append(reports, p)
      BY DEF StoreReport
    <3> QED
      BY <3>1, <3>2
  <2>4. Types
    BY <1>2, <1>10 DEF GetResult, Heartbeat, StoreReport, Advance, ThreadsOK, ThreadPlace,
       Types
  <2>5. Rest
    BY <1>3, <1>4, <2>1, <2>2, <2>3 DEF Rest
  <2> QED
    BY <1>6, <2>4, <2>5
<1>11. CASE GetError(h) \/ StoreTwice(h) \/ LoseReport(h)
  <2>1. /\ place[h] \in Processing /\ hand' = hand /\ place'[h] = "failing"
        /\ LoseReport(h) => place[h] = "linking"
    BY <1>2, <1>11 DEF GetError, StoreTwice, LoseReport, FailWith, Advance, ThreadsOK,
       Processing, queueVars
  <2>2. PICK r, e : /\ object' = [object EXCEPT ![h] = Becomes(object[h], "failed", r, e)]
                    /\ r = object[h].report \/ (LoseReport(h) /\ r = Latest)
                    /\ e \in Cause
    BY <1>11 DEF GetError, StoreTwice, LoseReport, FailWith, Set, Cause
  <2>3. r \in Package \cup {None} /\ r \in analysed \cup {None}
    BY <1>2, <2>1, <2>2, ObjectFit, LatestFit DEF ThreadFit
  <2>4. /\ CopyOf(t, Becomes(object[h], "failed", r, e))
        /\ Becomes(object[h], "failed", r, e).status = "failed"
    BY <1>3, <2>1, <2>2, <2>3, BecomesFit
  <2>5. object'[h] = Becomes(object[h], "failed", r, e)
    BY <1>2, <2>2 DEF ThreadsOK
  <2>6. Types
    <3>1. place' = [place EXCEPT ![h] = "failing"]
      BY <1>11 DEF GetError, StoreTwice, LoseReport, FailWith, Advance
    <3> QED
      BY <1>2, <2>1, <2>2, <2>4, <3>1 DEF ThreadsOK, ThreadPlace, Types, CopyOf
  <2>7. Rest
    BY <1>4, <2>1, <2>4, <2>5 DEF Rest, Analyzed
  <2> QED
    BY <1>6, <2>6, <2>7
<1>12. CASE Complete(h)
  <2> DEFINE o == Becomes(object[h], "completed", Latest, None)
  <2>1. /\ place[h] \in Processing /\ place[h] = "linking" /\ place[h] \in Analyzed
        /\ hand' = hand /\ place'[h] = "publishing" /\ object'[h] = o
    BY <1>2, <1>12 DEF Complete, Advance, Set, ThreadsOK, Processing, Analyzed
  <2>2. CopyOf(t, o) /\ o.status = "completed"
    BY <1>2, <1>3, <2>1, LatestFit, BecomesFit DEF ThreadFit
  <2>3. Types
    BY <1>2, <1>12, <2>2 DEF Complete, Advance, Set, ThreadsOK, ThreadPlace, Types, CopyOf
  <2> HIDE DEF o
  <2>4. Rest
    BY <1>4, <1>5, <2>1, <2>2 DEF Rest
  <2> QED
    BY <1>6, <2>3, <2>4
<1> QED
  BY <1>7, <1>8, <1>9, <1>10, <1>11, <1>12 DEF ThreadMoves, Loop

LEMMA ThreadsStep ==
  ASSUME Sound, Next
  PROVE  ThreadsOK' /\ \A h \in Thread : ThreadFit(h)'
<1>1. CASE UNCHANGED threadVars
  <2>1. ThreadsOK'
    BY <1>1 DEF Sound, TypeOK, ThreadsOK, threadVars
  <2> QED
    BY <1>1, <2>1, ThreadStays DEF threadVars
<1>2. ASSUME NEW h \in Thread, ThreadMoves(h)
      PROVE  ThreadsOK' /\ \A g \in Thread : ThreadFit(g)'
  <2>1. \A g \in Thread \ {h} : place'[g] = place[g] /\ hand'[g] = hand[g]
                                /\ object'[g] = object[g] /\ seen'[g] = seen[g]
    BY <1>2, ThreadFrame DEF Sound, TypeOK
  <2> QED
    BY <1>2, <2>1, ThreadGoes, ThreadStays
<1> QED
  BY <1>1, <1>2, Movers

------------------------------------------------------------------------------
(* The invariant *)

LEMMA SoundInit == Init => Sound
<1> SUFFICES ASSUME Init
             PROVE  Sound
  OBVIOUS
<1>1. NoRow \in Row /\ NoRow.status = "absent" /\ NoRow.purl = None /\ NoRow.report = None
  BY DEF NoRow, Row, Status
<1>2. TypeOK
  BY <1>1, ConstantsOK DEF Init, QueueInit, ThreadInit, TypeOK, QueueTypeOK, DbOK, WorkersOK,
     LimitsOK, ApiOK, ThreadsOK, WorkerPC, ClientPC, Free, ThreadPlace, Processing, Nothing
<1>3. TableFit /\ MessagesFit
  BY <1>1 DEF Init, QueueInit, TableFit, Exists, MessagesFit
<1>4. \A w \in Worker : WorkerFit(w)
  BY DEF Init, QueueInit, WorkerFit, Free, Recalling, Working, Analyzed
<1>5. \A h \in Thread : ThreadFit(h)
  BY DEF Init, ThreadInit, ThreadFit, Processing, Analyzed, Nothing
<1>6. \A c \in Client : ClientFit(c)
  BY DEF Init, QueueInit, ClientFit
<1> QED
  BY <1>2, <1>3, <1>4, <1>5, <1>6 DEF Sound

LEMMA SoundStep == Sound /\ [Next]_vars => Sound'
<1> SUFFICES ASSUME Sound, [Next]_vars
             PROVE  Sound'
  OBVIOUS
<1>1. CASE Next
  <2>1. left' \subseteq Task /\ revived' \subseteq Task
    <3>1. \E lost : Follow(lost)
      BY <1>1 DEF Next, WorkerStep, KillStep, ClientStep, TableStep, ThreadStep, PerishStep
    <3> QED
      BY <3>1 DEF Follow
  <2> QED
    BY <1>1, <2>1, TableStays, BrokerStep, WorkersStep, ClientsStep, FaultsStep, ThreadsStep
       DEF Sound, TypeOK, QueueTypeOK
<1>2. CASE UNCHANGED vars
  <2>1. TypeOK'
    BY <1>2 DEF vars, queueVars, dbVars, workerVars, limitVars, apiVars, threadVars, Sound,
       TypeOK, QueueTypeOK, DbOK, WorkersOK, LimitsOK, ApiOK, ThreadsOK
  <2>2. TableFit' /\ MessagesFit'
    BY <1>2 DEF vars, queueVars, dbVars, limitVars, Sound, TableFit, MessagesFit, Exists,
       Fit, Queued
  <2>3. \A w \in Worker : WorkerFit(w)'
    BY <1>2 DEF vars, queueVars, dbVars, workerVars, limitVars, Sound, WorkerFit, CopyOf,
       Fit, Queued, PackageOfTask
  <2>4. \A h \in Thread : ThreadFit(h)'
    BY <1>2 DEF vars, queueVars, dbVars, threadVars, limitVars, Sound, ThreadFit, CopyOf,
       Fit, PackageOfTask
  <2>5. \A c \in Client : ClientFit(c)'
    BY <1>2 DEF vars, queueVars, dbVars, apiVars, Sound, ClientFit
  <2> QED
    BY <2>1, <2>2, <2>3, <2>4, <2>5 DEF Sound
<1> QED
  BY <1>1, <1>2

LEMMA AlwaysSound == Spec => []Sound
BY SoundInit, SoundStep, PTL DEF Spec

(* Every variable keeps its type, whatever workers, threads and requests   *)
(* do at the same time: in particular a report exists when latest('id') is *)
(* asked for, and every row that is worked on has a purl.                  *)
THEOREM TypeCorrect == Spec => []TypeOK
BY AlwaysSound, PTL DEF Sound

(* A completed task had its package analysed to the end, whichever of the  *)
(* caches, reports and stale copies of rows completed it.                  *)
THEOREM CompletedAreAnalysed == Spec => []CompletedWasAnalysed
<1>1. Sound => CompletedWasAnalysed
  BY DEF Sound, TableFit, Fit, Exists, CompletedWasAnalysed, WithStatus, PackageOfTask
<1> QED
  BY <1>1, AlwaysSound, PTL

------------------------------------------------------------------------------
(* No task is lost *)

(* A message of a task stays in the broker until a worker receives it; the *)
(* steps that hand a message back put it there.                            *)
LEMMA MessageStays ==
  ASSUME Sound, Next, NEW t \in Task, InBroker(t)
  PROVE  InBroker(t)' \/ Held(t, {"begin"})'
<1>1. PICK m \in Message : m.task = t /\ broker[m] > 0
  BY DEF InBroker
<1>2. CASE BrokerGrows
  <2>1. broker' \in [Message -> Nat] /\ broker'[m] >= broker[m]
    BY <1>2, BrokerStep DEF BrokerGrows
  <2>2. broker'[m] > 0
    BY <1>1, <2>1 DEF Sound, TypeOK, QueueTypeOK
  <2> QED
    BY <1>1, <2>2 DEF InBroker
<1>3. CASE \E w \in Worker : Receive(w)
  <2>1. PICK w \in Worker, n \in Message :
          /\ pc' = [pc EXCEPT ![w] = "begin"]
          /\ broker' = [broker EXCEPT ![n] = @ - 1]
          /\ job' = [job EXCEPT ![w] = n]
    BY <1>3 DEF Receive, Step
  <2>2. CASE n = m
    BY <1>1, <2>1, <2>2 DEF Held, Sound, TypeOK, QueueTypeOK, WorkersOK
  <2>3. CASE n # m
    BY <1>1, <2>1, <2>3 DEF InBroker, Sound, TypeOK, QueueTypeOK
  <2> QED
    BY <2>2, <2>3
<1> QED
  BY <1>2, <1>3, BrokerStep

LEMMA HandedBack ==
  ASSUME Sound, NEW w \in Worker, RetryBlocked(w) \/ Crash(w),
         NEW t \in Task, job[w].task = t
  PROVE  InBroker(t)'
<1>1. pc[w] \notin Free
  BY DEF RetryBlocked, Crash, End, Step, Free
<1>2. /\ job[w].retries \in 0 .. MaxRetries
      /\ job[w].retries < MaxRetries => job[w].retries + 1 \in 0 .. MaxRetries
  BY <1>1, JobType, ConstantsOK
<1>3. PICK r \in 0 .. MaxRetries : broker' = Send(broker, t, r)
  BY <1>2 DEF RetryBlocked, Crash
<1> DEFINE m == [task |-> t, retries |-> r]
<1>4. m \in Message /\ broker'[m] > 0
  BY <1>3, SendType DEF Sound, TypeOK, QueueTypeOK
<1>5. m.task = t
  OBVIOUS
<1> HIDE DEF m
<1> QED
  BY <1>4, <1>5 DEF InBroker

(* The steps that end an active row leave it neither queued nor running.   *)
LEMMA RowEnds ==
  ASSUME Sound, NEW w \in Worker, UseCache(w) \/ LinkReport(w) \/ MarkFailed(w)
  PROVE  row'[job[w].task].status \notin {"queued", "running"}
<1> DEFINE t == job[w].task
<1>1. pc[w] \notin Free /\ (pc[w] \in Recalling \/ MarkFailed(w))
  BY DEF UseCache, LinkReport, MarkFailed, Step, Free, Recalling, Working
<1>2. t \in Task /\ row[t] \in Row /\ (mem[w] \in Row \/ MarkFailed(w))
  BY <1>1, JobType, MemFit DEF Sound, TypeOK, QueueTypeOK, DbOK, CopyOf
<1>3. PICK o, st, r, e : /\ st \in {"completed", "failed"} /\ o \in Row
                         /\ row' = [row EXCEPT ![t] = Becomes(o, st, r, e)]
  <2>1. CASE UseCache(w)
    BY <1>2, <2>1 DEF UseCache, MarkFailed, Step
  <2>2. CASE LinkReport(w)
    <3>1. row' = [row EXCEPT ![t] = Becomes(mem[w], "completed", Latest, None)]
      BY <2>2 DEF LinkReport, Sound, TypeOK, QueueTypeOK, WorkersOK
    <3>2. mem[w] \in Row
      BY <1>2, <2>2 DEF LinkReport, MarkFailed, Step
    <3> QED
      BY <3>1, <3>2
  <2>3. CASE MarkFailed(w)
    <3>1. row' = [row EXCEPT ![t] = Becomes(row[t], "failed", row[t].report, error[w])]
      BY <1>2, <2>3 DEF MarkFailed, Sound, TypeOK, QueueTypeOK, DbOK
    <3> QED
      BY <1>2, <3>1
  <2> QED
    BY <2>1, <2>2, <2>3
<1>4. Becomes(o, st, r, e).status = st
  BY <1>3 DEF Becomes, Row
<1> QED
  BY <1>2, <1>3, <1>4 DEF Sound, TypeOK, QueueTypeOK, DbOK

(* A worker that has yet to end its task keeps the message until it takes  *)
(* one of the steps that end a message's life, and has yet to start it     *)
(* until it starts it.                                                     *)
Keeps(w) ==
  /\ pc'[w] \in ToEnd /\ job'[w] = job[w]
  /\ pc[w] \in ToStart => pc'[w] \in ToStart \/ Start(w)

UsualMoves(w) ==
  \/ Receive(w) \/ Work(w) \/ SoftTimeLimit(w) \/ Crash(w) \/ Recycle(w)
  \/ ScanTimeouts(w) \/ SaveTimeouts(w)

LEMMA HolderStays ==
  ASSUME Sound, NEW w \in Worker, pc[w] \in ToEnd, UsualMoves(w)
  PROVE  \/ Keeps(w)
         \/ RetryBlocked(w) \/ Crash(w) \/ SkipCompleted(w) \/ FailToMarkFailed(w)
         \/ UseCache(w) \/ LinkReport(w) \/ MarkFailed(w)
<1> USE DEF Sound, TypeOK, QueueTypeOK, WorkersOK
<1>1. ASSUME \/ ClaimMissing(w) \/ FailBlocked(w) \/ Claim(w) \/ ReuseResult(w)
             \/ Start(w) \/ StartContainer(w) \/ FinishAnalysis(w) \/ FailAnalysis(w)
             \/ SoftTimeLimit(w) \/ SaveReport(w) \/ SaveReportTwice(w)
             \/ LinkReportTwice(w) \/ SaveHeartbeat(w)
      PROVE  Keeps(w)
  BY <1>1 DEF ClaimMissing, FailBlocked, Claim, ReuseResult, Start, StartContainer,
       FinishAnalysis, SaveHeartbeat, FailAnalysis, SoftTimeLimit, SaveReport,
       SaveReportTwice, LinkReportTwice, Step, Raise, ToEnd, ToStart, Keeps
<1>2. /\ ~Receive(w) /\ ~Publish(w) /\ ~FailToPublish(w) /\ ~ProcessNext(w)
      /\ ~RetryFailed(w) /\ ~Finish(w) /\ ~Ack(w)
      /\ ~ScanTimeouts(w) /\ ~SaveTimeouts(w) /\ ~Recycle(w)
  BY DEF Receive, Publish, FailToPublish, ProcessNext, RetryFailed, Finish, Ack,
       ScanTimeouts, SaveTimeouts, Recycle, Step, End, ToEnd, ToStart
<1> HIDE DEF Sound, TypeOK, QueueTypeOK, WorkersOK
<1> QED
  BY <1>1, <1>2 DEF UsualMoves, Work, FirstTransaction, Analysis, Ending

(* Who makes a row running has it in hand.                                 *)
Starts(w) == Start(w) \/ SaveHeartbeat(w)
Takes(h)  == StartTask(h) \/ Heartbeat(h)

LEMMA NewRunning ==
  ASSUME Sound, Next, NEW t \in Task, row'[t].status = "running", row[t].status # "running"
  PROVE  \/ \E w \in Worker : Starts(w) /\ job[w].task = t
         \/ \E h \in Thread : Takes(h) /\ hand[h] = t
<1> DEFINE New == row'[t].status = "running" /\ row[t].status # "running"
<1>0. row \in [Task -> Row]
  BY DEF Sound, TypeOK, QueueTypeOK, DbOK
<1>1. ASSUME NEW u \in Task, NEW o, row' = [row EXCEPT ![u] = o], o.status # "running"
      PROVE  ~New
  BY <1>0, <1>1
<1>2. ASSUME NEW u, NEW o, row' = [row EXCEPT ![u] = o], New
      PROVE  t = u
  BY <1>0, <1>2
<1>3. ASSUME NEW w \in Worker, WorkerMoves(w), ~Starts(w)
      PROVE  ~New
  <2>1. CASE UNCHANGED row
    BY <2>1
  <2>2. CASE UseCache(w) \/ LinkReport(w) \/ MarkFailed(w)
    <3>1. row'[job[w].task].status # "running"
      BY <2>2, RowEnds
    <3>2. \E o : row' = [row EXCEPT ![job[w].task] = o]
      BY <2>2 DEF UseCache, LinkReport, MarkFailed
    <3> QED
      BY <1>2, <3>1, <3>2
  <2>3. CASE Publish(w)
    <3>1. pc[w] \in Recalling
      BY <2>3 DEF Publish, Step, Recalling, Working
    <3>2. job[w].task \in Task /\ mem[w] \in Row
      BY <3>1, MemFit, JobType DEF CopyOf
    <3>3. Becomes(mem[w], "completed", mem[w].report, None).status = "completed"
      BY <3>2 DEF Becomes, Row
    <3> QED
      BY <1>1, <2>3, <3>2, <3>3 DEF Publish
  <2>4. CASE SaveTimeouts(w)
    <3> DEFINE hit == \E x \in expired[w] : x.task = t
               old == CHOOSE x \in expired[w] : x.task = t
               new == Becomes(row[t], "failed", old.report, "timeout")
    <3>1. new.status = "failed"
      BY <1>0 DEF Becomes, Row
    <3>2. UNCHANGED row \/ row'[t] = IF hit THEN new ELSE row[t]
      BY <2>4 DEF SaveTimeouts
    <3> HIDE DEF hit, new
    <3> QED
      BY <3>1, <3>2
  <2> HIDE DEF New
  <2> QED
    BY <1>3, <2>1, <2>2, <2>3, <2>4
       DEF Starts, WorkerMoves, Receive, Work, Lost, Recycle, ScanTimeouts,
       FirstTransaction, Analysis, Ending, ClaimMissing, RetryBlocked, FailBlocked,
       SkipCompleted, Claim, ReuseResult, StartContainer, FinishAnalysis, FailAnalysis,
       SoftTimeLimit, SaveReport, SaveReportTwice, LinkReportTwice, FailToPublish,
       FailToMarkFailed, ProcessNext, RetryFailed, Finish, Ack, Crash, HardTimeLimit,
       dbVars
<1>4. ASSUME NEW c \in Client, ClientMoves(c)
      PROVE  ~New
  <2>1. CASE UNCHANGED row
    BY <2>1
  <2>2. CASE Create(c)
    <3>1. PICK u \in Task :
            row' = [row EXCEPT ![u].status = "pending", ![u].purl = req[c].purl,
                               ![u].priority = req[c].priority, ![u].key = req[c].key]
      BY <2>2 DEF Create, WithStatus
    <3> QED
      BY <1>0, <3>1 DEF Row
  <2>3. CASE Queue(c)
    <3>1. PICK now \in Task :
            row' = [row EXCEPT ![made[c]].status = "queued", ![made[c]].queued_at = now]
      BY <2>3 DEF Queue
    <3> QED
      BY <1>0, <3>1 DEF Row
  <2>4. CASE FailToSend(c)
    <3>1. made[c] \in Task
      BY <2>4 DEF FailToSend, Respond, Move, Sound, TypeOK, QueueTypeOK, ApiOK
    <3>2. Becomes(row[made[c]], "failed", None, "send").status = "failed"
      BY <1>0, <3>1 DEF Becomes, Row
    <3> QED
      BY <1>1, <2>4, <3>1, <3>2 DEF FailToSend
  <2> HIDE DEF New
  <2> QED
    BY <1>4, <2>1, <2>2, <2>3, <2>4
       DEF ClientMoves, Handle, Submit, ReplyCompleted, NoneCompleted, ReplyActive,
       NoneActive, ReplayKey, NewKey, CreateTwice, SendTask, Die, dbVars
<1>5. ASSUME NEW u \in Task, TableMoves(u)
      PROVE  ~New
  <2>1. CASE UNCHANGED row
    BY <2>1
  <2>2. CASE Cleanup(u)
    BY <1>0, <2>2 DEF Cleanup, NoRow
  <2> QED
    BY <1>5, <2>1, <2>2 DEF TableMoves, ContainerExits, dbVars
<1>6. ASSUME NEW h \in Thread, ThreadMoves(h), ~Takes(h)
      PROVE  ~New
  <2>1. CASE UNCHANGED row
    BY <2>1
  <2>2. CASE SaveUrl(h) \/ Fail(h)
    <3>1. /\ place[h] \in Processing /\ object[h].status # "running"
          /\ row' = [row EXCEPT ![hand[h]] = object[h]]
      BY <2>2 DEF SaveUrl, Fail, Save, Drop, Advance, Processing, Sound, ThreadFit
    <3> QED
      BY <1>1, <3>1, ObjectFit
  <2>3. CASE Complete(h)
    <3>1. place[h] \in Processing
      BY <2>3 DEF Complete, Advance, Processing
    <3>2. Becomes(object[h], "completed", Latest, None).status = "completed"
      BY <3>1, ObjectFit DEF Becomes, Row
    <3> QED
      BY <1>1, <2>3, <3>1, <3>2, ObjectFit DEF Complete, Save
  <2>4. CASE SaveQueue(h)
    <3>1. UNCHANGED row \/ row'[t] = row[t] \/ (row'[t] = seen[h][t] /\ seen[h][t] # None)
      BY <2>4 DEF SaveQueue
    <3> QED
      BY <3>1 DEF Sound, ThreadFit
  <2> HIDE DEF New
  <2> QED
    BY <1>6, <2>1, <2>2, <2>3, <2>4
       DEF Takes, ThreadMoves, Loop, StartWorker, CheckTimeouts, GetRunning, GetNext,
       GetNone, GetResult, GetError, StoreReport, StoreTwice, LoseReport, NoUrl,
       FailTwice, ReadQueue, Perish, queueVars, dbVars
<1>7. ASSUME NEW w \in Worker, Starts(w)
      PROVE  job[w].task = t
  BY <1>2, <1>7 DEF Starts, Start, SaveHeartbeat
<1>8. ASSUME NEW h \in Thread, Takes(h)
      PROVE  hand[h] = t
  BY <1>2, <1>8 DEF Takes, StartTask, Heartbeat, Save
<1> QED
  BY <1>3, <1>4, <1>5, <1>6, <1>7, <1>8, Movers

(* A worker that holds the task goes on holding it while others move.      *)
LEMMA HeldByOthers ==
  ASSUME Sound, NEW t \in Task, NEW S, NEW w \in Worker, pc[w] \in S, job[w].task = t,
         pc'[w] = pc[w], job'[w] = job[w]
  PROVE  Held(t, S)'
BY DEF Held

(* Whoever holds a task that is queued or running, and stays so, goes on   *)
(* holding it or hands its message back; but for task_time_limit.          *)
LEMMA HeldStays ==
  ASSUME Sound, NEW t \in Task, row[t].status \in {"queued", "running"},
         row'[t].status = row[t].status,
         NEW w \in Worker, pc[w] \in ToEnd, job[w].task = t, UsualMoves(w)
  PROVE  \/ InBroker(t)' \/ Held(t, ToEnd)'
<1>1. CASE Keeps(w)
  BY <1>1 DEF Held, Keeps
<1>2. CASE RetryBlocked(w) \/ Crash(w)
  BY <1>2, HandedBack
<1>3. ~SkipCompleted(w) /\ ~FailToMarkFailed(w)
  BY DEF SkipCompleted, FailToMarkFailed, Exists
<1>4. ~UseCache(w) /\ ~LinkReport(w) /\ ~MarkFailed(w)
  BY RowEnds
<1> QED
  BY <1>1, <1>2, <1>3, <1>4, HolderStays

(* The same of a queued task: only its start moves it beyond ToStart.      *)
LEMMA QueuedHeldStays ==
  ASSUME Sound, Next, NEW t \in Task, row[t].status = "queued", row'[t].status = "queued",
         NEW w \in Worker, pc[w] \in ToStart, job[w].task = t, UsualMoves(w)
  PROVE  InBroker(t)' \/ Held(t, ToStart)'
<1>1. pc[w] \in ToEnd /\ pc[w] \notin Free
  BY DEF ToEnd, ToStart, Free
<1>2. CASE RetryBlocked(w) \/ Crash(w)
  BY <1>2, HandedBack
<1>3. ~SkipCompleted(w) /\ ~FailToMarkFailed(w)
  BY DEF SkipCompleted, FailToMarkFailed, Exists
<1>4. ~UseCache(w) /\ ~LinkReport(w) /\ ~MarkFailed(w)
  BY RowEnds
<1>5. ~Start(w)
  <2>1. ASSUME Start(w)
        PROVE  row'[t].status = "running"
    <3>1. pc[w] \in Recalling /\ w \in Worker \cup Thread
      BY <2>1 DEF Start, Step, Recalling, Working
    <3>2. Running(mem[w], w).status = "running"
      BY <3>1, MemFit, RunningFit
    <3>3. row' = [row EXCEPT ![t] = Running(mem[w], w)]
      BY <2>1 DEF Start, Sound, TypeOK, QueueTypeOK, WorkersOK
    <3> QED
      BY <3>2, <3>3 DEF Sound, TypeOK, QueueTypeOK, DbOK
  <2> QED
    BY <2>1
<1>6. CASE Keeps(w)
  BY <1>5, <1>6 DEF Held, Keeps
<1> QED
  BY <1>1, <1>2, <1>3, <1>4, <1>6, HolderStays

(* The request that queued a row sends its message, fails the row, or dies.*)
LEMMA SenderStays ==
  ASSUME Sound, Next, NEW t \in Task, row'[t].status = "queued",
         NEW c \in Client, at[c] \in {"send", "dead"}, made[c] = t
  PROVE  InBroker(t)' \/ (at'[c] \in {"send", "dead"} /\ made'[c] = t)
<1> DEFINE Waits == at'[c] \in {"send", "dead"} /\ made'[c] = t
<1>1. ApiOK /\ TypeOK /\ ThreadsOK /\ row \in [Task -> Row] /\ broker \in [Message -> Nat]
  BY DEF Sound, TypeOK, QueueTypeOK, DbOK
<1>2. ASSUME SendTask(c)
      PROVE  InBroker(t)'
  <2>1. broker' = Send(broker, t, 0) /\ 0 \in 0 .. MaxRetries
    BY <1>2, ConstantsOK DEF SendTask
  <2> DEFINE m == [task |-> t, retries |-> 0]
  <2>2. m \in Message /\ broker'[m] > 0
    BY <1>1, <2>1, SendType
  <2>3. m.task = t
    OBVIOUS
  <2> HIDE DEF m
  <2> QED
    BY <2>2, <2>3 DEF InBroker
<1>3. ~FailToSend(c)
  <2>1. ASSUME FailToSend(c)
        PROVE  row'[t].status = "failed"
    BY <1>1, <2>1 DEF FailToSend, Becomes, Row
  <2> QED
    BY <2>1
<1>4. Die(c) => Waits
  BY <1>1 DEF Die, ApiOK
<1>5. ~Submit(c) /\ (Handle(c) => SendTask(c))
  BY DEF Submit, Handle, ReplyCompleted, NoneCompleted, ReplyActive, NoneActive,
       ReplayKey, NewKey, Create, CreateTwice, Queue, Move, Respond
<1>6. ASSUME NEW d \in Client, ClientMoves(d), d # c
      PROVE  Waits
  BY <1>1, <1>6, ClientFrame
<1>7. UNCHANGED apiVars => Waits
  BY DEF apiVars
<1> HIDE DEF Waits
<1>8. UNCHANGED apiVars \/ \E d \in Client : ClientMoves(d)
  BY <1>1, Movers, WorkerFrame, TableFrame, ThreadFrame
<1>9. Waits \/ InBroker(t)'
  BY <1>2, <1>3, <1>4, <1>5, <1>6, <1>7, <1>8 DEF ClientMoves
<1> QED
  BY <1>9 DEF Waits

(* A row that was saved back as queued has run, for no other is saved as   *)
(* queued but by the request that made it.                                 *)
LEMMA NewQueued ==
  ASSUME Sound, Next, NEW t \in Task, row'[t].status = "queued", row[t].status # "queued"
  PROVE  \/ \E c \in Client : at'[c] = "send" /\ made'[c] = t
         \/ t \in revived'
<1>1. \E lost : Follow(lost)
  BY DEF Next, WorkerStep, KillStep, ClientStep, TableStep, ThreadStep, PerishStep
<1>2. CASE CopyOf(t, row'[t])
  BY <1>1, <1>2 DEF CopyOf, Alive, Follow
<1>3. CASE Enqueued(t)
  <2>1. PICK c \in Client : Queue(c) /\ made[c] = t
    BY <1>3 DEF Enqueued
  <2> QED
    BY <2>1 DEF Queue, Move, Sound, TypeOK, QueueTypeOK, ApiOK
<1> QED
  BY <1>2, <1>3, RowStep DEF RowsMove, Moved, Created, Removed

(* No queued task is forgotten, whatever faults happen and whatever the    *)
(* threads do to its row: run_dynamic_analysis acks a message late,        *)
(* retries with a new one, or has changed the status of the row; the only  *)
(* queued rows without a message are those a thread saved back.            *)
THEOREM QueuedIsNotLost == Spec => []NoLostTask
<1>1. Init => NoLostTask
  BY DEF Init, QueueInit, NoLostTask, WithStatus, NoRow
<1>2. Sound /\ NoLostTask /\ [Next]_vars => NoLostTask'
  <2> SUFFICES ASSUME Sound, NoLostTask, [Next]_vars
               PROVE  NoLostTask'
    OBVIOUS
  <2>1. CASE Next
    <3> DEFINE Known(t) == \/ InBroker(t)' \/ Held(t, ToStart)'
                           \/ \E c \in Client : at'[c] \in {"send", "dead"} /\ made'[c] = t
                           \/ t \in revived'
    <3> SUFFICES ASSUME NEW t \in Task, row'[t].status = "queued"
                 PROVE  Known(t)
      BY DEF NoLostTask, WithStatus
    <3>1. CASE row[t].status # "queued"
      BY <2>1, <3>1, NewQueued
    <3>2. CASE row[t].status = "queued" /\ InBroker(t)
      <4>1. Held(t, {"begin"})' => Held(t, ToStart)'
        BY DEF Held, ToStart
      <4> QED
        BY <2>1, <3>2, <4>1, MessageStays
    <3>3. CASE row[t].status = "queued" /\ Held(t, ToStart)
      <4>1. PICK w \in Worker : pc[w] \in ToStart /\ job[w].task = t
        BY <3>3 DEF Held
      <4>2. CASE pc'[w] = pc[w] /\ job'[w] = job[w]
        BY <4>1, <4>2, HeldByOthers
      <4>3. CASE UsualMoves(w)
        BY <2>1, <3>3, <4>1, <4>3, QueuedHeldStays
      <4>4. ~HardTimeLimit(w)
        BY <4>1 DEF HardTimeLimit, ToStart
      <4>5. UsualMoves(w) \/ HardTimeLimit(w) \/ (pc'[w] = pc[w] /\ job'[w] = job[w])
        <5>1. TypeOK /\ ThreadsOK
          BY DEF Sound, TypeOK
        <5>2. ASSUME NEW v \in Worker, WorkerMoves(v), v # w
              PROVE  pc'[w] = pc[w] /\ job'[w] = job[w]
          BY <5>1, <5>2, WorkerFrame DEF Others
        <5> QED
          BY <2>1, <5>1, <5>2, Movers, ClientFrame, TableFrame, ThreadFrame
             DEF WorkerMoves, UsualMoves, Lost, workerVars
      <4> QED
        BY <4>2, <4>3, <4>4, <4>5
    <3>4. ASSUME NEW c \in Client, at[c] \in {"send", "dead"}, made[c] = t
          PROVE  Known(t)
      BY <2>1, <3>4, SenderStays
    <3>5. CASE row[t].status = "queued" /\ t \in revived
      <4>1. \E lost : Follow(lost)
        BY <2>1 DEF Next, WorkerStep, KillStep, ClientStep, TableStep, ThreadStep, PerishStep
      <4> QED
        BY <3>5, <4>1 DEF Follow
    <3> QED
      BY <3>1, <3>2, <3>3, <3>4, <3>5 DEF NoLostTask, WithStatus
  <2>2. CASE UNCHANGED vars
    BY <2>2 DEF vars, queueVars, dbVars, workerVars, apiVars, NoLostTask, WithStatus,
       InBroker, Held
  <2> QED
    BY <2>1, <2>2
<1> QED
  BY <1>1, <1>2, AlwaysSound, PTL DEF Spec

(* A thread that has a running task in hand keeps it until the row has     *)
(* ended.                                                                  *)
HasInHand(h, t) == hand[h] = t /\ place[h] \in Processing \ {"start", "publishing"}

LEMMA HandStays ==
  ASSUME Sound, NEW t \in Task, row'[t].status = "running",
         NEW h \in Thread, HasInHand(h, t), Loop(h)
  PROVE  HasInHand(h, t)'
<1>1. ThreadsOK /\ row \in [Task -> Row]
  BY DEF Sound, TypeOK, QueueTypeOK, DbOK
<1>2. CASE GetResult(h) \/ GetError(h) \/ Heartbeat(h) \/ StoreReport(h) \/ StoreTwice(h)
             \/ LoseReport(h)
  BY <1>1, <1>2 DEF GetResult, GetError, Heartbeat, StoreReport, StoreTwice, LoseReport,
     FailWith, Advance, HasInHand, ThreadsOK, Processing, queueVars
<1>3. ~Complete(h)
  <2>1. ASSUME Complete(h)
        PROVE  row'[t].status = "completed"
    <3>1. row' = [row EXCEPT ![t] = Becomes(object[h], "completed", Latest, None)]
      BY <2>1 DEF Complete, Save, HasInHand
    <3>2. Becomes(object[h], "completed", Latest, None).status = "completed"
      BY ObjectFit DEF HasInHand, Becomes, Row
    <3> QED
      BY <1>1, <3>1, <3>2
  <2> QED
    BY <2>1
<1>4. ~Fail(h)
  <2>1. ASSUME Fail(h)
        PROVE  row'[t].status = "failed"
    BY <1>1, <2>1 DEF Fail, Drop, Advance, Save, HasInHand, Sound, ThreadFit
  <2> QED
    BY <2>1
<1>5. /\ ~StartWorker(h) /\ ~CheckTimeouts(h) /\ ~GetRunning(h) /\ ~GetNext(h) /\ ~GetNone(h)
      /\ ~StartTask(h) /\ ~SaveUrl(h) /\ ~NoUrl(h) /\ ~ReadQueue(h) /\ ~SaveQueue(h)
  BY DEF StartWorker, CheckTimeouts, GetRunning, GetNext, GetNone, StartTask, SaveUrl, NoUrl,
     ReadQueue, SaveQueue, Advance, Drop, HasInHand, Processing
<1> QED
  BY <1>2, <1>3, <1>4, <1>5 DEF Loop

(* A running task always has a worker, a message or a thread, whatever     *)
(* faults happen, unless a kill of its worker, the end of its thread's     *)
(* process, or a failure its thread could not save has left it: only these *)
(* make check_timeouts necessary.                                          *)
THEOREM RunningIsWorkedOn == Spec => []RunningIsOwned
<1>1. Init => RunningIsOwned
  BY DEF Init, QueueInit, RunningIsOwned, WithStatus, NoRow
<1>2. Sound /\ RunningIsOwned /\ [Next]_vars => RunningIsOwned'
  <2> SUFFICES ASSUME Sound, RunningIsOwned, [Next]_vars
               PROVE  RunningIsOwned'
    OBVIOUS
  <2>1. CASE Next
    <3> DEFINE Owned(t) == InBroker(t)' \/ Held(t, ToEnd)' \/ InHand(t)' \/ t \in left'
    <3> SUFFICES ASSUME NEW t \in Task, row'[t].status = "running"
                 PROVE  Owned(t)
      BY DEF RunningIsOwned, WithStatus
    <3>0. TypeOK /\ ThreadsOK /\ WorkersOK
      BY DEF Sound, TypeOK, QueueTypeOK
    <3>1. CASE row[t].status # "running"
      <4>1. ASSUME NEW w \in Worker, Starts(w), job[w].task = t
            PROVE  Held(t, ToEnd)'
        <5>1. pc'[w] \in {"started", "saving"} /\ job'[w] = job[w]
          BY <3>0, <4>1 DEF Starts, Start, SaveHeartbeat, Step, WorkersOK
        <5> QED
          BY <4>1, <5>1 DEF Held, ToEnd
      <4>2. ASSUME NEW h \in Thread, Takes(h), hand[h] = t
            PROVE  InHand(t)'
        <5>1. place'[h] \in {"analyzing", "saving"} /\ hand'[h] = t
          BY <3>0, <4>2 DEF Takes, StartTask, Heartbeat, Advance, ThreadsOK
        <5> QED
          BY <5>1 DEF InHand, Processing
      <4> QED
        BY <2>1, <3>1, <4>1, <4>2, NewRunning
    <3>2. CASE row[t].status = "running" /\ InBroker(t)
      <4>1. Held(t, {"begin"})' => Held(t, ToEnd)'
        BY DEF Held, ToStart, ToEnd
      <4> QED
        BY <2>1, <3>2, <4>1, MessageStays
    <3>3. ASSUME row[t].status = "running", NEW w \in Worker, pc[w] \in ToEnd, job[w].task = t
          PROVE  Owned(t)
      <4>1. CASE pc'[w] = pc[w] /\ job'[w] = job[w]
        BY <3>3, <4>1, HeldByOthers
      <4>2. ASSUME NEW v \in Worker, WorkerMoves(v), v # w
            PROVE  pc'[w] = pc[w] /\ job'[w] = job[w]
        BY <3>0, <4>2, WorkerFrame DEF Others
      <4>3. CASE WorkerStep
        <5>1. PICK v \in Worker : UsualMoves(v)
          BY <4>3 DEF WorkerStep, UsualMoves
        <5>2. CASE v = w
          BY <3>3, <5>1, <5>2, HeldStays
        <5> QED
          BY <4>1, <4>2, <5>1, <5>2 DEF UsualMoves, WorkerMoves, Lost
      <4>4. CASE KillStep
        <5>1. PICK v \in Worker : HardTimeLimit(v) /\ Follow({job[v].task})
          BY <4>4 DEF KillStep
        <5>2. CASE v = w
          BY <3>3, <5>1, <5>2 DEF Follow
        <5> QED
          BY <4>1, <4>2, <5>1, <5>2 DEF WorkerMoves, Lost
      <4>5. CASE ClientStep \/ TableStep \/ (\E h \in Thread : ThreadStep(h)) \/ PerishStep
        <5>1. UNCHANGED workerVars
          BY <3>0, <4>5, ClientFrame, TableFrame, ThreadFrame
             DEF ClientStep, TableStep, ThreadStep, PerishStep, ClientMoves, TableMoves,
                 ThreadMoves
        <5> QED
          BY <4>1, <5>1 DEF workerVars
      <4> QED
        BY <2>1, <4>3, <4>4, <4>5 DEF Next
    <3>4. ASSUME NEW h \in Thread, HasInHand(h, t)
          PROVE  Owned(t)
      <4>1. CASE HasInHand(h, t)'
        BY <4>1 DEF HasInHand, InHand
      <4>2. CASE UNCHANGED threadVars
        BY <3>4, <4>1, <4>2 DEF threadVars, HasInHand
      <4>3. ASSUME NEW g \in Thread, ThreadMoves(g), g # h
            PROVE  HasInHand(h, t)'
        BY <3>0, <3>4, <4>3, ThreadFrame DEF HasInHand
      <4>4. ASSUME NEW g \in Thread, ThreadStep(g)
            PROVE  Owned(t)
        <5>1. CASE g # h
          BY <4>1, <4>3, <4>4, <5>1 DEF ThreadStep, ThreadMoves
        <5>2. CASE g = h /\ Loop(h)
          BY <3>4, <4>1, <5>2, HandStays
        <5>3. CASE g = h /\ Follow({hand[h]})
          BY <3>4, <5>3 DEF Follow, HasInHand
        <5> QED
          BY <4>4, <5>1, <5>2, <5>3 DEF ThreadStep
      <4>5. CASE PerishStep
        <5>1. PICK g \in Thread : Perish(g) /\ Follow({hand[g]})
          BY <4>5 DEF PerishStep
        <5>2. CASE g = h
          BY <3>4, <5>1, <5>2 DEF Follow, HasInHand
        <5> QED
          BY <4>1, <4>3, <5>1, <5>2 DEF ThreadMoves
      <4> QED
        BY <2>1, <4>2, <4>4, <4>5 DEF Next, WorkerStep, KillStep, ClientStep, TableStep
    <3>5. CASE t \in left
      <4>1. \E lost : Follow(lost)
        BY <2>1 DEF Next, WorkerStep, KillStep, ClientStep, TableStep, ThreadStep, PerishStep
      <4> QED
        BY <3>5, <4>1 DEF Follow
    <3> QED
      BY <3>1, <3>2, <3>3, <3>4, <3>5
         DEF RunningIsOwned, WithStatus, Held, InHand, HasInHand
  <2>2. CASE UNCHANGED vars
    BY <2>2 DEF vars, queueVars, dbVars, workerVars, threadVars, RunningIsOwned, WithStatus,
       InBroker, Held, InHand
  <2> QED
    BY <2>1, <2>2
<1> QED
  BY <1>1, <1>2, AlwaysSound, PTL DEF Spec

------------------------------------------------------------------------------
(* The two queues implement the lifecycle *)

Statuses == [t \in Task |-> row[t].status]
Purls    == [t \in Task |-> row[t].purl]
Results  == [t \in Task |-> row[t].report]

(* What a step that changes one row does to the three columns              *)
LEMMA OneChange ==
  ASSUME NEW t \in Task, \A u \in Task \ {t} : row'[u] = row[u]
  PROVE  /\ Statuses' = [Statuses EXCEPT ![t] = row'[t].status]
         /\ Purls' = [Purls EXCEPT ![t] = row'[t].purl]
         /\ Results' = [Results EXCEPT ![t] = row'[t].report]
         /\ row'[t].purl = row[t].purl => Purls' = Purls
         /\ row'[t].report = row[t].report => Results' = Results
BY DEF Statuses, Purls, Results

(* ... and several rows that are saved as failed or as queued              *)
LEMMA ManyStep ==
  ASSUME Sound, NEW T \in SUBSET Task, UNCHANGED analysed,
         \A t \in T : CopyOf(t, row'[t]) /\ row'[t].status \in {"queued", "failed"},
         \A t \in Task \ T : row'[t] = row[t]
  PROVE  Lifecycle!Next \/ UNCHANGED Lifecycle!vars
<1>1. CASE T = {}
  <2>1. Statuses' = Statuses /\ Purls' = Purls /\ Results' = Results
    BY <1>1 DEF Statuses, Purls, Results
  <2> QED
    BY <2>1 DEF Lifecycle!vars, Statuses, Purls, Results
<1>2. CASE T # {}
  <2>1. PICK late \in SUBSET Task, queue \in SUBSET Task :
          /\ late = {t \in T : row'[t].status = "failed"}
          /\ queue = {t \in T : row'[t].status = "queued"}
    OBVIOUS
  <2> DEFINE r == [t \in late |-> row'[t].report]
  <2>2. late \cup queue # {} /\ late \cap queue = {} /\ late \cup queue = T
    BY <1>2, <2>1
  <2>3. \A t \in late \cup queue : Statuses[t] \in Lifecycle!Live
    BY <2>2 DEF CopyOf, Alive, Lifecycle!Live, Statuses
  <2>4. Statuses' = [t \in Task |-> IF t \in late THEN "failed"
                                    ELSE IF t \in queue THEN "queued" ELSE Statuses[t]]
    BY <2>1, <2>2 DEF Statuses
  <2>5. r \in [late -> analysed \cup {None}]
    BY <2>1 DEF CopyOf, Fit
  <2>6. Results' = [t \in Task |-> IF t \in late THEN r[t]
                                   ELSE IF t \in queue THEN None ELSE Results[t]]
    <3>1. \A t \in queue : row'[t].report = None
      BY <2>1 DEF CopyOf, Fit
    <3>2. \A t \in late : row'[t].report = r[t]
      OBVIOUS
    <3> HIDE DEF r
    <3> QED
      BY <2>1, <2>2, <3>1, <3>2 DEF Results
  <2>7. Purls' = Purls
    BY DEF Purls, CopyOf
  <2> HIDE DEF r
  <2>8. Lifecycle!SaveMany(late, queue)
    BY <2>2, <2>3, <2>4, <2>5, <2>6, <2>7 DEF Lifecycle!SaveMany, Statuses, Results, Purls
  <2> QED
    BY <2>8 DEF Lifecycle!Next
<1> QED
  BY <1>1, <1>2

LEMMA OneStep ==
  ASSUME Sound, RowsMove, UNCHANGED analysed,
         NEW t \in Task, \A u \in Task \ {t} : row'[u] = row[u]
  PROVE  Lifecycle!Next \/ UNCHANGED Lifecycle!vars
<1>1. CASE row'[t] = row[t]
  <2>1. Statuses' = Statuses /\ Purls' = Purls /\ Results' = Results
    BY <1>1 DEF Statuses, Purls, Results
  <2> QED
    BY <2>1 DEF Lifecycle!vars, Statuses, Purls, Results
<1>2. CASE CopyOf(t, row'[t]) /\ row'[t].status \in {"queued", "failed"}
  <2> DEFINE T == {t}
  <2>1. /\ T \in SUBSET Task
        /\ \A u \in T : CopyOf(u, row'[u]) /\ row'[u].status \in {"queued", "failed"}
        /\ \A u \in Task \ T : row'[u] = row[u]
    BY <1>2
  <2> HIDE DEF T
  <2> QED
    BY <2>1, ManyStep
<1>3. CASE CopyOf(t, row'[t]) /\ row'[t].status \in {"running", "completed"}
  <2>1. /\ Statuses' = [Statuses EXCEPT ![t] = row'[t].status]
        /\ Results' = [Results EXCEPT ![t] = row'[t].report]
        /\ Purls' = Purls
    BY <1>3, OneChange DEF CopyOf
  <2>2. Statuses[t] \in Lifecycle!Live
    BY <1>3 DEF CopyOf, Alive, Lifecycle!Live, Statuses
  <2>3. row'[t].report \in analysed \cup {None}
    BY <1>3 DEF CopyOf, Fit
  <2>4. row'[t].status = "completed" => PackageOf[Purls[t]] \in analysed
    BY <1>3 DEF CopyOf, Fit, Purls
  <2>5. Lifecycle!Save(t)
    BY <1>3, <2>1, <2>2, <2>3, <2>4
       DEF Lifecycle!Save, Lifecycle!Become, Statuses, Results, Purls
  <2> QED
    BY <2>5 DEF Lifecycle!Next
<1>4. CASE Created(t)
  <2>1. row[t].report = None
    BY <1>4 DEF Created, Sound, TableFit, Exists
  <2>2. /\ Statuses' = [Statuses EXCEPT ![t] = "pending"]
        /\ Purls' = [Purls EXCEPT ![t] = row'[t].purl]
        /\ Results' = Results
    BY <1>4, <2>1, OneChange DEF Created
  <2>3. Statuses[t] = "absent" /\ row'[t].purl \in Purl
    BY <1>4 DEF Created, Statuses
  <2>4. Lifecycle!Create(t)
    BY <2>2, <2>3 DEF Lifecycle!Create, Lifecycle!Become, Statuses, Results, Purls
  <2> QED
    BY <2>4 DEF Lifecycle!Next
<1>5. CASE Enqueued(t)
  <2>1. /\ Statuses' = [Statuses EXCEPT ![t] = "queued"]
        /\ Purls' = Purls /\ Results' = Results
    BY <1>5, OneChange DEF Enqueued
  <2>2. Statuses[t] = "pending"
    BY <1>5 DEF Enqueued, Statuses
  <2>3. Lifecycle!Queue(t)
    BY <2>1, <2>2 DEF Lifecycle!Queue, Lifecycle!Become, Statuses, Results, Purls
  <2> QED
    BY <2>3 DEF Lifecycle!Next
<1>6. CASE Removed(t)
  <2>1. /\ Statuses' = [Statuses EXCEPT ![t] = "deleted"]
        /\ Purls' = [Purls EXCEPT ![t] = None]
        /\ Results' = [Results EXCEPT ![t] = None]
    BY <1>6, OneChange DEF Removed
  <2>2. Statuses[t] \in Lifecycle!Ended
    BY <1>6 DEF Removed, Cleanup, Statuses, Lifecycle!Ended
  <2>3. Lifecycle!Remove(t)
    BY <2>1, <2>2 DEF Lifecycle!Remove, Lifecycle!Become, Statuses, Results, Purls
  <2> QED
    BY <2>3 DEF Lifecycle!Next
<1>7. CopyOf(t, row'[t]) =>
        row'[t].status \in {"queued", "failed"} \/ row'[t].status \in {"running", "completed"}
  BY DEF CopyOf, Alive
<1> QED
  BY <1>1, <1>2, <1>3, <1>4, <1>5, <1>6, <1>7 DEF RowsMove, Moved

LEMMA AnalyseStep ==
  ASSUME NEW t \in Task, row[t].status \in Alive, UNCHANGED row,
         analysed' = analysed \cup {PackageOfTask(t)}
  PROVE  Lifecycle!Next
<1>1. Statuses' = Statuses /\ Purls' = Purls /\ Results' = Results
  BY DEF Statuses, Purls, Results
<1>2. Statuses[t] \in Lifecycle!Live /\ PackageOf[Purls[t]] = PackageOfTask(t)
  BY DEF Statuses, Purls, Lifecycle!Live, Alive, PackageOfTask
<1>3. Lifecycle!Analyse(t)
  BY <1>1, <1>2 DEF Lifecycle!Analyse, Statuses, Purls, Results
<1> QED
  BY <1>3 DEF Lifecycle!Next

(* A step changes one row at most, or it is one of the two that save all   *)
(* the rows of a list.                                                     *)
OneRow == \E t \in Task : \A u \in Task \ {t} : row'[u] = row[u]

LEMMA Shape ==
  ASSUME Sound, Next
  PROVE  \/ UNCHANGED row
         \/ OneRow
         \/ \E w \in Worker : SaveTimeouts(w)
         \/ \E h \in Thread : SaveQueue(h)
<1>1. row \in [Task -> Row]
  BY DEF Sound, TypeOK, QueueTypeOK, DbOK
<1>2. ASSUME NEW t \in Task, NEW o, row' = [row EXCEPT ![t] = o]
      PROVE  OneRow
  BY <1>1, <1>2 DEF OneRow
<1>3. ASSUME NEW w \in Worker, WorkerMoves(w)
      PROVE  UNCHANGED row \/ OneRow \/ SaveTimeouts(w)
  <2>1. CASE Start(w) \/ UseCache(w) \/ SaveHeartbeat(w) \/ LinkReport(w) \/ Publish(w)
             \/ MarkFailed(w)
    <3>1. pc[w] \notin Free
      BY <2>1 DEF Start, UseCache, SaveHeartbeat, LinkReport, Publish, MarkFailed, Step, Free
    <3>2. job[w].task \in Task
      BY <3>1, JobType
    <3>3. \E o : row' = [row EXCEPT ![job[w].task] = o]
      BY <1>1, <2>1, <3>2 DEF Start, UseCache, SaveHeartbeat, LinkReport, Publish, MarkFailed
    <3> QED
      BY <1>2, <3>2, <3>3
  <2> QED
    BY <1>3, <2>1
       DEF WorkerMoves, Receive, Work, Lost, Recycle, ScanTimeouts,
       FirstTransaction, Analysis, Ending, ClaimMissing, RetryBlocked, FailBlocked,
       SkipCompleted, Claim, ReuseResult, StartContainer, FinishAnalysis, FailAnalysis,
       SoftTimeLimit, SaveReport, SaveReportTwice, LinkReportTwice, FailToPublish,
       FailToMarkFailed, ProcessNext, RetryFailed, Finish, Ack, Crash, HardTimeLimit,
       dbVars
<1>4. ASSUME NEW c \in Client, ClientMoves(c)
      PROVE  UNCHANGED row \/ OneRow
  <2>1. CASE Create(c)
    <3>1. PICK t \in Task :
            row' = [row EXCEPT ![t].status = "pending", ![t].purl = req[c].purl,
                               ![t].priority = req[c].priority, ![t].key = req[c].key]
      BY <2>1 DEF Create, WithStatus
    <3> QED
      BY <1>1, <3>1 DEF OneRow
  <2>2. CASE Queue(c)
    <3>1. PICK now \in Task :
            row' = [row EXCEPT ![made[c]].status = "queued", ![made[c]].queued_at = now]
      BY <2>2 DEF Queue
    <3>2. made[c] \in Task
      BY <2>2 DEF Queue, Move, Sound, TypeOK, QueueTypeOK, ApiOK
    <3> QED
      BY <1>1, <3>1, <3>2 DEF OneRow
  <2>3. CASE FailToSend(c)
    <3>1. made[c] \in Task
      BY <2>3 DEF FailToSend, Respond, Move, Sound, TypeOK, QueueTypeOK, ApiOK
    <3> QED
      BY <1>1, <2>3, <3>1 DEF FailToSend, OneRow
  <2> QED
    BY <1>4, <2>1, <2>2, <2>3
       DEF ClientMoves, Handle, Submit, ReplyCompleted, NoneCompleted, ReplyActive,
       NoneActive, ReplayKey, NewKey, CreateTwice, SendTask, Die, dbVars
<1>5. ASSUME NEW t \in Task, TableMoves(t)
      PROVE  UNCHANGED row \/ OneRow
  BY <1>1, <1>5 DEF TableMoves, ContainerExits, Cleanup, OneRow, dbVars
<1>6. ASSUME NEW h \in Thread, ThreadMoves(h)
      PROVE  UNCHANGED row \/ OneRow \/ SaveQueue(h)
  <2>1. CASE StartTask(h) \/ Heartbeat(h) \/ Complete(h) \/ SaveUrl(h) \/ Fail(h)
    <3>1. place[h] \in Processing
      BY <2>1 DEF StartTask, Heartbeat, Complete, SaveUrl, Fail, Drop, Advance, Processing
    <3>2. \E o : row' = [row EXCEPT ![hand[h]] = o]
      BY <2>1 DEF StartTask, Heartbeat, Complete, SaveUrl, Fail, Save
    <3> QED
      BY <1>2, <3>1, <3>2, ObjectFit
  <2> QED
    BY <1>6, <2>1
       DEF ThreadMoves, Loop, StartWorker, CheckTimeouts, GetRunning, GetNext,
       GetNone, GetResult, GetError, StoreReport, StoreTwice, LoseReport, NoUrl,
       FailTwice, ReadQueue, Perish, queueVars, dbVars
<1> QED
  BY <1>3, <1>4, <1>5, <1>6, Movers

LEMMA LifecycleStep ==
  ASSUME Sound, Next
  PROVE  Lifecycle!Next \/ UNCHANGED Lifecycle!vars
<1>1. RowsMove /\ TypeOK /\ ThreadsOK
  BY RowStep DEF Sound, TypeOK
<1>2. ASSUME NEW w \in Worker, FinishAnalysis(w)
      PROVE  Lifecycle!Next
  <2>1. pc[w] = "analyzing" /\ pc[w] \notin Free
    BY <1>2 DEF FinishAnalysis, Step, Free
  <2>2. job[w].task \in Task /\ row[job[w].task].status \in Alive
    BY <2>1, JobType DEF Sound, WorkerFit
  <2> QED
    BY <1>2, <2>2, AnalyseStep DEF FinishAnalysis, dbVars
<1>3. ASSUME NEW h \in Thread, GetResult(h)
      PROVE  Lifecycle!Next
  <2>1. place[h] \in Processing
    BY <1>3 DEF GetResult, Advance, Processing
  <2> QED
    BY <1>3, <2>1, ObjectFit, AnalyseStep DEF GetResult, CopyOf, dbVars
<1>4. CASE UNCHANGED analysed
  <2>1. CASE UNCHANGED row
    <3>1. Statuses' = Statuses /\ Purls' = Purls /\ Results' = Results
      BY <2>1 DEF Statuses, Purls, Results
    <3> QED
      BY <1>4, <3>1 DEF Lifecycle!vars, Statuses, Purls, Results
  <2>2. CASE OneRow
    BY <1>1, <1>4, <2>2, OneStep DEF OneRow
  <2>3. ASSUME NEW w \in Worker, SaveTimeouts(w)
        PROVE  Lifecycle!Next \/ UNCHANGED Lifecycle!vars
    <3> DEFINE hit(t) == \E x \in expired[w] : x.task = t
               old(t) == CHOOSE x \in expired[w] : x.task = t
               new(t) == Becomes(row[t], "failed", old(t).report, "timeout")
    <3>1. CASE UNCHANGED row
      BY <2>1, <3>1
    <3>2. CASE row' # row
      <4>1. row' = [t \in Task |-> IF hit(t) THEN new(t) ELSE row[t]]
        BY <2>3, <3>2 DEF SaveTimeouts
      <4>2. \A t \in Task : new(t).status = "failed"
        BY <1>1 DEF Becomes, TypeOK, QueueTypeOK, DbOK, Row
      <4> DEFINE C == {t \in Task : row'[t] # row[t]}
      <4>3. \A t \in C : row'[t].status = "failed"
        <5> HIDE DEF hit, new
        <5> QED
          BY <4>1, <4>2
      <4>4. \A t \in C : CopyOf(t, row'[t])
        BY <1>1, <4>3 DEF RowsMove, Moved, Created, Enqueued, Removed
      <4>5. C \in SUBSET Task /\ \A t \in Task \ C : row'[t] = row[t]
        OBVIOUS
      <4> HIDE DEF C
      <4> QED
        BY <1>4, <4>3, <4>4, <4>5, ManyStep
    <3> QED
      BY <3>1, <3>2
  <2>4. ASSUME NEW h \in Thread, SaveQueue(h)
        PROVE  Lifecycle!Next \/ UNCHANGED Lifecycle!vars
    <3> DEFINE C == {t \in Task : row'[t] # row[t]}
    <3>1. ASSUME NEW t \in C
          PROVE  CopyOf(t, row'[t]) /\ row'[t].status \in {"queued", "failed"}
      <4>1. row'[t] = seen[h][t] /\ seen[h][t] # None
        BY <2>4, <3>1 DEF SaveQueue
      <4> QED
        BY <4>1 DEF Sound, ThreadFit
    <3>2. C \in SUBSET Task /\ \A t \in Task \ C : row'[t] = row[t]
      OBVIOUS
    <3> HIDE DEF C
    <3> QED
      BY <1>4, <3>1, <3>2, ManyStep
  <2> QED
    BY <2>1, <2>2, <2>3, <2>4, Shape
<1> QED
  BY <1>1, <1>2, <1>3, <1>4, Movers, WorkerFrame, ClientFrame, TableFrame, ThreadFrame
     DEF limitVars

(* Workers and threads together keep the lifecycle of a task: whatever     *)
(* stale rows they save, a task leaves the queue, runs and ends only after *)
(* it was queued, is removed only after it ended, always analyses the same *)
(* purl, and has no result that no container gave.                         *)
THEOREM QueuesAreLifecycle == Spec => ImplementsLifecycle
<1>1. Init => Lifecycle!Init
  BY DEF Init, QueueInit, Lifecycle!Init, NoRow
<1>2. Sound /\ [Next]_vars => [Lifecycle!Next]_(Lifecycle!vars)
  <2> SUFFICES ASSUME Sound, [Next]_vars
               PROVE  Lifecycle!Next \/ UNCHANGED Lifecycle!vars
    OBVIOUS
  <2>1. CASE UNCHANGED vars
    BY <2>1 DEF vars, queueVars, dbVars, limitVars, Lifecycle!vars
  <2> QED
    BY <2>1, LifecycleStep
<1> QED
  BY <1>1, <1>2, AlwaysSound, PTL DEF Spec, ImplementsLifecycle, Lifecycle!Spec

==============================================================================
