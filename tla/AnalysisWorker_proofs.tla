------------------------- MODULE AnalysisWorker_proofs -------------------------
(***************************************************************************)
(* For any number of workers, messages, faults and units of time: the      *)
(* message in hand stays with its worker while the extender runs, an       *)
(* extension never comes after Stop, AnalyzedPackageSaved speaks of the    *)
(* message in hand, and what is acknowledged or announced was stored.      *)
(*                                                                         *)
(* Three inductions, each on top of the one before: where a worker and its *)
(* goroutine are; how much of the lease is left; what the places a worker  *)
(* has passed put into the buckets.                                        *)
(***************************************************************************)
EXTENDS AnalysisWorker, TLAPS

Busy == Handling \cup {"stopped", "reply"}
Exts == {"none", "select", "calling", "exiting"}

\* The goroutine lives from Receive to Stop, which meets it twice
GoroutineInv ==
  \A w \in Worker :
    /\ pc[w] \in Handling <=> ext[w] \in {"select", "calling"}
    /\ pc[w] = "stopped" <=> ext[w] = "exiting"
    /\ due[w] => pc[w] \in Handling
    /\ pc[w] \in Handling => Deadline > Grace

\* A worker has a message that was sent, for an entry the scheduler supports
CarriedInv ==
  /\ \A e \in config.announced : feed[e] \in {"sending", "sent"} => e \in Supported
  /\ \A m \in Msg : body[m] # None => body[m] \in Supported
  /\ \A w \in Worker : pc[w] \in Busy => msg[w] \in Msg /\ body[msg[w]] # None
  /\ \A m \in acked : body[m] # None

PlaceInv == TypeOK /\ GoroutineInv /\ CarriedInv

\* The lease outlasts the next extension: by the grace period until the tick,
\* and by what is left of it after
Held(w) ==
  \/ msg[w] \in acked
  \/ /\ owner[msg[w]] = w
     /\ IF due[w] THEN lease[msg[w]] + late[w] >= Grace
                  ELSE lease[msg[w]] >= timer[w] + Grace
LeaseInv ==
  \A w \in Worker : Ticking(w) /\ config.extender => timer[w] <= Freq /\ Held(w)

\* AnalyzedPackageSaved is set by an upload, or a skip of it, and cleared by Join
AfterArchive == {"dynamic", "saveStrace", "saveLog", "saveWrites", "saveZip",
                 "removeTemp", "archiveDynamic", "join"}

\* The places a handling without an error reaches only after storing a kind
Ending == {"join", "publish", "stop", "stopped", "reply"}
After(kind, has) ==
  CASE kind = "static"  -> AfterArchive \cup Ending \cup {"archiveStatic"}
    [] kind = "dynamic" -> (AfterArchive \cup Ending) \ {"dynamic", "saveStrace"}
    [] kind = "log"     -> (AfterArchive \cup Ending) \ {"dynamic", "saveStrace", "saveLog"}
    [] kind = "writes"  -> Ending \cup {"saveZip", "removeTemp", "archiveDynamic"}
    [] kind = "archive" -> IF "static" \in config.stores /\ "static" \in has
                           THEN AfterArchive \cup Ending ELSE Ending
    [] OTHER -> {}

\* What a worker owes to the entry e of its message, for what it found so far,
\* wherever it is
Owes(w, e) ==
  /\ saved[w] /\ pc[w] # "exited" =>
       /\ pc[w] \in AfterArchive
       /\ e \in Local \cup NoArchive \/ Stored("archive", e)
  /\ pc[w] \in Busy \ ({"prepare"} \cup Ending) => e \in WellFormed
  /\ pc[w] = "publish" => ~failed[w]
  /\ pc[w] \in Busy /\ ~failed[w] =>
       \A kind \in Required(e, found[w]) : pc[w] \in After(kind, found[w]) => Stored(kind, e)

BucketOK == \A o \in bucket : o.entry \in Supported \cap WellFormed /\ o = Object(o.kind, o.entry)

StoredAll(p) == \A kind \in Required(p.entry, p.found) : Stored(kind, p.entry)

StoringInv ==
  /\ BucketOK
  /\ \A w \in Worker : Owes(w, EntryOf(w))
  /\ \A p \in promised : StoredAll(p)

-----------------------------------------------------------------------------
(* Where a worker and its goroutine are *)

LEMMA PlaceInit == Init => PlaceInv
BY PipelineConstants
   DEF Init, Findings, PlaceInv, TypeOK, GoroutineInv, CarriedInv, Handling, PC, Busy, Config, Msg

\* What every step of handleMessage has in common: it goes from one place to
\* another, and the goroutine is left alone unless the process panics
Handles(w) ==
  \E to \in Handling \cup {"exited"} :
    /\ pc[w] \in Handling \ {"stop"} /\ pc' = [pc EXCEPT ![w] = to]
    /\ UNCHANGED <<config, ackDeadline, feed, body, lease, owner, acked, msg, extErr, timer, late>>
    /\ IF to = "exited" THEN /\ ext' = [ext EXCEPT ![w] = "none"]
                             /\ due' = [due EXCEPT ![w] = FALSE]
                        ELSE UNCHANGED <<ext, due>>

Recorded ==
  /\ {failed, saved, buffers} \subseteq [Worker -> BOOLEAN]
  /\ \A o \in bucket : o.kind \in Kind /\ o.entry \in Entry
  /\ found \in [Worker -> Findings]
  /\ promised \subseteq Promises
  /\ faults \in 0 .. MaxFaults

\* Setting one worker's entry keeps the types of what is kept per worker
LEMMA EntryTyped ==
  ASSUME NEW w, NEW S, NEW f \in [Worker -> S], NEW v \in S
  PROVE  [f EXCEPT ![w] = v] \in [Worker -> S]
OBVIOUS

LEMMA FaultCounts == ASSUME faults \in 0 .. MaxFaults, Fault PROVE faults' \in 0 .. MaxFaults
BY PipelineConstants DEF Fault

LEMMA PutTyped ==
  ASSUME \A o \in bucket : o.kind \in Kind /\ o.entry \in Entry,
         NEW kind \in Kind, NEW e \in Entry, Put(kind, e)
  PROVE  \A o \in bucket' : o.kind \in Kind /\ o.entry \in Entry
BY DEF Put, Object

LEMMA PromiseTyped ==
  ASSUME NEW w \in Worker, EntryOf(w) \in Entry, found \in [Worker -> Findings], promised \subseteq Promises,
         Promise(w)
  PROVE  promised' \subseteq Promises
<1>1. [entry |-> EntryOf(w), found |-> found[w]] \in Promises
  BY DEF Promises
<1> QED
  BY <1>1 DEF Promise

\* What a step of handleMessage finds and promises is typed
LEMMA FindsTyped ==
  ASSUME Recorded, NEW w \in Worker, HandleMessage(w), EntryOf(w) \in Entry
  PROVE  found' \in [Worker -> Findings] /\ promised' \subseteq Promises
<1>0. found \in [Worker -> Findings] /\ promised \subseteq Promises
  BY DEF Recorded
<1>1. CASE RunStatic(w)
  <2>1. PICK yields \in SUBSET {"static"} : found' = [found EXCEPT ![w] = yields]
    BY <1>1 DEF RunStatic
  <2>2. yields \in Findings
    BY DEF Findings
  <2> QED
    BY <1>0, <1>1, <2>1, <2>2, EntryTyped DEF RunStatic
<1>2. CASE RunDynamic(w)
  <2>1. PICK yields \in SUBSET {"log"} : found' = [found EXCEPT ![w] = @ \cup yields]
    BY <1>2 DEF RunDynamic
  <2>2. found[w] \cup yields \in Findings
    BY <1>0 DEF Findings
  <2>3. found' = [found EXCEPT ![w] = found[w] \cup yields]
    BY <2>1
  <2> QED
    BY <1>0, <1>2, <2>2, <2>3, EntryTyped DEF RunDynamic
<1>3. CASE Publish(w)
  BY <1>0, <1>3, PromiseTyped DEF Publish, stillVars
<1>4. CASE /\ ~RunStatic(w) /\ ~RunDynamic(w) /\ ~Publish(w)
  <2>1. UNCHANGED <<found, promised>>
    BY <1>4 DEF HandleMessage, Prepare, SaveStaticAnalysisData, SaveAnalyzedPackage, SaveStrace, SaveExecutionLog,
           SaveFileWrites, Upload, SaveTempFilesToZip, RemoveTempFiles, Join, stillVars
  <2> QED
    BY <1>0, <2>1
<1> QED
  BY <1>1, <1>2, <1>3, <1>4

\* The step of handleMessage keeps to its worker, and its records are typed
LEMMA HandleFrame ==
  ASSUME PlaceInv, NEW w \in Worker, HandleMessage(w)
  PROVE  Handles(w) /\ Recorded'
<1> DEFINE e == EntryOf(w)
<1>1. pc \in [Worker -> PC] /\ Recorded
  BY DEF PlaceInv, TypeOK, Recorded
<1>2. pc[w] \in Handling => e \in Entry
  BY PipelineConstants DEF PlaceInv, TypeOK, CarriedInv, EntryOf, Busy
<1>20. pc[w] \in Handling => /\ found' \in [Worker -> Findings]
                              /\ promised' \subseteq Promises
  BY <1>1, <1>2, FindsTyped
<1>3. \A to : (Ok(w, to) \/ Err(w, to)) => faults' \in 0 .. MaxFaults /\ failed' \in [Worker -> BOOLEAN]
  BY <1>1, FaultCounts DEF Ok, Err, Recorded
<1>4. ASSUME NEW at \in Handling \ {"stop"}, NEW kind \in Kind, NEW next \in Handling,
             Upload(w, at, kind, next)
      PROVE  Handles(w) /\ Recorded'
  <2>1. Handles(w)
    BY <1>1, <1>4 DEF Upload, At, Ok, Err, Goto, calmVars, stillVars, envVars, leaseVars, extVars, Handles, Handling
  <2>2. e \in Entry
    BY <1>2, <1>4 DEF Upload, At
  <2> QED
    BY <2>1, <2>2, <1>1, <1>3, <1>4, <1>20, PutTyped DEF Upload, Recorded, Handles, stillVars
<1>5. ASSUME NEW at \in Handling \ {"stop"}, NEW next \in Handling, SaveAnalyzedPackage(w, at, next)
      PROVE  Handles(w) /\ Recorded'
  <2>1. Handles(w)
    BY <1>1, <1>5 DEF SaveAnalyzedPackage, At, Ok, Err, Goto, envVars, leaseVars, extVars, Handles, Handling
  <2>2. e \in Entry
    BY <1>2, <1>5 DEF SaveAnalyzedPackage, At
  <2>3. UNCHANGED bucket \/ Put("archive", e)
    BY <1>5 DEF SaveAnalyzedPackage
  <2>4. \A o \in bucket' : o.kind \in Kind /\ o.entry \in Entry
    BY <2>2, <2>3, <1>1, PutTyped DEF Recorded, Kind
  <2> QED
    BY <2>1, <2>4, <1>1, <1>3, <1>5 DEF SaveAnalyzedPackage, Recorded
<1>6. CASE Prepare(w) \/ RunStatic(w) \/ RunDynamic(w) \/ RemoveTempFiles(w) \/ Join(w) \/ Publish(w)
  <2>1. Handles(w)
    BY <1>1, <1>6 DEF Prepare, RunStatic, RunDynamic, RemoveTempFiles, Join, Publish, AfterWrites,
         At, Ok, Err, Goto, calmVars, stillVars, envVars, leaseVars, extVars, Handles, Handling
  <2>2. e \in Entry
    BY <1>2, <2>1 DEF Handles
  <2> QED
    BY <2>1, <2>2, <1>1, <1>3, <1>6, <1>20
       DEF Prepare, RunStatic, RunDynamic, RemoveTempFiles, Join, Publish, Recorded, Handles
<1>7. CASE SaveStaticAnalysisData(w)
  <2>1. Handles(w)
    BY <1>1, <1>7 DEF SaveStaticAnalysisData,
         At, Ok, Err, Goto, calmVars, stillVars, envVars, leaseVars, extVars, Handles, Handling
  <2>2. e \in Entry
    BY <1>2, <2>1 DEF Handles
  <2> QED
    BY <2>1, <2>2, <1>1, <1>3, <1>7, <1>20, PutTyped DEF SaveStaticAnalysisData, Recorded, Kind, Handles
<1>8. CASE SaveTempFilesToZip(w)
  <2>1. Handles(w)
    BY <1>1, <1>8 DEF SaveTempFilesToZip,
         At, Ok, Err, Goto, calmVars, stillVars, envVars, leaseVars, extVars, Handles, Handling
  <2>2. e \in Entry
    BY <1>2, <2>1 DEF Handles
  <2>3. \A o \in bucket' : o.kind \in Kind /\ o.entry \in Entry
    BY <2>2, <1>1, <1>8, PutTyped DEF SaveTempFilesToZip, Recorded, Kind
  <2>4. faults' \in 0 .. MaxFaults /\ {failed, saved, buffers}' \subseteq [Worker -> BOOLEAN]
    BY <1>1, <1>3, <1>8, FaultCounts DEF SaveTempFilesToZip, Recorded
  <2> QED
    BY <2>1, <2>3, <2>4, <1>20 DEF Recorded, Handles
<1>9. CASE SaveStrace(w) \/ SaveExecutionLog(w) \/ SaveFileWrites(w)
  <2>1. AfterWrites(w) \in Handling /\ AfterLog(w) \in Handling
    BY DEF AfterWrites, AfterLog, Handling
  <2> QED
    BY <2>1, <1>4, <1>9 DEF SaveStrace, SaveExecutionLog, SaveFileWrites, Handling, Kind
<1> QED
  BY <1>5, <1>6, <1>7, <1>8, <1>9 DEF HandleMessage, Handling

LEMMA PlaceStep == PlaceInv /\ [Next]_vars => PlaceInv'
<1> SUFFICES ASSUME PlaceInv, [Next]_vars PROVE PlaceInv'
  OBVIOUS
<1> USE PipelineConstants
<1>0. /\ config \in Configs /\ config.replicas \subseteq Worker /\ config.announced \subseteq Entry
      /\ ackDeadline \in MinAck .. MaxAck /\ Deadline \in Nat /\ AckSeconds(Deadline) \in 0 .. MaxAck
      /\ Deadline > Grace => Freq \in Nat \ {0}
  BY DEF PlaceInv, TypeOK, Config, Deadline, AckSeconds, Freq
<1>1. ASSUME NEW e \in config.announced, Preprocess(e) \/ Send(e) \/ AckFeed(e)
      PROVE  PlaceInv'
  <2>1. faults' \in 0 .. MaxFaults
    BY <1>1, FaultCounts DEF PlaceInv, TypeOK, Preprocess, Send, AckFeed
  <2>2. feed' \in [config.announced -> {"ready", "sending", "sent", "acked"}]
    BY <1>1 DEF PlaceInv, TypeOK, Preprocess, Send, AckFeed
  <2>3. /\ body' \in [Msg -> Entry \cup {None}]
        /\ \A m \in Msg : /\ body[m] # None => body'[m] = body[m]
                          /\ body'[m] # None => body'[m] \in Supported
    BY <1>1, <1>0 DEF PlaceInv, TypeOK, CarriedInv, Preprocess, Send, AckFeed
  <2>4. UNCHANGED SchedVars
    BY <1>1 DEF Preprocess, Send, AckFeed, SchedVars, leaseVars, procVars, extVars
  <2>5. \A f \in config.announced : feed'[f] \in {"sending", "sent"} => f \in Supported
    BY <1>1 DEF PlaceInv, TypeOK, CarriedInv, Preprocess, Send, AckFeed
  <2>6. TypeOK'
    BY <2>1, <2>2, <2>3, <2>4 DEF PlaceInv, TypeOK, SchedVars, leaseVars, procVars, extVars
  <2>7. GoroutineInv'
    BY <2>4 DEF PlaceInv, GoroutineInv, Deadline, SchedVars, leaseVars, procVars, extVars
  <2>8. CarriedInv'
    BY <2>3, <2>4, <2>5 DEF PlaceInv, TypeOK, CarriedInv, SchedVars, leaseVars, procVars, extVars
  <2> QED
    BY <2>6, <2>7, <2>8 DEF PlaceInv
<1>2. CASE SchedulerCrash
  <2>1. faults' \in 0 .. MaxFaults
    BY <1>2, FaultCounts DEF PlaceInv, TypeOK, SchedulerCrash
  <2> QED
    BY <2>1, <1>2 DEF SchedulerCrash, PlaceInv, TypeOK, GoroutineInv, CarriedInv, Deadline, SchedVars,
         leaseVars, procVars, extVars
<1>3. CASE ClockTick
  <2>1. \A w \in Worker : Ticking(w) => Freq \in Nat \ {0}
    BY <1>0 DEF PlaceInv, GoroutineInv, Ticking
  <2>2. TypeOK'
    BY <1>3, <2>1 DEF ClockTick, PlaceInv, TypeOK, envVars, procVars
  <2>3. GoroutineInv'
    BY <1>3 DEF ClockTick, PlaceInv, TypeOK, GoroutineInv, Deadline, envVars, procVars, Ticking
  <2>4. CarriedInv'
    BY <1>3 DEF ClockTick, PlaceInv, CarriedInv, envVars, procVars
  <2> QED
    BY <2>2, <2>3, <2>4 DEF PlaceInv
<1>4. ASSUME NEW w \in config.replicas, NEW m \in Msg, Receive(w, m)
      PROVE  PlaceInv'
  <2>1. TypeOK'
    BY <1>4, <1>0 DEF Receive, Lease, Goto, PlaceInv, TypeOK, envVars, PC, Handling
  <2>2. GoroutineInv'
    BY <1>4, <1>0 DEF Receive, Goto, PlaceInv, TypeOK, GoroutineInv, Deadline, envVars, Handling
  <2>3. CarriedInv'
    BY <1>4, <1>0 DEF Receive, Ready, Goto, PlaceInv, TypeOK, CarriedInv, envVars, Busy
  <2> QED
    BY <2>1, <2>2, <2>3 DEF PlaceInv
<1>5. ASSUME NEW w \in config.replicas, NEW m \in Msg, StartFails(w, m)
      PROVE  PlaceInv'
  <2>1. TypeOK'
    BY <1>5, <1>0 DEF StartFails, Lease, Goto, PlaceInv, TypeOK, envVars, extVars, PC, Handling
  <2>2. GoroutineInv'
    BY <1>5, <1>0 DEF StartFails, Goto, PlaceInv, TypeOK, GoroutineInv, Deadline, envVars, extVars, Handling
  <2>3. CarriedInv'
    BY <1>5, <1>0 DEF StartFails, Goto, PlaceInv, TypeOK, CarriedInv, envVars, Busy, Handling
  <2> QED
    BY <2>1, <2>2, <2>3 DEF PlaceInv
<1>6. ASSUME NEW w \in config.replicas, HandleMessage(w)
      PROVE  PlaceInv'
  <2>1. Handles(w) /\ Recorded'
    BY <1>0, <1>6, HandleFrame
  <2>2. /\ pc' \in [Worker -> PC] /\ due' \in [Worker -> BOOLEAN] /\ ext' \in [Worker -> Exts]
        /\ UNCHANGED <<config, ackDeadline, feed, body, lease, owner, acked, msg, extErr, timer, late>>
    <3>1. PICK to \in Handling \cup {"exited"} :
               /\ pc' = [pc EXCEPT ![w] = to]
               /\ UNCHANGED <<config, ackDeadline, feed, body, lease, owner, acked, msg, extErr, timer, late>>
               /\ \/ ext' = [ext EXCEPT ![w] = "none"] /\ due' = [due EXCEPT ![w] = FALSE]
                  \/ UNCHANGED <<ext, due>>
      BY <2>1 DEF Handles
    <3>2. to \in PC /\ "none" \in Exts /\ FALSE \in BOOLEAN
      BY DEF PC, Exts
    <3>3. pc \in [Worker -> PC] /\ ext \in [Worker -> Exts] /\ due \in [Worker -> BOOLEAN]
      BY DEF PlaceInv, TypeOK, Exts
    <3> QED
      BY <3>1, <3>2, <3>3, EntryTyped
  <2>22. TypeOK'
    BY <2>1, <2>2 DEF Recorded, PlaceInv, TypeOK, Exts
  <2>3. GoroutineInv'
    BY <2>1, <1>0 DEF Handles, PlaceInv, TypeOK, GoroutineInv, Deadline, Handling
  <2>4. CarriedInv'
    BY <2>1, <1>0 DEF Handles, PlaceInv, TypeOK, CarriedInv, Busy, Handling
  <2> QED
    BY <2>22, <2>3, <2>4 DEF PlaceInv
<1>7. ASSUME NEW w \in config.replicas, StopSend(w) \/ StopReceive(w)
      PROVE  PlaceInv'
  <2>0. pc' \in [Worker -> PC] /\ due' \in [Worker -> BOOLEAN] /\ ext' \in [Worker -> Exts]
    <3>1. {"stopped", "reply"} \subseteq PC /\ {"none", "exiting"} \subseteq Exts /\ FALSE \in BOOLEAN
      BY DEF PC, Exts
    <3>2. pc \in [Worker -> PC] /\ ext \in [Worker -> Exts] /\ due \in [Worker -> BOOLEAN]
      BY DEF PlaceInv, TypeOK, Exts
    <3> QED
      BY <1>7, <3>1, <3>2, EntryTyped DEF StopSend, StopReceive, Goto
  <2>1. TypeOK'
    BY <1>7, <2>0 DEF StopSend, StopReceive, PlaceInv, TypeOK, Exts, envVars, leaseVars
  <2>2. GoroutineInv'
    BY <1>7, <1>0 DEF StopSend, StopReceive, Goto, At, PlaceInv, TypeOK, GoroutineInv, Deadline, envVars, Handling
  <2>3. CarriedInv'
    BY <1>7, <1>0 DEF StopSend, StopReceive, Goto, At, PlaceInv, TypeOK, CarriedInv, envVars, leaseVars, Busy, Handling
  <2> QED
    BY <2>1, <2>2, <2>3 DEF PlaceInv
<1>8. ASSUME NEW w \in config.replicas, AckOrNack(w)
      PROVE  PlaceInv'
  <2>1. msg[w] \in Msg /\ body[msg[w]] # None
    BY <1>8, <1>0 DEF AckOrNack, At, PlaceInv, CarriedInv, Busy
  <2>2. faults' \in 0 .. MaxFaults
    BY <1>8, FaultCounts DEF AckOrNack, PlaceInv, TypeOK
  <2>6. found' \in [Worker -> Findings] /\ promised' \subseteq Promises
    <3>1. {} \in Findings /\ EntryOf(w) \in Entry /\ found \in [Worker -> Findings] /\ promised \subseteq Promises
      BY <2>1 DEF Findings, EntryOf, PlaceInv, TypeOK
    <3>2. promised' \subseteq Promises
      BY <1>8, <1>0, <3>1, PromiseTyped DEF AckOrNack
    <3> QED
      BY <1>8, <3>1, <3>2, EntryTyped DEF AckOrNack
  <2>3. TypeOK'
    BY <1>8, <1>0, <2>1, <2>2, <2>6 DEF AckOrNack, Lease, Goto, PlaceInv, TypeOK, envVars, extVars, leaseVars, PC
  <2>4. GoroutineInv'
    BY <1>8, <1>0 DEF AckOrNack, Goto, At, PlaceInv, TypeOK, GoroutineInv, Deadline, envVars, extVars, Handling
  <2>5. CarriedInv'
    BY <1>8, <1>0, <2>1 DEF AckOrNack, Goto, At, PlaceInv, TypeOK, CarriedInv, envVars, leaseVars, Busy, Handling
  <2> QED
    BY <2>3, <2>4, <2>5 DEF PlaceInv
<1>9. ASSUME NEW w \in config.replicas, Restart(w) \/ Crash(w)
      PROVE  PlaceInv'
  <2>1. faults' \in 0 .. MaxFaults
    BY <1>9, FaultCounts DEF Restart, Crash, PlaceInv, TypeOK
  <2>0. /\ pc' \in [Worker -> PC] /\ msg' \in [Worker -> Msg \cup {None}] /\ ext' \in [Worker -> Exts]
        /\ {failed, saved, buffers, extErr, due}' \subseteq [Worker -> BOOLEAN]
        /\ found' \in [Worker -> Findings] /\ promised' \subseteq Promises
    <3>1. {"receive", "exited"} \subseteq PC /\ "none" \in Exts /\ FALSE \in BOOLEAN /\ {} \in Findings
      BY DEF PC, Exts, Findings
    <3>2. /\ pc \in [Worker -> PC] /\ msg \in [Worker -> Msg \cup {None}] /\ ext \in [Worker -> Exts]
          /\ failed \in [Worker -> BOOLEAN] /\ saved \in [Worker -> BOOLEAN]
          /\ buffers \in [Worker -> BOOLEAN] /\ extErr \in [Worker -> BOOLEAN] /\ due \in [Worker -> BOOLEAN]
      BY DEF PlaceInv, TypeOK, Exts
    <3>3. /\ pc' \in [Worker -> PC] /\ msg' \in [Worker -> Msg \cup {None}] /\ ext' \in [Worker -> Exts]
          /\ failed' \in [Worker -> BOOLEAN] /\ saved' \in [Worker -> BOOLEAN]
          /\ buffers' \in [Worker -> BOOLEAN] /\ extErr' \in [Worker -> BOOLEAN] /\ due' \in [Worker -> BOOLEAN]
      BY <1>9, <3>1, <3>2, EntryTyped DEF Restart, Crash, Goto, extVars
    <3>4. found \in [Worker -> Findings] /\ promised \subseteq Promises
      BY DEF PlaceInv, TypeOK
    <3>5. found' \in [Worker -> Findings] /\ promised' \subseteq Promises
      BY <1>9, <3>1, <3>4, EntryTyped DEF Restart, Crash
    <3> QED
      BY <3>3, <3>5
  <2>2. TypeOK'
    BY <1>9, <2>0, <2>1 DEF Restart, Crash, PlaceInv, TypeOK, Exts, envVars, extVars, leaseVars
  <2>3. GoroutineInv'
    BY <1>9, <1>0 DEF Restart, Crash, Goto, PlaceInv, TypeOK, GoroutineInv, Deadline, envVars, extVars, Handling
  <2>4. CarriedInv'
    BY <1>9, <1>0 DEF Restart, Crash, Goto, PlaceInv, TypeOK, CarriedInv, envVars, leaseVars, Busy, Handling
  <2> QED
    BY <2>2, <2>3, <2>4 DEF PlaceInv
<1>10. ASSUME NEW w \in config.replicas, Extender(w)
       PROVE  PlaceInv'
  <2>1. faults' \in 0 .. MaxFaults
    BY <1>10, FaultCounts DEF Extender, ExtendBegin, ExtendEnd, PlaceInv, TypeOK
  <2>2. msg[w] \in Msg
    BY <1>10, <1>0 DEF Extender, ExtendBegin, ExtendEnd, PlaceInv, GoroutineInv, CarriedInv, Busy
  <2>6. /\ ext' \in [Worker -> Exts] /\ late' \in [Worker -> 0 .. Slack]
        /\ {failed, saved, buffers, extErr, due}' \subseteq [Worker -> BOOLEAN]
    <3>1. {"calling", "select"} \subseteq Exts /\ TRUE \in BOOLEAN /\ FALSE \in BOOLEAN /\ 0 \in 0 .. Slack
      BY DEF Exts
    <3>2. /\ ext \in [Worker -> Exts] /\ late \in [Worker -> 0 .. Slack]
          /\ failed \in [Worker -> BOOLEAN] /\ saved \in [Worker -> BOOLEAN]
          /\ buffers \in [Worker -> BOOLEAN] /\ extErr \in [Worker -> BOOLEAN] /\ due \in [Worker -> BOOLEAN]
      BY DEF PlaceInv, TypeOK, Exts
    <3>3. CASE ExtendBegin(w)
      BY <3>1, <3>2, <3>3, EntryTyped DEF ExtendBegin, procVars
    <3>4. CASE ExtendEnd(w)
      <4>1. /\ ext' = [ext EXCEPT ![w] = "select"] /\ due' = [due EXCEPT ![w] = FALSE]
            /\ late' = [late EXCEPT ![w] = 0] /\ UNCHANGED <<failed, saved, buffers>>
            /\ UNCHANGED extErr \/ extErr' = [extErr EXCEPT ![w] = TRUE]
        BY <3>4 DEF ExtendEnd, procVars
      <4>2. /\ ext' \in [Worker -> Exts] /\ late' \in [Worker -> 0 .. Slack]
            /\ due' \in [Worker -> BOOLEAN] /\ extErr' \in [Worker -> BOOLEAN]
        BY <4>1, <3>1, <3>2, EntryTyped
      <4> QED
        BY <4>1, <4>2, <3>2
    <3> QED
      BY <1>10, <3>3, <3>4 DEF Extender
  <2>7. lease' \in [Msg -> 0 .. MaxAck] /\ owner' \in [Msg -> Worker \cup {None}] /\ acked' \subseteq Msg
    BY <1>10, <1>0, <2>2 DEF Extender, ExtendBegin, ExtendEnd, Lease, PlaceInv, TypeOK, leaseVars
  <2>3. TypeOK'
    BY <1>10, <2>1, <2>6, <2>7 DEF Extender, ExtendBegin, ExtendEnd, PlaceInv, TypeOK, Exts, envVars, procVars
  <2>4. GoroutineInv'
    BY <1>10, <1>0 DEF Extender, ExtendBegin, ExtendEnd, PlaceInv, TypeOK, GoroutineInv, Deadline, envVars, procVars, Handling
  <2>5. CarriedInv'
    BY <1>10, <1>0 DEF Extender, ExtendBegin, ExtendEnd, PlaceInv, TypeOK, CarriedInv, envVars, procVars, leaseVars
  <2> QED
    BY <2>3, <2>4, <2>5 DEF PlaceInv
<1>11. CASE UNCHANGED vars
  BY <1>11 DEF vars, leaseVars, procVars, extVars, PlaceInv, TypeOK, GoroutineInv, CarriedInv, Deadline
<1> QED
  BY <1>1, <1>2, <1>3, <1>4, <1>5, <1>6, <1>7, <1>8, <1>9, <1>10, <1>11
     DEF Next, Scheduler, MessageLoop

\* Typing of the pipeline, with where each worker and each goroutine is.
THEOREM PlacesAreTyped == Spec => []PlaceInv
BY PlaceInit, PlaceStep, PTL DEF Spec

\* Stop returns only when the goroutine is gone: no message is extended after
\* its ack or nack, whatever ticks were due when handleMessage returned.
THEOREM StopEndsExtensions == Spec => []NoExtensionAfterStop
<1>1. PlaceInv => NoExtensionAfterStop
  BY DEF PlaceInv, TypeOK, GoroutineInv, NoExtensionAfterStop, Handling
<1> QED
  BY <1>1, PlacesAreTyped, PTL

-----------------------------------------------------------------------------
(* How much of the lease is left *)

\* A worker whose message, goroutine and lease a step leaves alone
LEMMA StaysHeld ==
  ASSUME PlaceInv, LeaseInv, NEW w \in Worker,
         Ticking(w)' => Ticking(w),
         UNCHANGED <<config, ackDeadline>>, acked \subseteq acked', timer'[w] = timer[w],
         msg'[w] = msg[w], due'[w] = due[w], late'[w] = late[w],
         \/ msg[w] \in acked'
         \/ owner[msg[w]] # w
         \/ lease'[msg[w]] = lease[msg[w]] /\ owner'[msg[w]] = owner[msg[w]]
  PROVE  Ticking(w)' /\ config'.extender => timer'[w] <= Freq' /\ Held(w)'
BY DEF LeaseInv, Held, Freq, Deadline

LEMMA LeaseStep == PlaceInv /\ PlaceInv' /\ LeaseInv /\ [Next]_vars => LeaseInv'
<1> SUFFICES ASSUME PlaceInv, PlaceInv', LeaseInv, [Next]_vars,
                    NEW v \in Worker, Ticking(v)', config'.extender
             PROVE  timer'[v] <= Freq' /\ Held(v)'
  BY DEF LeaseInv
<1> USE PipelineConstants
<1>0. /\ config \in Configs /\ config.replicas \subseteq Worker
      /\ ackDeadline \in MinAck .. MaxAck /\ AckSeconds(ackDeadline) = ackDeadline
      /\ config.extender => Deadline = ackDeadline
      /\ lease \in [Msg -> 0 .. MaxAck] /\ owner \in [Msg -> Worker \cup {None}]
      /\ msg \in [Worker -> Msg \cup {None}] /\ timer \in [Worker -> Nat \ {0}]
      /\ late \in [Worker -> 0 .. Slack]
      /\ DOMAIN ext = Worker /\ DOMAIN extErr = Worker /\ DOMAIN due = Worker
      /\ None \notin Worker /\ None \notin Msg
  <2>1. config \in Configs /\ ackDeadline \in MinAck .. MaxAck
    BY DEF PlaceInv, TypeOK
  <2>2. AckSeconds(ackDeadline) = ackDeadline /\ config.replicas \subseteq Worker
    BY <2>1 DEF AckSeconds, Config
  <2>3. config.extender => Deadline = ackDeadline
    BY DEF Deadline
  <2>4. /\ lease \in [Msg -> 0 .. MaxAck] /\ owner \in [Msg -> Worker \cup {None}]
        /\ msg \in [Worker -> Msg \cup {None}] /\ timer \in [Worker -> Nat \ {0}]
        /\ late \in [Worker -> 0 .. Slack]
        /\ DOMAIN ext = Worker /\ DOMAIN extErr = Worker /\ DOMAIN due = Worker
    BY DEF PlaceInv, TypeOK
  <2>5. None \notin Worker /\ None \notin Msg
    BY DEF Msg
  <2> QED
    BY <2>1, <2>2, <2>3, <2>4, <2>5
<1>00. \A w \in Worker : Ticking(w) => pc[w] \in Handling /\ msg[w] \in Msg /\ Deadline > Grace /\ Freq \in Nat \ {0}
  BY <1>0 DEF PlaceInv, GoroutineInv, CarriedInv, Ticking, Busy, Freq, Deadline
<1>1. CASE Scheduler \/ SchedulerCrash \/ UNCHANGED vars
  BY <1>1, StaysHeld DEF Scheduler, Preprocess, Send, AckFeed, SchedulerCrash, SchedVars, vars,
       leaseVars, procVars, extVars, Ticking
<1>2. CASE ClockTick
  <2>1. Ticking(v) /\ config.extender /\ timer[v] <= Freq /\ Held(v) /\ UNCHANGED <<config, ackDeadline, acked, msg>>
    BY <1>2 DEF ClockTick, Ticking, LeaseInv, envVars, procVars
  <2>2. /\ Freq \in Nat \ {0} /\ msg[v] \in Msg /\ timer[v] \in Nat \ {0} /\ lease[msg[v]] \in Nat /\ late[v] \in Nat
        /\ Freq' = Freq
    BY <2>1, <1>0, <1>00 DEF Freq, Deadline
  <2>3. timer'[v] = IF timer[v] = 1 THEN Freq ELSE timer[v] - 1
    BY <1>2, <2>1 DEF ClockTick
  <2>4. timer'[v] <= Freq'
    BY <2>1, <2>2, <2>3
  <2>5. CASE msg[v] \in acked
    BY <2>1, <2>4, <2>5 DEF Held
  <2>6. CASE msg[v] \notin acked
    <3>1. due[v] => late[v] < Slack
      BY <1>2 DEF ClockTick
    <3>2. owner[msg[v]] = v /\ lease[msg[v]] > 1
      BY <2>1, <2>2, <2>6, <3>1 DEF Held
    <3>3. owner'[msg[v]] = v /\ lease'[msg[v]] = lease[msg[v]] - 1
      BY <1>2, <3>2, <2>2, <1>0 DEF ClockTick
    <3>4. CASE due[v]
      <4>1. due'[v] /\ late'[v] = late[v] + 1
        BY <1>2, <3>4 DEF ClockTick
      <4> QED
        BY <4>1, <3>3, <3>4, <2>1, <2>2, <2>4, <2>6 DEF Held
    <3>5. CASE ~due[v]
      <4>1. due'[v] <=> timer[v] = 1
        BY <1>2, <3>5, <2>1 DEF ClockTick
      <4>2. late'[v] = 0
        BY <1>2, <3>5 DEF ClockTick
      <4>3. CASE timer[v] = 1
        BY <4>1, <4>2, <4>3, <3>3, <3>5, <2>1, <2>2, <2>4, <2>6 DEF Held
      <4>4. CASE timer[v] # 1
        BY <4>1, <4>4, <3>3, <3>5, <2>1, <2>2, <2>3, <2>4, <2>6 DEF Held
      <4> QED
        BY <4>3, <4>4
    <3> QED
      BY <3>4, <3>5
  <2> QED
    BY <2>5, <2>6
<1>3. ASSUME NEW w \in config.replicas, NEW m \in Msg, Receive(w, m)
      PROVE  timer'[v] <= Freq' /\ Held(v)'
  <2>1. CASE v = w
    <3>1. Freq' = Freq /\ Freq = ackDeadline - Grace /\ Deadline > Grace /\ config.extender
      BY <1>3, <1>0 DEF Receive, envVars, Freq, Deadline
    <3>2. timer'[v] = Freq /\ msg'[v] = m /\ ~due'[v] /\ lease'[m] = ackDeadline
      BY <1>3, <1>0, <2>1 DEF Receive, Lease, PlaceInv, TypeOK
    <3>3. owner'[m] = v
      BY <1>3, <1>0, <2>1, <3>1 DEF Receive, Lease, Deadline
    <3> QED
      BY <3>1, <3>2, <3>3, <1>0 DEF Held
  <2>2. CASE v # w
    <3>1. Ticking(v) /\ config.extender /\ UNCHANGED <<config, ackDeadline, acked>>
      BY <1>3, <1>0, <2>2 DEF Receive, Ticking, envVars
    <3>2. Held(v) /\ msg[v] \in Msg
      BY <3>1, <1>00 DEF LeaseInv
    <3>3. msg[v] \in acked \/ m # msg[v]
      BY <3>2, <1>3, <1>0 DEF Held, Receive, Ready
    <3>4. /\ timer'[v] = timer[v] /\ msg'[v] = msg[v] /\ due'[v] = due[v] /\ late'[v] = late[v]
          /\ m # msg[v] => lease'[msg[v]] = lease[msg[v]] /\ owner'[msg[v]] = owner[msg[v]]
      BY <1>3, <1>0, <2>2, <3>2 DEF Receive, Lease
    <3> QED
      BY <3>1, <3>3, <3>4, StaysHeld
  <2> QED
    BY <2>1, <2>2
<1>4. ASSUME NEW w \in config.replicas, NEW m \in Msg, StartFails(w, m)
      PROVE  timer'[v] <= Freq' /\ Held(v)'
  <2>1. Ticking(v) /\ config.extender /\ UNCHANGED <<config, ackDeadline, acked, timer, msg, due, late>>
    BY <1>4 DEF StartFails, Ticking, envVars, extVars
  <2>2. Held(v) /\ msg[v] \in Msg
    BY <2>1, <1>00 DEF LeaseInv
  <2>3. msg[v] \in acked \/ m # msg[v]
    BY <2>2, <1>4, <1>0 DEF Held, StartFails, Ready
  <2>4. m # msg[v] => lease'[msg[v]] = lease[msg[v]] /\ owner'[msg[v]] = owner[msg[v]]
    BY <1>4, <1>0, <2>2 DEF StartFails, Lease
  <2> QED
    BY <2>1, <2>3, <2>4, StaysHeld
<1>5. ASSUME NEW w \in config.replicas, HandleMessage(w)
      PROVE  timer'[v] <= Freq' /\ Held(v)'
  <2>1. Handles(w)
    BY <1>0, <1>5, HandleFrame
  <2>2. UNCHANGED <<config, ackDeadline, lease, owner, acked, msg, extErr, timer, late>>
    BY <2>1 DEF Handles
  <2>3. ext'[v] = ext[v] /\ due'[v] = due[v]
    BY <2>1, <1>0 DEF Handles, PlaceInv, TypeOK, Ticking
  <2> QED
    BY <2>2, <2>3, StaysHeld DEF Ticking
<1>6. ASSUME NEW w \in config.replicas, StopSend(w) \/ StopReceive(w) \/ Restart(w) \/ Crash(w)
      PROVE  timer'[v] <= Freq' /\ Held(v)'
  <2>1. v # w
    <3>1. pc'[v] \in Handling
      BY DEF Ticking, PlaceInv, GoroutineInv
    <3>2. pc'[w] \in {"stopped", "reply", "receive", "exited"}
      BY <1>6, <1>0 DEF StopSend, StopReceive, Restart, Crash, Goto, PlaceInv, TypeOK
    <3> QED
      BY <3>1, <3>2 DEF Handling
  <2>2. /\ UNCHANGED <<config, ackDeadline, lease, owner, acked, timer, late>>
        /\ msg'[v] = msg[v] /\ due'[v] = due[v] /\ ext'[v] = ext[v] /\ extErr'[v] = extErr[v]
    <3>1. CASE StopSend(w) \/ StopReceive(w)
      BY <3>1, <1>0, <2>1 DEF StopSend, StopReceive, envVars, leaseVars
    <3>2. CASE Restart(w)
      BY <3>2, <1>0, <2>1 DEF Restart, envVars, extVars, leaseVars
    <3>3. CASE Crash(w)
      BY <3>3, <1>0, <2>1 DEF Crash, envVars, leaseVars
    <3> QED
      BY <1>6, <3>1, <3>2, <3>3
  <2> QED
    BY <2>2, StaysHeld DEF Ticking
<1>7. ASSUME NEW w \in config.replicas, AckOrNack(w)
      PROVE  timer'[v] <= Freq' /\ Held(v)'
  <2>1. Ticking(v) /\ UNCHANGED <<config, ackDeadline, timer, due, late>> /\ acked \subseteq acked'
    BY <1>7 DEF AckOrNack, Ticking, envVars, extVars, leaseVars
  <2>2. v # w
    BY <1>7, <1>00, <2>1 DEF AckOrNack, At, Handling
  <2>3. msg[v] \in Msg /\ msg[w] \in Msg
    BY <1>7, <1>00, <1>0, <2>1 DEF AckOrNack, At, PlaceInv, CarriedInv, Busy
  <2>4. \/ msg[v] \in acked' \/ owner[msg[v]] # v
        \/ lease'[msg[v]] = lease[msg[v]] /\ owner'[msg[v]] = owner[msg[v]]
    BY <1>7, <1>0, <2>2, <2>3 DEF AckOrNack, Lease, leaseVars
  <2>5. msg'[v] = msg[v]
    BY <1>7, <2>2 DEF AckOrNack
  <2> QED
    BY <2>1, <2>4, <2>5, StaysHeld
<1>8. ASSUME NEW w \in config.replicas, ExtendBegin(w)
      PROVE  timer'[v] <= Freq' /\ Held(v)'
  BY <1>8, <1>0, StaysHeld DEF ExtendBegin, Ticking, PlaceInv, TypeOK, envVars, leaseVars, procVars
<1>9. ASSUME NEW w \in config.replicas, ExtendEnd(w)
      PROVE  timer'[v] <= Freq' /\ Held(v)'
  <2>1. UNCHANGED <<config, ackDeadline, timer, acked, msg>> /\ config.extender /\ Freq' = Freq
    BY <1>9 DEF ExtendEnd, envVars, procVars, Freq, Deadline
  <2>2. CASE v = w
    <3>1. ~extErr'[v] /\ ext[v] = "calling" /\ ~due'[v]
      BY <1>9, <1>0, <2>2 DEF ExtendEnd, Ticking, PlaceInv, TypeOK
    <3>2. UNCHANGED extErr
      BY <1>9, <1>0, <2>2, <3>1 DEF ExtendEnd, PlaceInv, TypeOK
    <3>3. Ticking(v)
      BY <3>1, <3>2 DEF Ticking
    <3>4. /\ timer[v] <= Freq /\ Held(v) /\ msg[v] \in Msg /\ Freq = ackDeadline - Grace
          /\ timer[v] \in Nat
      BY <2>1, <3>3, <1>0, <1>00 DEF LeaseInv, Freq
    <3>5. IF owner[msg[v]] = v THEN Lease(msg[v], v, ackDeadline) ELSE UNCHANGED <<lease, owner>>
      BY <1>9, <2>1, <2>2, <3>1, <3>2, <1>0 DEF ExtendEnd, PlaceInv, TypeOK
    <3> QED
      BY <2>1, <3>1, <3>4, <3>5, <1>0 DEF Held, Lease
  <2>3. CASE v # w
    <3>1. Ticking(v) /\ due'[v] = due[v] /\ late'[v] = late[v]
      BY <1>9, <1>0, <2>3 DEF ExtendEnd, Ticking
    <3>2. owner[msg[v]] # v \/ (lease'[msg[v]] = lease[msg[v]] /\ owner'[msg[v]] = owner[msg[v]])
      BY <1>9, <1>0, <1>00, <2>3, <3>1 DEF ExtendEnd, Lease
    <3> QED
      BY <2>1, <3>1, <3>2, StaysHeld
  <2> QED
    BY <2>2, <2>3
<1> QED
  BY <1>1, <1>2, <1>3, <1>4, <1>5, <1>6, <1>7, <1>8, <1>9 DEF Next, MessageLoop, Extender

\* The extender keeps the message in hand leased to its worker, as long as a
\* tick is served within the grace period and no extension failed: no second
\* worker gets the message while the first analyses it.
THEOREM ExtenderHolds == Spec => []HeldWhileHandled
<1>1. Init => LeaseInv
  BY DEF Init, LeaseInv, Ticking
<1>2. PlaceInv /\ LeaseInv => HeldWhileHandled
  <2> SUFFICES ASSUME PlaceInv, LeaseInv, NEW w \in Worker, config.extender, Ticking(w), msg[w] \notin acked
               PROVE  owner[msg[w]] = w /\ lease[msg[w]] > 0
    BY DEF HeldWhileHandled
  <2>1. Held(w) /\ msg[w] \in Msg /\ late[w] \in 0 .. Slack /\ timer[w] \in Nat /\ lease[msg[w]] \in Nat
    BY PipelineConstants DEF LeaseInv, PlaceInv, TypeOK, GoroutineInv, CarriedInv, Ticking, Busy
  <2> QED
    BY <2>1, PipelineConstants DEF Held
<1> QED
  BY <1>1, <1>2, LeaseStep, PlacesAreTyped, PTL DEF Spec

-----------------------------------------------------------------------------
(* What the places passed have put into the buckets *)

\* An upload replaces at most the object under its own key
LEMMA PutStores ==
  ASSUME BucketOK, NEW kind, NEW e \in Supported \cap WellFormed, Put(kind, e)
  PROVE  BucketOK' /\ Stored(kind, e)' /\ \A k, f : Stored(k, f) => Stored(k, f)'
<1>1. Object(kind, e).kind = kind /\ Object(kind, e).key = KeyOf(kind, e) /\ Object(kind, e).entry = e
  BY DEF Object
<1>2. \A o : o \in bucket' <=> \/ o \in bucket /\ <<o.kind, o.key>> # <<kind, KeyOf(kind, e)>>
                               \/ o = Object(kind, e)
  BY DEF Put
<1>3. BucketOK'
  BY <1>1, <1>2 DEF BucketOK
<1>4. Object(kind, e) \in bucket'
  BY <1>2
<1>5. Stored(kind, e)'
  BY <1>1, <1>4 DEF Stored
<1>6. ASSUME NEW k, NEW f, Stored(k, f) PROVE Stored(k, f)'
  <2>1. PICK o \in bucket : o.kind = k /\ o.key = KeyOf(k, f)
    BY <1>6 DEF Stored
  <2>2. CASE o \in bucket'
    BY <2>1, <2>2 DEF Stored
  <2>3. CASE o \notin bucket'
    BY <2>1, <2>3, <1>1, <1>2, <1>4 DEF Stored
  <2> QED
    BY <2>2, <2>3
<1> QED
  BY <1>3, <1>5, <1>6

LEMMA RequiredKinds ==
  ASSUME NEW e, NEW has, NEW kind \in Required(e, has)
  PROVE  /\ kind \in {"static", "dynamic", "log", "writes", "archive"} /\ e \in WellFormed
         /\ kind # "archive" => kind \in config.stores
         /\ kind \in {"static", "log"} => kind \in has
         /\ kind \in {"log", "writes"} => "dynamic" \in config.stores
         /\ kind = "writes" => config.files
         /\ kind = "archive" => /\ config.packages /\ e \notin Local \cup NoArchive
                                /\ \/ "static" \in config.stores /\ "static" \in has
                                   \/ "dynamic" \in config.stores /\ config.files
BY DEF Required

\* A step of handleMessage: what is owed after it was owed before, or is stored by it
LEMMA HandleOwes ==
  ASSUME PlaceInv, StoringInv, NEW w \in Worker, HandleMessage(w),
         NEW e, e = EntryOf(w), NEW has, has = found[w]
  PROVE  /\ Owes(w, e)' /\ BucketOK' /\ \A k, f : Stored(k, f) => Stored(k, f)'
         /\ \A p \in promised' : p \in promised \/ (/\ p.entry = e /\ p.found = found[w]
                                                  /\ ~failed[w] /\ pc[w] = "publish")
<1> DEFINE Kept == \A k, f : Stored(k, f) => Stored(k, f)'
           Announced == \A p \in promised' : p \in promised \/ (/\ p.entry = e /\ p.found = found[w]
                                                          /\ ~failed[w] /\ pc[w] = "publish")
           Goal == Owes(w, e)' /\ BucketOK' /\ Kept /\ Announced
<1>0. /\ Owes(w, e) /\ BucketOK /\ pc \in [Worker -> PC] /\ failed \in [Worker -> BOOLEAN] /\ saved \in [Worker -> BOOLEAN]
  BY DEF StoringInv, PlaceInv, TypeOK
<1>1. Handles(w) /\ pc[w] \in Handling
  BY HandleFrame DEF Handles
<1>2. e \in Supported /\ UNCHANGED config
  BY <1>1 DEF Handles, PlaceInv, CarriedInv, EntryOf, Busy
<1>3. UNCHANGED bucket => BucketOK' /\ Kept
  BY <1>0 DEF BucketOK, Stored
<1>4. ASSUME NEW kind, e \in WellFormed, Put(kind, e) PROVE BucketOK' /\ Kept /\ Stored(kind, e)'
  BY <1>0, <1>2, <1>4, PutStores
<1>6. pc[w] \notin {"static", "dynamic"} =>
        /\ found'[w] = has
        /\ Required(e, found[w])' = Required(e, has)
        /\ \A kind : After(kind, found[w])' = After(kind, has)
  <2>1. pc[w] \notin {"static", "dynamic"} => found' = found
    BY DEF HandleMessage, Prepare, SaveStaticAnalysisData, SaveAnalyzedPackage, SaveStrace, SaveExecutionLog,
           SaveFileWrites, Upload, SaveTempFilesToZip, RemoveTempFiles, Join, Publish, stillVars, RunStatic,
           RunDynamic, At
  <2>2. found'[w] = has => /\ Required(e, found[w])' = Required(e, has)
                           /\ \A kind : After(kind, found[w])' = After(kind, has)
    BY <1>2 DEF Required, After
  <2> QED
    BY <2>1, <2>2
<1>7. \A to : Err(w, to) => pc'[w] = to /\ failed'[w]
  BY <1>0 DEF Err, Goto
<1>8. \A to : Ok(w, to) => pc'[w] = to /\ failed'[w] = failed[w]
  BY <1>0 DEF Ok, Goto
<1>10. CASE Prepare(w)
  <2>1. pc[w] = "prepare" /\ ~saved[w] /\ UNCHANGED <<saved, bucket, promised>>
    BY <1>10, <1>0 DEF Prepare, At, Owes, AfterArchive
  <2>2. CASE e \notin WellFormed /\ pc'[w] = "stop"
    BY <2>1, <2>2, <1>3, <1>6, RequiredKinds DEF Owes, Ending
  <2>3. CASE e \in WellFormed /\ pc'[w] = "static"
    <3>1. \A kind \in Required(e, has) : pc'[w] \notin After(kind, has)
      BY <2>3, RequiredKinds DEF After, AfterArchive, Ending
    <3> QED
      BY <3>1, <2>1, <2>3, <1>3, <1>6 DEF Owes
  <2>4. CASE failed'[w] /\ pc'[w] = "stop"
    BY <2>1, <2>4, <1>3 DEF Owes, Ending
  <2> QED
    BY <2>2, <2>3, <2>4, <1>7, <1>8, <1>10 DEF Prepare
<1>11. CASE RunStatic(w)
  <2> DEFINE now == found'[w]
  <2>1. /\ pc[w] = "static" /\ ~saved[w] /\ UNCHANGED <<saved, bucket, promised>> /\ e \in WellFormed
        /\ pc'[w] \in {"saveStatic", "dynamic"}
        /\ pc'[w] = "dynamic" /\ ~failed'[w] => "static" \notin now
    <3>1. found \in [Worker -> Findings]
      BY DEF PlaceInv, TypeOK
    <3> QED
      BY <3>1, <1>11, <1>0, <1>7, <1>8 DEF RunStatic, At, Owes, AfterArchive, Busy, Handling, Ending
  <2>2. ~failed'[w] => \A kind \in Required(e, now) : pc'[w] \notin After(kind, now)
    BY <2>1, RequiredKinds DEF After, AfterArchive, Ending
  <2>3. Required(e, found[w])' = Required(e, now) /\ \A kind : After(kind, found[w])' = After(kind, now)
    BY <1>2 DEF Required, After
  <2> QED
    BY <2>1, <2>2, <2>3, <1>3 DEF Owes
<1>12. CASE SaveStaticAnalysisData(w)
  <2>1. /\ pc[w] = "saveStatic" /\ ~saved[w] /\ UNCHANGED <<saved, promised>> /\ e \in WellFormed
    BY <1>12, <1>0 DEF SaveStaticAnalysisData, At, Owes, AfterArchive, Busy, Handling, Ending
  <2>2. CASE failed'[w] /\ UNCHANGED bucket /\ pc'[w] = "dynamic"
    BY <2>1, <2>2, <1>3 DEF Owes
  <2>3. CASE /\ Put("static", e) /\ failed'[w] = failed[w]
             /\ pc'[w] = IF config.packages /\ ~saved[w] THEN "archiveStatic" ELSE "dynamic"
    <3>1. \A kind \in Required(e, has) : pc'[w] \in After(kind, has) => kind = "static"
      BY <2>1, <2>3, RequiredKinds DEF After, AfterArchive, Ending
    <3> QED
      BY <3>1, <2>1, <2>3, <1>4, <1>6 DEF Owes
  <2> QED
    BY <2>2, <2>3, <1>7, <1>8, <1>12 DEF SaveStaticAnalysisData
<1>13. ASSUME NEW at, NEW next,
              <<at, next>> \in {<<"archiveStatic", "dynamic">>, <<"archiveDynamic", "join">>},
              SaveAnalyzedPackage(w, at, next)
       PROVE  Goal
  <2>1. pc[w] = at /\ UNCHANGED promised /\ e \in WellFormed
    BY <1>13, <1>0 DEF SaveAnalyzedPackage, At, Owes, AfterArchive, Busy, Handling, Ending
  <2>2. \A kind \in Required(e, has) : next \in After(kind, has) => kind = "archive" \/ at \in After(kind, has)
    BY <1>13, RequiredKinds DEF After, AfterArchive, Ending
  <2>3. CASE /\ e \in Local \cup NoArchive /\ UNCHANGED bucket /\ pc'[w] = next /\ failed'[w] = failed[w]
    <3>1. "archive" \notin Required(e, has)
      BY <2>3, RequiredKinds
    <3>2. \A kind \in Required(e, has) : ~failed'[w] /\ next \in After(kind, has) => Stored(kind, e)
      BY <3>1, <2>1, <2>2, <2>3, <1>0, <1>1 DEF Owes, Busy
    <3> QED
      BY <3>2, <1>13, <2>1, <2>3, <1>3, <1>6 DEF Owes, AfterArchive
  <2>4. CASE Put("archive", e) /\ pc'[w] = next /\ failed'[w] = failed[w]
    <3>1. \A kind \in Required(e, has) : ~failed'[w] /\ next \in After(kind, has) => kind = "archive" \/ Stored(kind, e)
      BY <2>1, <2>2, <2>4, <1>0, <1>1 DEF Owes, Busy
    <3> QED
      BY <3>1, <1>13, <2>1, <2>4, <1>4, <1>6 DEF Owes, AfterArchive
  <2>5. CASE failed'[w] /\ pc'[w] = next /\ UNCHANGED <<bucket, saved>>
    BY <2>1, <2>5, <1>0, <1>3, <1>13 DEF Owes, AfterArchive
  <2>6. CASE pc'[w] = "exited" /\ UNCHANGED <<bucket, saved>>
    BY <2>1, <2>6, <1>3 DEF Owes, Busy, Handling
  <2> QED
    BY <2>3, <2>4, <2>5, <2>6, <1>7, <1>8, <1>13 DEF SaveAnalyzedPackage
<1>14. CASE RunDynamic(w)
  <2> DEFINE now == found'[w]
  <2>1. /\ pc[w] = "dynamic" /\ UNCHANGED <<saved, bucket, promised>> /\ e \in WellFormed
        /\ pc'[w] \in {"saveStrace", "join"}
        /\ pc'[w] = "join" /\ ~failed'[w] => "dynamic" \notin config.stores
        /\ ~failed'[w] => ~failed[w]
    BY <1>14, <1>0, <1>7, <1>8 DEF RunDynamic, At, Owes, Busy, Handling, Ending
  <2>2. "static" \in now <=> "static" \in has
    <3>1. found \in [Worker -> Findings]
      BY DEF PlaceInv, TypeOK
    <3>2. PICK yields \in SUBSET ({"log"} \cap config.stores) : found' = [found EXCEPT ![w] = @ \cup yields]
      BY <1>14 DEF RunDynamic
    <3> QED
      BY <3>1, <3>2
  <2>3. ~failed'[w] => \A kind \in Required(e, now) : pc'[w] \in After(kind, now) =>
                         kind \in Required(e, has) /\ pc[w] \in After(kind, has)
    <3> SUFFICES ASSUME ~failed'[w], NEW kind \in Required(e, now), pc'[w] \in After(kind, now)
                 PROVE  kind \in Required(e, has) /\ pc[w] \in After(kind, has)
      OBVIOUS
    <3>1. kind # "log"
      BY <2>1, RequiredKinds DEF After, AfterArchive, Ending
    <3>2. kind \in Required(e, has)
      BY <2>2, <3>1, RequiredKinds DEF Required
    <3>3. pc[w] \in After(kind, has)
      BY <2>1, <2>2, <3>1, RequiredKinds DEF After, AfterArchive, Ending
    <3> QED
      BY <3>2, <3>3
  <2>4. ~failed'[w] => \A kind \in Required(e, now) : pc'[w] \in After(kind, now) => Stored(kind, e)
    BY <2>1, <2>3, <1>0, <1>1 DEF Owes, Busy
  <2>5. Required(e, found[w])' = Required(e, now) /\ \A kind : After(kind, found[w])' = After(kind, now)
    BY <1>2 DEF Required, After
  <2> QED
    BY <2>1, <2>4, <2>5, <1>0, <1>3 DEF Owes, AfterArchive
<1>15. ASSUME NEW at, NEW kind \in {"dynamic", "log", "writes"}, NEW next, Upload(w, at, kind, next),
              at \in {"saveStrace", "saveLog", "saveWrites"},
              next \in (AfterArchive \cup {"archiveDynamic"}),
              \A k \in Required(e, has) :
                next \in After(k, has) =>
                  k = kind \/ at \in After(k, has) \/ (k = "archive" /\ saved[w])
       PROVE  Goal
  <2>1. pc[w] = at /\ UNCHANGED <<saved, promised>> /\ e \in WellFormed
    BY <1>15, <1>0 DEF Upload, At, Owes, Busy, Handling, Ending
  <2>2. CASE failed'[w] /\ pc'[w] = "join" /\ UNCHANGED bucket
    BY <2>1, <2>2, <1>0, <1>3, <1>15 DEF Owes, AfterArchive
  <2>3. CASE Put(kind, e) /\ pc'[w] = next /\ failed'[w] = failed[w]
    <3>1. \A k \in Required(e, has) : ~failed'[w] /\ next \in After(k, has) => k = kind \/ Stored(k, e)
      <4> SUFFICES ASSUME NEW k \in Required(e, has), ~failed'[w], next \in After(k, has), k # kind
                   PROVE  Stored(k, e)
        OBVIOUS
      <4>1. CASE at \in After(k, has)
        BY <4>1, <2>1, <2>3, <1>0, <1>1 DEF Owes, Busy
      <4>2. CASE k = "archive" /\ saved[w]
        BY <4>2, <2>1, <1>0, <1>15, RequiredKinds DEF Owes
      <4> QED
        BY <4>1, <4>2, <1>15
    <3>2. pc'[w] # "publish" /\ pc'[w] \in AfterArchive
      BY <2>3, <1>15 DEF AfterArchive
    <3> QED
      BY <3>1, <3>2, <2>1, <2>3, <1>0, <1>4, <1>6, <1>15 DEF Owes, AfterArchive
  <2> QED
    BY <2>2, <2>3, <1>7, <1>8, <1>15 DEF Upload
<1>16. CASE SaveStrace(w) \/ SaveExecutionLog(w) \/ SaveFileWrites(w)
  <2>1. AfterLog(w) \in {"join", "saveWrites", "archiveDynamic"}
    BY DEF AfterLog, AfterWrites
  <2>2. ASSUME NEW k \in Required(e, has), AfterLog(w) \in After(k, has)
        PROVE  \/ k \in {"static", "dynamic", "log"}
               \/ k = "archive" /\ (saved[w] \/ "saveLog" \in After(k, has))
    BY <2>2, RequiredKinds DEF After, AfterLog, AfterWrites, AfterArchive, Ending
  <2>6. "saveLog" \in After("static", has) /\ "saveLog" \in After("dynamic", has)
    BY DEF After, AfterArchive
  <2>3. CASE SaveStrace(w)
    <3> DEFINE next == IF "log" \in has THEN "saveLog" ELSE AfterLog(w)
    <3>1. next \in AfterArchive
      BY <2>1 DEF AfterArchive
    <3>2. \A k \in Required(e, has) :
             next \in After(k, has) =>
               k = "dynamic" \/ "saveStrace" \in After(k, has) \/ (k = "archive" /\ saved[w])
      BY <2>2, RequiredKinds DEF After, AfterArchive, Ending
    <3>3. Upload(w, "saveStrace", "dynamic", next)
      BY <2>3 DEF SaveStrace
    <3> HIDE DEF next
    <3> QED
      BY <3>1, <3>2, <3>3, <1>15
  <2>4. CASE SaveExecutionLog(w)
    <3>1. \A k \in Required(e, has) :
             AfterLog(w) \in After(k, has) =>
               k = "log" \/ "saveLog" \in After(k, has) \/ (k = "archive" /\ saved[w])
      BY <2>2, <2>6
    <3>2. AfterLog(w) \in AfterArchive \cup {"archiveDynamic"}
      BY <2>1 DEF AfterArchive
    <3>3. Upload(w, "saveLog", "log", AfterLog(w))
      BY <2>4 DEF SaveExecutionLog
    <3> QED
      BY <3>1, <3>2, <3>3, <1>15
  <2>5. CASE SaveFileWrites(w)
    <3>1. \A k \in Required(e, has) : "saveZip" \in After(k, has) => k = "writes" \/ "saveWrites" \in After(k, has)
      BY RequiredKinds DEF After, AfterArchive, Ending
    <3>2. "saveZip" \in AfterArchive
      BY DEF AfterArchive
    <3>3. Upload(w, "saveWrites", "writes", "saveZip")
      BY <2>5 DEF SaveFileWrites
    <3> QED
      BY <3>1, <3>2, <3>3, <1>15
  <2> QED
    BY <1>16, <2>3, <2>4, <2>5
<1>17. CASE SaveTempFilesToZip(w)
  <2>1. pc[w] = "saveZip" /\ UNCHANGED <<saved, promised>> /\ e \in WellFormed
    BY <1>17, <1>0 DEF SaveTempFilesToZip, At, Owes, Busy, Handling, Ending
  <2>2. BucketOK' /\ Kept
    BY <1>17, <2>1, <1>3, <1>4 DEF SaveTempFilesToZip
  <2>3. \/ failed'[w] /\ pc'[w] = "join"
        \/ failed'[w] = failed[w] /\ pc'[w] = "removeTemp"
    BY <1>17, <1>0, <1>7, <1>8 DEF SaveTempFilesToZip, Goto
  <2>4. \A k \in Required(e, has) : "removeTemp" \in After(k, has) => "saveZip" \in After(k, has)
    BY RequiredKinds DEF After, AfterArchive, Ending
  <2>5. \A k \in Required(e, has) : ~failed'[w] /\ pc'[w] \in After(k, has) => Stored(k, e)
    BY <2>1, <2>3, <2>4, <1>0, <1>1 DEF Owes, Busy
  <2>6. pc'[w] \in AfterArchive /\ pc'[w] # "publish"
    BY <2>3 DEF AfterArchive
  <2> QED
    BY <2>1, <2>2, <2>5, <2>6, <1>0, <1>6 DEF Owes, AfterArchive
<1>18. CASE RemoveTempFiles(w)
  <2>1. pc[w] = "removeTemp" /\ UNCHANGED <<saved, bucket, promised>> /\ e \in WellFormed
    BY <1>18, <1>0 DEF RemoveTempFiles, At, Owes, Busy, Handling, Ending
  <2>2. \/ failed'[w] /\ pc'[w] = "join"
        \/ failed'[w] = failed[w] /\ pc'[w] = AfterWrites(w)
    BY <1>18, <1>7, <1>8 DEF RemoveTempFiles
  <2>3. \A k \in Required(e, has) : AfterWrites(w) \in After(k, has) =>
                               "removeTemp" \in After(k, has) \/ (k = "archive" /\ saved[w])
    BY RequiredKinds DEF After, AfterWrites, AfterArchive, Ending
  <2>4. \A k \in Required(e, has) : ~failed'[w] /\ pc'[w] \in After(k, has) => Stored(k, e)
    <3> SUFFICES ASSUME NEW k \in Required(e, has), ~failed'[w], pc'[w] \in After(k, has)
                 PROVE  Stored(k, e)
      OBVIOUS
    <3>1. CASE "removeTemp" \in After(k, has)
      BY <3>1, <2>1, <2>2, <1>0, <1>1 DEF Owes, Busy
    <3>2. CASE k = "archive" /\ saved[w]
      BY <3>2, <2>1, <1>0, RequiredKinds DEF Owes
    <3> QED
      BY <2>2, <2>3, <3>1, <3>2
  <2>5. pc'[w] \in AfterArchive /\ pc'[w] # "publish"
    BY <2>2 DEF AfterWrites, AfterArchive
  <2> QED
    BY <2>1, <2>4, <2>5, <1>0, <1>3, <1>6 DEF Owes, AfterArchive
<1>19. CASE Join(w)
  <2>1. /\ pc[w] = "join" /\ ~saved'[w] /\ UNCHANGED <<bucket, promised>> /\ failed'[w] = failed[w]
        /\ pc'[w] \in {"publish", "stop"} /\ (pc'[w] = "publish" => ~failed[w])
    BY <1>19, <1>0, <1>8 DEF Join, At
  <2>2. \A k \in Required(e, has) : pc'[w] \in After(k, has) => "join" \in After(k, has)
    BY <2>1, RequiredKinds DEF After, AfterArchive, Ending
  <2>3. \A k \in Required(e, has) : ~failed'[w] /\ pc'[w] \in After(k, has) => Stored(k, e)
    BY <2>1, <2>2, <1>0, <1>1 DEF Owes, Busy
  <2> QED
    BY <2>1, <2>3, <1>3, <1>6 DEF Owes, Ending
<1>20. CASE Publish(w)
  <2>1. /\ pc[w] = "publish" /\ ~failed[w] /\ ~saved[w] /\ UNCHANGED <<saved, bucket>> /\ pc'[w] = "stop"
    BY <1>20, <1>0, <1>7, <1>8 DEF Publish, At, Owes, AfterArchive
  <2>4. Announced
    BY <1>20, <2>1 DEF Publish, Promise
  <2>2. \A k \in Required(e, has) : "stop" \in After(k, has) => "publish" \in After(k, has)
    BY RequiredKinds DEF After, AfterArchive, Ending
  <2>3. \A k \in Required(e, has) : pc'[w] \in After(k, has) => Stored(k, e)
    BY <2>1, <2>2, <1>0, <1>1 DEF Owes, Busy
  <2> QED
    BY <2>1, <2>3, <2>4, <1>3, <1>6 DEF Owes, Ending
<1> QED
  BY <1>10, <1>11, <1>12, <1>13, <1>14, <1>16, <1>17, <1>18, <1>19, <1>20 DEF HandleMessage

\* Every other step adds nothing to the buckets, and its worker owes nothing new
LEMMA StoringStep == PlaceInv /\ PlaceInv' /\ StoringInv /\ [Next]_vars => StoringInv'
<1> SUFFICES ASSUME PlaceInv, PlaceInv', StoringInv, [Next]_vars PROVE StoringInv'
  OBVIOUS
<1> USE PipelineConstants
<1>0. /\ config \in Configs /\ config.replicas \subseteq Worker
      /\ pc \in [Worker -> PC] /\ msg \in [Worker -> Msg \cup {None}]
      /\ failed \in [Worker -> BOOLEAN] /\ saved \in [Worker -> BOOLEAN]
      /\ \A w \in Worker : Owes(w, EntryOf(w))
      /\ \A w \in Worker : pc[w] \in Busy => msg[w] \in Msg /\ body[msg[w]] # None
  BY DEF PlaceInv, TypeOK, CarriedInv, StoringInv, Config
<1>1. /\ UNCHANGED config
      /\ \A e, has : Required(e, has)' = Required(e, has) /\ \A kind : After(kind, has)' = After(kind, has)
  <2>1. ASSUME NEW w \in config.replicas, HandleMessage(w) PROVE UNCHANGED config
    BY <2>1, <1>0, HandleFrame DEF Handles
  <2>2. UNCHANGED config
    BY <2>1 DEF Next, Scheduler, SchedulerCrash, Preprocess, Send, AckFeed, SchedVars, ClockTick, MessageLoop,
         Receive, StartFails, StopSend, StopReceive, AckOrNack, Restart, Crash, Extender, ExtendBegin,
         ExtendEnd, envVars, vars
  <2> QED
    BY <2>2 DEF Required, After
<1>2. \A m \in Msg : body[m] # None => body'[m] = body[m]
  <2>1. ASSUME NEW w \in config.replicas, HandleMessage(w) PROVE UNCHANGED body
    BY <2>1, <1>0, HandleFrame DEF Handles
  <2>2. ASSUME NEW e \in config.announced, Send(e) PROVE \A m \in Msg : body[m] # None => body'[m] = body[m]
    BY <2>2 DEF Send, PlaceInv, TypeOK
  <2> QED
    BY <2>1, <2>2 DEF Next, Scheduler, SchedulerCrash, Preprocess, AckFeed, SchedVars, ClockTick, MessageLoop,
         Receive, StartFails, StopSend, StopReceive, AckOrNack, Restart, Crash, Extender, ExtendBegin,
         ExtendEnd, envVars, vars
<1>3. ASSUME NEW w \in Worker, \A k, f : Stored(k, f) => Stored(k, f)',
             pc'[w] = pc[w], saved'[w] = saved[w], failed'[w] = failed[w], msg'[w] = msg[w],
             found'[w] = found[w]
      PROVE  Owes(w, EntryOf(w))'
  <2>1. CASE pc[w] \in Busy
    <3>1. EntryOf(w)' = EntryOf(w)
      BY <2>1, <1>0, <1>2, <1>3 DEF EntryOf
    <3> QED
      BY <3>1, <1>0, <1>1, <1>3 DEF Owes
  <2>2. CASE pc[w] \notin Busy
    <3>1. saved[w] => pc[w] = "exited"
      BY <2>2, <1>0 DEF Owes, AfterArchive, Busy, Handling
    <3> QED
      BY <3>1, <2>2, <1>3 DEF Owes, Busy, Handling
  <2> QED
    BY <2>1, <2>2
<1>5. ASSUME \A k, f : Stored(k, f) => Stored(k, f)', NEW p, StoredAll(p)
      PROVE  StoredAll(p)'
  BY <1>1, <1>5 DEF StoredAll
<1>6. UNCHANGED bucket => BucketOK' /\ \A k, f : Stored(k, f) => Stored(k, f)'
  BY DEF StoringInv, BucketOK, Stored
<1>7. CASE UNCHANGED <<bucket, promised, pc, saved, failed, found, msg>>
  BY <1>3, <1>5, <1>6, <1>7 DEF StoringInv
<1>8. ASSUME NEW w \in config.replicas, HandleMessage(w)
      PROVE  StoringInv'
  <2> DEFINE Goal(e) == /\ Owes(w, e)' /\ BucketOK' /\ \A k, f : Stored(k, f) => Stored(k, f)'
                        /\ \A p \in promised' : p \in promised \/ (/\ p.entry = e /\ p.found = found[w]
                                                                 /\ ~failed[w] /\ pc[w] = "publish")
  <2>1. PICK e : e = EntryOf(w)
    OBVIOUS
  <2>2. Goal(e)
    BY <1>0, <1>8, <2>1, HandleOwes
  <2>3. Handles(w)
    BY <1>0, <1>8, HandleFrame
  <2>4. EntryOf(w)' = e /\ pc[w] \in Busy
    BY <2>1, <2>3, <1>0 DEF Handles, EntryOf, Busy
  <2>5. \A v \in Worker : v # w => pc'[v] = pc[v] /\ msg'[v] = msg[v]
    BY <2>3, <1>0 DEF Handles
  <2>10. \A v \in Worker : v # w => found'[v] = found[v]
    <3>1. \/ UNCHANGED found
          \/ \E now : found' = [found EXCEPT ![w] = now]
      BY <1>8 DEF HandleMessage, Prepare, RunStatic, SaveStaticAnalysisData, SaveAnalyzedPackage, RunDynamic,
         SaveStrace, SaveExecutionLog, SaveFileWrites, Upload, SaveTempFilesToZip, RemoveTempFiles, Join,
         Publish, stillVars
    <3>2. found \in [Worker -> Findings]
      BY DEF PlaceInv, TypeOK
    <3> QED
      BY <3>1, <3>2
  <2>6. \A v \in Worker : v # w => saved'[v] = saved[v] /\ failed'[v] = failed[v]
    BY <1>0, <1>8 DEF HandleMessage, Prepare, RunStatic, SaveStaticAnalysisData, SaveAnalyzedPackage, RunDynamic,
         SaveStrace, SaveExecutionLog, SaveFileWrites, Upload, SaveTempFilesToZip, RemoveTempFiles, Join,
         Publish, Ok, Err, stillVars
  <2>7. \A v \in Worker : Owes(v, EntryOf(v))'
    BY <2>2, <2>4, <2>5, <2>6, <2>10, <1>3
  <2>8. ASSUME NEW p \in promised', p \notin promised PROVE StoredAll(p)'
    <3>1. p.entry = e /\ p.found = found[w] /\ ~failed[w] /\ pc[w] = "publish"
      BY <2>2, <2>8
    <3>2. \A kind \in Required(e, found[w]) : "publish" \in After(kind, found[w])
      BY RequiredKinds DEF After, Ending
    <3>3. \A kind \in Required(e, found[w]) : Stored(kind, e)
      BY <3>1, <3>2, <2>1, <2>4, <1>0 DEF Owes
    <3>4. StoredAll(p)
      BY <3>1, <3>3 DEF StoredAll
    <3> QED
      BY <3>4, <2>2, <1>5
  <2>9. \A p \in promised' : StoredAll(p)'
    BY <2>2, <2>8, <1>5 DEF StoringInv
  <2> QED
    BY <2>2, <2>7, <2>9 DEF StoringInv
<1>9. ASSUME NEW w \in config.replicas, NEW to \in {"prepare", "exited", "stopped", "reply", "receive"},
             UNCHANGED bucket, pc' = [pc EXCEPT ![w] = to],
             to \in {"stopped", "reply"} => /\ pc[w] \in {"stop", "stopped"}
                                            /\ msg'[w] = msg[w] /\ saved'[w] = saved[w] /\ failed'[w] = failed[w]
                                            /\ found'[w] = found[w],
             to \in {"prepare", "receive"} => ~saved'[w],
             \A v \in Worker : v # w => /\ saved'[v] = saved[v] /\ failed'[v] = failed[v]
                                       /\ msg'[v] = msg[v] /\ found'[v] = found[v],
             promised' = promised \/ (/\ pc[w] = "reply" /\ ~failed[w] /\ Promise(w))
      PROVE  StoringInv'
  <2>1. Owes(w, EntryOf(w))'
    <3>1. CASE to \in {"stopped", "reply"}
      <4>1. EntryOf(w)' = EntryOf(w) /\ pc[w] \in Busy /\ pc'[w] = to
        BY <3>1, <1>0, <1>2, <1>9 DEF EntryOf, Busy, Handling
      <4>2. \A kind \in Required(EntryOf(w), found[w]) : pc[w] \in After(kind, found[w])
        BY <3>1, <1>9, RequiredKinds DEF After, Ending
      <4>3. ~failed[w] => \A kind \in Required(EntryOf(w), found[w]) : Stored(kind, EntryOf(w))
        BY <4>1, <4>2, <1>0 DEF Owes
      <4>4. ~saved[w]
        BY <3>1, <1>0, <1>9 DEF Owes, AfterArchive
      <4> QED
        BY <4>1, <4>3, <4>4, <3>1, <1>1, <1>6, <1>9 DEF Owes, Ending
    <3>2. CASE to = "prepare"
      <4>1. \A has, kind : to \notin After(kind, has)
        BY <3>2 DEF After, AfterArchive, Ending
      <4>2. pc'[w] = to /\ \A has, kind : to \notin After(kind, has)'
        BY <4>1, <1>0, <1>1, <1>9
      <4>3. ~saved'[w]
        BY <3>2, <1>9
      <4> QED
        BY <4>2, <4>3, <3>2 DEF Owes
    <3>3. CASE to \in {"exited", "receive"}
      BY <3>3, <1>0, <1>9 DEF Owes, Busy, Handling
    <3> QED
      BY <3>1, <3>2, <3>3, <1>9
  <2>2. \A v \in Worker : v # w => Owes(v, EntryOf(v))'
    BY <1>0, <1>3, <1>6, <1>9
  <2>3. \A p \in promised' : StoredAll(p)'
    <3>1. CASE promised' = promised
      BY <3>1, <1>5, <1>6, <1>9 DEF StoringInv
    <3>2. CASE pc[w] = "reply" /\ ~failed[w] /\ Promise(w)
      <4>1. \A kind \in Required(EntryOf(w), found[w]) : "reply" \in After(kind, found[w])
        BY RequiredKinds DEF After, Ending
      <4>2. StoredAll([entry |-> EntryOf(w), found |-> found[w]])
        BY <4>1, <3>2, <1>0 DEF Owes, StoredAll, Busy
      <4>3. \A p \in promised' : StoredAll(p)
        BY <4>2, <3>2 DEF Promise, StoringInv
      <4> QED
        BY <4>3, <1>5, <1>6, <1>9
    <3> QED
      BY <3>1, <3>2, <1>9
  <2> QED
    BY <2>1, <2>2, <2>3, <1>6, <1>9 DEF StoringInv
<1>10. ASSUME NEW w \in config.replicas, NEW m \in Msg, Receive(w, m) PROVE StoringInv'
  <2>1. ~saved[w]
    BY <1>10, <1>0 DEF Receive, Owes, AfterArchive
  <2> QED
    BY <2>1, <1>0, <1>9, <1>10 DEF Receive, Goto
<1>11. ASSUME NEW w \in config.replicas, NEW m \in Msg, StartFails(w, m) PROVE StoringInv'
  <2>1. ~saved[w]
    BY <1>11, <1>0 DEF StartFails, Owes, AfterArchive
  <2> QED
    BY <2>1, <1>0, <1>9, <1>11 DEF StartFails, Goto
<1>12. ASSUME NEW w \in config.replicas, StopSend(w) \/ StopReceive(w) PROVE StoringInv'
  <2>1. ~saved[w]
    BY <1>12, <1>0 DEF StopSend, StopReceive, At, Owes, AfterArchive
  <2> QED
    BY <2>1, <1>0, <1>9, <1>12 DEF StopSend, StopReceive, At, Goto, leaseVars
<1>13. ASSUME NEW w \in config.replicas, AckOrNack(w) PROVE StoringInv'
  <2>1. ~saved[w]
    BY <1>13, <1>0 DEF AckOrNack, At, Owes, AfterArchive
  <2> QED
    <3>1. found \in [Worker -> Findings]
      BY DEF PlaceInv, TypeOK
    <3>2. /\ \A v \in Worker : v # w => found'[v] = found[v] /\ msg'[v] = msg[v] /\ failed'[v] = failed[v]
          /\ UNCHANGED <<saved, bucket>> /\ pc' = [pc EXCEPT ![w] = "receive"]
      BY <3>1, <1>0, <1>13 DEF AckOrNack, Goto
    <3>3. promised' = promised \/ (pc[w] = "reply" /\ ~failed[w] /\ Promise(w))
      BY <1>13 DEF AckOrNack, At
    <3> QED
      BY <3>2, <3>3, <2>1, <1>9
<1>14. ASSUME NEW w \in config.replicas, Restart(w) PROVE StoringInv'
  <2>1. found \in [Worker -> Findings]
    BY DEF PlaceInv, TypeOK
  <2>2. /\ \A v \in Worker : v # w => /\ found'[v] = found[v] /\ msg'[v] = msg[v]
                                     /\ failed'[v] = failed[v] /\ saved'[v] = saved[v]
        /\ UNCHANGED <<bucket, promised>> /\ pc' = [pc EXCEPT ![w] = "receive"] /\ ~saved'[w]
    BY <2>1, <1>0, <1>14 DEF Restart, Goto
  <2> QED
    BY <2>2, <1>9
<1>15. ASSUME NEW w \in config.replicas, Crash(w) PROVE StoringInv'
  BY <1>0, <1>9, <1>15 DEF Crash, Goto, leaseVars
<1>16. ASSUME NEW w \in config.replicas, Extender(w) PROVE StoringInv'
  BY <1>7, <1>16 DEF Extender, ExtendBegin, ExtendEnd, leaseVars, procVars
<1>17. CASE Scheduler \/ SchedulerCrash \/ ClockTick \/ UNCHANGED vars
  BY <1>7, <1>17 DEF Scheduler, Preprocess, Send, AckFeed, SchedulerCrash, SchedVars, ClockTick, vars,
       leaseVars, procVars
<1> QED
  BY <1>8, <1>10, <1>11, <1>12, <1>13, <1>14, <1>15, <1>16, <1>17 DEF Next, MessageLoop

LEMMA StoringHolds == Spec => [](PlaceInv /\ StoringInv)
<1>1. Init => StoringInv
  BY DEF Init, StoringInv, BucketOK, Owes, Busy, Handling
<1> QED
  BY <1>1, StoringStep, PlacesAreTyped, PTL DEF Spec

\* The archive's key is the entry itself, so the object is the entry's own
LEMMA OwnArchive ==
  ASSUME BucketOK, NEW e, Stored("archive", e)
  PROVE  Object("archive", e) \in bucket
BY DEF BucketOK, Stored, Object, KeyOf

\* AnalyzedPackageSaved speaks of the message in hand: while it is set the
\* archive of that message is in the bucket, or there is none to upload, so
\* the dynamic phase that skips the upload loses nothing.
THEOREM SavedFlagIsRight == Spec => []SavedIsThisArchive
<1>1. PlaceInv /\ StoringInv => SavedIsThisArchive
  <2> SUFFICES ASSUME PlaceInv, StoringInv, NEW w \in Worker, pc[w] # "exited", saved[w]
               PROVE  /\ msg[w] # None
                      /\ \/ EntryOf(w) \in Local \cup NoArchive
                         \/ Object("archive", EntryOf(w)) \in bucket
    BY DEF SavedIsThisArchive
  <2>1. pc[w] \in AfterArchive /\ (EntryOf(w) \in Local \cup NoArchive \/ Stored("archive", EntryOf(w)))
    BY DEF StoringInv, Owes
  <2>2. msg[w] \in Msg /\ None \notin Msg
    BY <2>1, PipelineConstants DEF PlaceInv, CarriedInv, AfterArchive, Busy, Handling, Msg
  <2> QED
    BY <2>1, <2>2, OwnArchive DEF StoringInv
<1> QED
  BY <1>1, StoringHolds, PTL

\* What an acknowledged or announced handling found, and the configuration
\* asks for, is under its entry's keys, through any failed uploads,
\* redeliveries, concurrent handlings and crashes, for any entries and keys.
THEOREM AckedHasResults == Spec => []AckedIsStored
<1>1. PlaceInv /\ StoringInv => AckedIsStored
  BY DEF StoringInv, StoredAll, AckedIsStored
<1> QED
  BY <1>1, StoringHolds, PTL
=============================================================================
