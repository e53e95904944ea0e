--------------------------- MODULE AnalysisWorker ---------------------------
(***************************************************************************)
(* The Pub/Sub pipeline of dynamic-analysis/: the scheduler that proxies   *)
(* package-feeds messages (cmd/scheduler), the workers that analyse and    *)
(* store (cmd/worker, internal/worker, internal/resultstore), and the      *)
(* goroutine that extends the ack deadline of the message in hand          *)
(* (cmd/worker/pubsubextender).                                            *)
(*                                                                         *)
(* Time is discrete: ClockTick is one unit for every lease and ticker.     *)
(* What the analyses compute is left out, but not that they may yield      *)
(* nothing: the status of neither sandbox is looked at, so static results  *)
(* and an execution log may be empty, in one handling and not in the next. *)
(* A fault is any call that returns an error, a crash or a lost ack, and a *)
(* budget bounds them.                                                     *)
(***************************************************************************)
EXTENDS Naturals

CONSTANTS
  Worker,          \* replicas of the worker, one message at a time each
  Entry,           \* package versions the feed announces
  NameOf,          \* the package an entry is a version of
  Supported,       \* entries the scheduler passes on
  WellFormed,      \* entries with a name, an ecosystem and a package manager
  Local,           \* entries with a package_path in the packages bucket
  NoArchive,       \* entries whose package manager knows no archive URL
  Configs,         \* configurations of the worker
  AckDeadlines,    \* ack deadlines the subscription may have
  DefaultDeadline, \* defaultDeadline, of an extender without a driver
  Grace,           \* defaultGracePeriod
  Slack,           \* longest time from a tick to the end of its extension
  MinAck, MaxAck,  \* gcpMinAckDeadline, gcpMaxAckDeadline
  MaxMsgs,         \* messages the scheduler may send
  MaxFaults,       \* faults that may happen
  None

Kind == {"static", "dynamic", "log", "writes", "zip", "archive"}
Store == Kind \ {"zip"}
Findings == SUBSET {"static", "log"}
Promises == [entry : Entry, found : Findings]
Config == [replicas : SUBSET Worker,
           announced : SUBSET Entry, \* what the feed announces
           stores : SUBSET Store,   \* resultStores that are not nil
           files : BOOLEAN,         \* feature WriteFileContents
           packages : BOOLEAN,      \* feature SaveAnalyzedPackages
           notify : BOOLEAN,        \* a notification topic is configured
           nackable : BOOLEAN,      \* the subscription's messages can be nacked
           extender : BOOLEAN]      \* feature PubSubExtender

ASSUME PipelineConstants ==
  /\ Supported \subseteq Entry /\ WellFormed \subseteq Entry
  /\ {MaxMsgs, MaxFaults, Slack} \subseteq Nat
  /\ {Grace, DefaultDeadline, MinAck, MaxAck} \subseteq Nat \ {0}
  /\ AckDeadlines \subseteq MinAck .. MaxAck
  /\ Configs \subseteq Config
  /\ None \notin Entry \cup Worker \cup (1 .. MaxMsgs)
  /\ DefaultDeadline > Grace
  /\ Slack < Grace

Msg == 1 .. MaxMsgs

VARIABLES
  config, ackDeadline,
  feed,       \* where each entry is in the scheduler
  body,       \* the entry each sent message carries
  lease,      \* time left before the subscription delivers a message again
  owner,      \* the worker with the last delivery of a leased message
  acked,      \* messages the subscription has seen acknowledged
  pc, msg,    \* where each worker is, and the message it handles
  failed,     \* an error is to be returned by handleMessage
  found,      \* what its analyses yielded: static results, an execution log
  saved,      \* ResultStores.AnalyzedPackageSaved
  buffers,    \* write buffers are on the worker's disk
  ext,        \* where the extender's goroutine is
  extErr,     \* its last extension failed, and its ticker is stopped
  timer, due, late,  \* its ticker: time to the next tick, unserved tick, its age
  bucket,     \* objects in the result buckets
  promised,   \* handlings that were acknowledged or announced, by what they found
  faults

leaseVars == <<lease, owner, acked>>
extVars   == <<ext, extErr, timer, due, late>>
procVars  == <<pc, msg, failed, found, saved, buffers>>
vars == <<config, ackDeadline, feed, body, leaseVars, procVars, extVars,
          bucket, promised, faults>>

Handling == {"prepare", "static", "saveStatic", "archiveStatic", "dynamic",
             "saveStrace", "saveLog", "saveWrites", "saveZip", "removeTemp",
             "archiveDynamic", "join", "publish", "stop"}
PC == Handling \cup {"receive", "stopped", "reply", "exited"}

\* New takes the subscription's deadline; the noop driver's 0 becomes the default
Deadline == IF config.extender THEN ackDeadline ELSE DefaultDeadline
NoGrace == Deadline

Freq == Deadline - Grace
AckSeconds(d) == IF d < MinAck THEN MinAck ELSE IF d > MaxAck THEN MaxAck ELSE d

Fault == faults < MaxFaults /\ faults' = faults + 1
Ready(m) == body[m] # None /\ m \notin acked /\ lease[m] = 0
EntryOf(w) == body[msg[w]]

------------------------------------------------------------------------------
(* Result buckets *)

\* saveWithFilename's default key is the package's name alone; the other
\* keys contain the version
KeyOf(kind, e) == IF kind \in {"static", "dynamic", "writes"} THEN NameOf[e] ELSE e
Object(kind, e) == [kind |-> kind, key |-> KeyOf(kind, e), entry |-> e]
Put(kind, e) ==
  bucket' = {o \in bucket : <<o.kind, o.key>> # <<kind, KeyOf(kind, e)>>}
              \cup {Object(kind, e)}

Goto(w, to) == pc' = [pc EXCEPT ![w] = to]
\* a step of handleMessage that succeeds, or returns an error
Ok(w, to)   == Goto(w, to) /\ UNCHANGED <<failed, faults>>
Err(w, to)  == Goto(w, to) /\ Fault /\ failed' = [failed EXCEPT ![w] = TRUE]
envVars     == <<config, ackDeadline, feed, body>>

------------------------------------------------------------------------------
(* The scheduler *)

SchedVars == <<config, ackDeadline, leaseVars, procVars, extVars, bucket, promised>>

\* One goroutine per received message: an entry that is not supported is acked
Preprocess(e) ==
  /\ feed[e] = "ready"
  /\ feed' = [feed EXCEPT ![e] = IF e \in Supported THEN "sending" ELSE "acked"]
  /\ UNCHANGED <<SchedVars, body, faults>>

\* A failed Send ends the goroutine with the message unacked
Send(e) ==
  /\ feed[e] = "sending"
  /\ \/ /\ \E m \in Msg : /\ body[m] = None
                          /\ \A n \in 1 .. m - 1 : body[n] # None
                          /\ body' = [body EXCEPT ![m] = e]
        /\ feed' = [feed EXCEPT ![e] = "sent"]
        /\ UNCHANGED faults
     \/ Fault /\ feed' = [feed EXCEPT ![e] = "ready"] /\ UNCHANGED body
  /\ UNCHANGED SchedVars

AckFeed(e) ==
  /\ feed[e] = "sent"
  /\ feed' = [feed EXCEPT ![e] = "acked"]
  /\ UNCHANGED <<SchedVars, body, faults>>

SchedulerCrash ==
  /\ Fault
  /\ feed' = [e \in DOMAIN feed |-> IF feed[e] = "acked" THEN "acked" ELSE "ready"]
  /\ UNCHANGED <<SchedVars, body>>

------------------------------------------------------------------------------
(* Receiving, and the extender *)

Lease(m, w, d) == /\ lease' = [lease EXCEPT ![m] = d]
                  /\ owner' = [owner EXCEPT ![m] = IF d = 0 THEN None ELSE w]

Receive(w, m) ==
  /\ pc[w] = "receive" /\ Ready(m) /\ Deadline > Grace
  /\ Lease(m, w, ackDeadline)
  /\ ext' = [ext EXCEPT ![w] = "select"]
  /\ extErr' = [extErr EXCEPT ![w] = FALSE]
  /\ timer' = [timer EXCEPT ![w] = Freq]
  /\ due' = [due EXCEPT ![w] = FALSE]
  /\ late' = [late EXCEPT ![w] = 0]
  /\ msg' = [msg EXCEPT ![w] = m]
  /\ Goto(w, "prepare")
  /\ UNCHANGED <<envVars, acked, failed, found, saved, buffers, bucket, promised, faults>>

\* Start refuses a deadline below the grace period: Nack if the message can be
\* nacked, and messageLoop returns.  It accepts an equal one, and time.NewTicker(0) panics.
StartFails(w, m) ==
  /\ pc[w] = "receive" /\ Ready(m) /\ Deadline <= Grace
  /\ IF Deadline < Grace /\ config.nackable THEN UNCHANGED <<lease, owner>> ELSE Lease(m, w, ackDeadline)
  /\ Goto(w, "exited")
  /\ UNCHANGED <<envVars, acked, extVars, msg, failed, found, saved, buffers, bucket,
                 promised, faults>>

\* The goroutine takes the tick, and calls ExtendMessageDeadline
ExtendBegin(w) ==
  /\ ext[w] = "select" /\ due[w]
  /\ ext' = [ext EXCEPT ![w] = "calling"]
  /\ UNCHANGED <<envVars, leaseVars, procVars, extErr, timer, due, late, bucket,
                 promised, faults>>

\* the goroutine returns after a failed extension
ExtendOrReturn(w) ==
  /\ ext[w] = "calling"
  /\ due' = [due EXCEPT ![w] = FALSE]
  /\ \/ /\ ext' = [ext EXCEPT ![w] = "select"]
        /\ IF config.extender /\ owner[msg[w]] = w
             THEN Lease(msg[w], w, AckSeconds(Deadline))
             ELSE UNCHANGED <<lease, owner>>
        /\ UNCHANGED faults
     \/ /\ ext' = [ext EXCEPT ![w] = "none"]
        /\ config.extender /\ Fault /\ UNCHANGED <<lease, owner>>
  /\ UNCHANGED <<envVars, acked, procVars, extErr, timer, late, bucket, promised>>

\* The service extends the delivery that is still the worker's; after an
\* error the ticker is stopped and the goroutine waits for done
ExtendEnd(w) ==
  /\ ext[w] = "calling"
  /\ ext' = [ext EXCEPT ![w] = "select"]
  /\ due' = [due EXCEPT ![w] = FALSE]
  /\ late' = [late EXCEPT ![w] = 0]
  /\ \/ /\ IF config.extender /\ owner[msg[w]] = w
             THEN Lease(msg[w], w, AckSeconds(Deadline))
             ELSE UNCHANGED <<lease, owner>>
        /\ UNCHANGED <<extErr, faults>>
     \/ /\ config.extender /\ Fault
        /\ extErr' = [extErr EXCEPT ![w] = TRUE]
        /\ UNCHANGED <<lease, owner>>
  /\ UNCHANGED <<envVars, acked, procVars, timer, bucket, promised>>

Ticking(w) == ext[w] \in {"select", "calling"} /\ ~extErr[w]

\* One unit of time: a tick is served within Slack
ClockTick ==
  /\ \E m \in Msg : lease[m] > 0
  /\ \A w \in Worker : due[w] => late[w] < Slack
  /\ lease' = [m \in Msg |-> IF lease[m] = 0 THEN 0 ELSE lease[m] - 1]
  /\ owner' = [m \in Msg |-> IF lease[m] <= 1 THEN None ELSE owner[m]]
  /\ timer' = [w \in Worker |-> IF ~Ticking(w) THEN timer[w]
                                ELSE IF timer[w] = 1 THEN Freq ELSE timer[w] - 1]
  /\ due' = [w \in Worker |-> due[w] \/ (Ticking(w) /\ timer[w] = 1)]
  /\ late' = [w \in Worker |-> IF due[w] THEN late[w] + 1 ELSE 0]
  /\ UNCHANGED <<envVars, acked, procVars, ext, extErr, bucket, promised, faults>>

------------------------------------------------------------------------------
(* handleMessage *)

calmVars == <<envVars, leaseVars, extVars, msg>>
stillVars == <<calmVars, found>>
At(w, loc) == pc[w] = loc

\* Early returns, the copy of a package_path, and ResolvePkg
Prepare(w) ==
  /\ At(w, "prepare")
  /\ \/ EntryOf(w) \notin WellFormed /\ Ok(w, "stop")
     \/ EntryOf(w) \in WellFormed /\ Ok(w, "static")
     \/ EntryOf(w) \in WellFormed /\ Err(w, "stop")
  /\ UNCHANGED <<stillVars, saved, buffers, bucket, promised>>

\* A sandbox that fails may have written no results, and that is no error
RunStatic(w) ==
  /\ At(w, "static")
  /\ \E yields \in SUBSET ({"static"} \cap config.stores) :
       /\ found' = [found EXCEPT ![w] = yields]
       /\ \/ yields = {} /\ Err(w, "dynamic")
          \/ Ok(w, IF yields # {} THEN "saveStatic" ELSE "dynamic")
  /\ UNCHANGED <<calmVars, saved, buffers, bucket, promised>>

SaveStaticAnalysisData(w) ==
  /\ At(w, "saveStatic")
  /\ \/ Err(w, "dynamic") /\ UNCHANGED bucket
     \/ /\ Put("static", EntryOf(w))
        /\ Ok(w, IF config.packages /\ ~saved[w] THEN "archiveStatic" ELSE "dynamic")
  /\ UNCHANGED <<stillVars, saved, buffers, promised>>

\* A nil AnalyzedPackage store is dereferenced once the archive is there
SaveAnalyzedPackage(w, at, next) ==
  /\ At(w, at)
  /\ LET e == EntryOf(w)
         skip == e \in Local \cup NoArchive
     IN \/ /\ skip \/ "archive" \in config.stores
           /\ IF skip THEN UNCHANGED bucket ELSE Put("archive", e)
           /\ saved' = [saved EXCEPT ![w] = TRUE]
           /\ Ok(w, next)
        \/ e \notin Local /\ Err(w, next) /\ UNCHANGED <<bucket, saved>>
        \/ /\ ~skip /\ "archive" \notin config.stores
           /\ Ok(w, "exited")
           /\ UNCHANGED <<bucket, saved>>
  /\ UNCHANGED <<envVars, leaseVars, msg, found, buffers, promised>>
  /\ IF pc'[w] = "exited"
       THEN ext' = [ext EXCEPT ![w] = "none"] /\ due' = [due EXCEPT ![w] = FALSE]
            /\ UNCHANGED <<extErr, timer, late>>
       ELSE UNCHANGED extVars

\* strace.Parse leaves the write buffers of the phases that ran on disk.  An
\* execution log that cannot be read is none, and so is an empty one
RunDynamic(w) ==
  /\ At(w, "dynamic")
  /\ \E yields \in SUBSET ({"log"} \cap config.stores) : found' = [found EXCEPT ![w] = @ \cup yields]
  /\ \/ /\ Err(w, "join")
        /\ buffers' \in {buffers, [buffers EXCEPT ![w] = @ \/ config.files]}
     \/ /\ Ok(w, IF "dynamic" \in config.stores THEN "saveStrace" ELSE "join")
        /\ buffers' = [buffers EXCEPT ![w] = @ \/ config.files]
  /\ UNCHANGED <<calmVars, saved, bucket, promised>>

\* SaveDynamicAnalysisData: the uploads in their order, aborted by an error
Upload(w, at, kind, next) ==
  /\ At(w, at)
  /\ \/ Err(w, "join") /\ UNCHANGED bucket
     \/ Put(kind, EntryOf(w)) /\ Ok(w, next)
  /\ UNCHANGED <<stillVars, saved, buffers, promised>>

AfterWrites(w) == IF config.packages /\ ~saved[w] THEN "archiveDynamic" ELSE "join"
AfterLog(w) == IF ~config.files THEN "join"
               ELSE IF "writes" \in config.stores THEN "saveWrites" ELSE AfterWrites(w)
SaveStrace(w) ==
  Upload(w, "saveStrace", "dynamic",
         IF "log" \in found[w] THEN "saveLog" ELSE AfterLog(w))
SaveExecutionLog(w) == Upload(w, "saveLog", "log", AfterLog(w))

SaveFileWrites(w)   == Upload(w, "saveWrites", "writes", "saveZip")

\* The errors of the deferred Closes are dropped, and a Close after an error
\* commits what was written: object or not, whether or not it returns nil
SaveTempFilesToZip(w) ==
  /\ At(w, "saveZip")
  /\ \/ Ok(w, "removeTemp") /\ Put("zip", EntryOf(w)) /\ UNCHANGED failed
     \/ Goto(w, "removeTemp") /\ Fault /\ UNCHANGED <<bucket, failed>>
     \/ Err(w, "join") /\ (UNCHANGED bucket \/ Put("zip", EntryOf(w)))
  /\ UNCHANGED <<stillVars, saved, buffers, promised>>

RemoveTempFiles(w) ==
  /\ At(w, "removeTemp")
  /\ \/ Ok(w, AfterWrites(w)) /\ buffers' = [buffers EXCEPT ![w] = FALSE]
     \/ Err(w, "join") /\ UNCHANGED buffers
  /\ UNCHANGED <<stillVars, saved, bucket, promised>>

KeepSaved(w) ==
  /\ At(w, "join")
  /\ Ok(w, IF ~failed[w] /\ config.notify THEN "publish" ELSE "stop")
  /\ UNCHANGED <<stillVars, saved, buffers, bucket, promised>>

\* Reset of AnalyzedPackageSaved, before the errors are joined
Join(w) ==
  /\ At(w, "join")
  /\ saved' = [saved EXCEPT ![w] = FALSE]
  /\ Ok(w, IF ~failed[w] /\ config.notify THEN "publish" ELSE "stop")
  /\ UNCHANGED <<stillVars, buffers, bucket, promised>>

Promise(w) == promised' = promised \cup {[entry |-> EntryOf(w), found |-> found[w]]}

Publish(w) ==
  /\ At(w, "publish")
  /\ \/ Ok(w, "stop") /\ Promise(w)
     \/ Err(w, "stop") /\ UNCHANGED promised
  /\ UNCHANGED <<stillVars, saved, buffers, bucket>>

StopWithoutWaiting(w) ==
  /\ At(w, "stop") /\ ext[w] = "select"
  /\ Goto(w, "reply")
  /\ UNCHANGED <<envVars, leaseVars, extVars, msg, failed, found, saved, buffers, bucket,
                 promised, faults>>

\* Stop: me.done <- true meets the goroutine in its select ...
StopSend(w) ==
  /\ At(w, "stop") /\ ext[w] = "select"
  /\ Goto(w, "stopped")
  /\ ext' = [ext EXCEPT ![w] = "exiting"]
  /\ due' = [due EXCEPT ![w] = FALSE]
  /\ UNCHANGED <<envVars, leaseVars, extErr, timer, late, msg, failed, found, saved,
                 buffers, bucket, promised, faults>>

\* ... and <-me.exited collects its error
StopReceive(w) ==
  /\ At(w, "stopped") /\ ext[w] = "exiting"
  /\ Goto(w, "reply")
  /\ ext' = [ext EXCEPT ![w] = "none"]
  /\ UNCHANGED <<envVars, leaseVars, extErr, timer, due, late, msg, failed, found, saved,
                 buffers, bucket, promised, faults>>

\* the defer of an Ack, whatever handleMessage returned
AckAlways(w) ==
  /\ At(w, "reply")
  /\ Goto(w, "receive")
  /\ acked' = acked \cup {msg[w]}
  /\ Lease(msg[w], w, 0) /\ Promise(w)
  /\ failed' = [failed EXCEPT ![w] = FALSE] /\ found' = [found EXCEPT ![w] = {}]
  /\ msg' = [msg EXCEPT ![w] = None]
  /\ UNCHANGED <<envVars, extVars, saved, buffers, bucket, faults>>

\* A nack frees the worker's own delivery; an ack may come too late or be lost
AckOrNack(w) ==
  /\ At(w, "reply")
  /\ Goto(w, "receive")
  /\ IF failed[w]
       THEN /\ IF config.nackable /\ owner[msg[w]] = w THEN Lease(msg[w], w, 0)
                                                      ELSE UNCHANGED <<lease, owner>>
            /\ UNCHANGED <<acked, promised, faults>>
       ELSE \/ /\ acked' = acked \cup {msg[w]} /\ Promise(w)
               /\ Lease(msg[w], w, 0)
               /\ UNCHANGED faults
            \/ Fault /\ UNCHANGED <<leaseVars, promised>>
  /\ failed' = [failed EXCEPT ![w] = FALSE] /\ found' = [found EXCEPT ![w] = {}]
  /\ msg' = [msg EXCEPT ![w] = None]
  /\ UNCHANGED <<envVars, extVars, saved, buffers, bucket>>

\* A crash takes the process with its goroutine; nothing is acked or nacked
Crash(w) ==
  /\ pc[w] # "exited" /\ Fault
  /\ Goto(w, "exited")
  /\ ext' = [ext EXCEPT ![w] = "none"]
  /\ due' = [due EXCEPT ![w] = FALSE]
  /\ UNCHANGED <<envVars, leaseVars, extErr, timer, late, msg, failed, found, saved,
                 buffers, bucket, promised>>

\* The pod is started again, with the fields of a new process
Restart(w) ==
  /\ pc[w] = "exited"
  /\ Goto(w, "receive")
  /\ msg' = [msg EXCEPT ![w] = None]
  /\ failed' = [failed EXCEPT ![w] = FALSE] /\ found' = [found EXCEPT ![w] = {}]
  /\ saved' = [saved EXCEPT ![w] = FALSE]
  /\ buffers' = [buffers EXCEPT ![w] = FALSE]
  /\ UNCHANGED <<envVars, leaseVars, extVars, bucket, promised, faults>>

------------------------------------------------------------------------------
Init ==
  /\ config \in Configs
  /\ ackDeadline \in AckDeadlines
  /\ feed = [e \in config.announced |-> "ready"]
  /\ body = [m \in Msg |-> None]
  /\ lease = [m \in Msg |-> 0]
  /\ owner = [m \in Msg |-> None]
  /\ acked = {}
  /\ pc = [w \in Worker |-> "receive"]
  /\ msg = [w \in Worker |-> None]
  /\ failed = [w \in Worker |-> FALSE]
  /\ saved = failed /\ buffers = failed /\ extErr = failed /\ due = failed
  /\ ext = [w \in Worker |-> "none"]
  /\ timer = [w \in Worker |-> 1]
  /\ late = [w \in Worker |-> 0]
  /\ found = [w \in Worker |-> {}]
  /\ bucket = {} /\ promised = {} /\ faults = 0

Scheduler == \E e \in config.announced : Preprocess(e) \/ Send(e) \/ AckFeed(e)
HandleMessage(w) ==
  \/ Prepare(w) \/ RunStatic(w) \/ SaveStaticAnalysisData(w)
  \/ SaveAnalyzedPackage(w, "archiveStatic", "dynamic")
  \/ RunDynamic(w) \/ SaveStrace(w) \/ SaveExecutionLog(w)
  \/ SaveFileWrites(w) \/ SaveTempFilesToZip(w) \/ RemoveTempFiles(w)
  \/ SaveAnalyzedPackage(w, "archiveDynamic", "join")
  \/ Join(w) \/ Publish(w)
MessageLoop(w) ==
  \/ \E m \in Msg : Receive(w, m) \/ StartFails(w, m)
  \/ HandleMessage(w)
  \/ StopSend(w) \/ StopReceive(w) \/ AckOrNack(w)
  \/ Restart(w)
Extender(w) == ExtendBegin(w) \/ ExtendEnd(w)

Next == \/ Scheduler \/ SchedulerCrash \/ ClockTick
        \/ \E w \in config.replicas : MessageLoop(w) \/ Extender(w) \/ Crash(w)

Spec == Init /\ [][Next]_vars

\* Goroutines are scheduled, time passes, pods are started again; a select
\* with a tick and a done to take picks at random, so it takes the done in
\* the end
FairSpec == /\ Spec
            /\ WF_vars(Scheduler) /\ WF_vars(ClockTick)
            /\ \A w \in Worker :
                 /\ WF_vars(w \in config.replicas /\ MessageLoop(w))
                 /\ WF_vars(w \in config.replicas /\ Extender(w))
                 /\ SF_vars(w \in config.replicas /\ StopSend(w))

------------------------------------------------------------------------------
(* Properties *)

TypeOK ==
  /\ config \in Configs /\ ackDeadline \in AckDeadlines
  /\ feed \in [config.announced -> {"ready", "sending", "sent", "acked"}]
  /\ body \in [Msg -> Entry \cup {None}]
  /\ lease \in [Msg -> 0 .. MaxAck]
  /\ owner \in [Msg -> Worker \cup {None}]
  /\ acked \subseteq Msg
  /\ pc \in [Worker -> PC]
  /\ msg \in [Worker -> Msg \cup {None}]
  /\ {failed, saved, buffers, extErr, due} \subseteq [Worker -> BOOLEAN]
  /\ ext \in [Worker -> {"none", "select", "calling", "exiting"}]
  /\ timer \in [Worker -> Nat \ {0}]
  /\ late \in [Worker -> 0 .. Slack]
  /\ \A o \in bucket : o.kind \in Kind /\ o.entry \in Entry
  /\ found \in [Worker -> Findings] /\ promised \subseteq Promises
  /\ faults \in 0 .. MaxFaults

\* What a handling of e that found something has to store under this
\* configuration.  The zip of the write buffers is not among them:
\* SaveTempFilesToZip drops the error of the Close that uploads it.
Required(e, has) ==
  LET on(kind) == kind \in config.stores
  IN IF e \notin WellFormed THEN {} ELSE
     {k \in {"static"}  : on(k) /\ k \in has} \cup
     {k \in {"dynamic"} : on(k)} \cup
     {k \in {"log"}     : on(k) /\ on("dynamic") /\ k \in has} \cup
     {k \in {"writes"}  : on(k) /\ on("dynamic") /\ config.files} \cup
     {k \in {"archive"} : /\ config.packages /\ e \notin Local \cup NoArchive
                          /\ \/ on("static") /\ "static" \in has
                             \/ on("dynamic") /\ config.files}
\* An object of the kind is under the entry's key
Stored(kind, e) == \E o \in bucket : o.kind = kind /\ o.key = KeyOf(kind, e)

(* A message that is acknowledged will never be delivered again, and a     *)
(* published completion is read as "the results are there": at both        *)
(* points everything that the configuration asks for and that this         *)
(* handling found is in the buckets, under the keys of its entry, after    *)
(* any sequence of failed uploads, redeliveries, concurrent handlings,     *)
(* crashes, and values AnalyzedPackageSaved kept from another message.     *)
(* What is there under a key without the version may since have become     *)
(* another version's.                                                      *)
AckedIsStored ==
  \A p \in promised : \A kind \in Required(p.entry, p.found) : Stored(kind, p.entry)

(* resultstore.go:236-237, "If p is non-nil and has a version specified,   *)
(* the default filename is <version>.json": the results of a version are   *)
(* not those of another.                                                   *)
ResultsAreOwn ==
  \A p \in promised : \A kind \in Required(p.entry, p.found) : Object(kind, p.entry) \in bucket

(* While the extender of a worker runs and none of its extensions failed,  *)
(* the message in hand stays leased to that worker (or was acknowledged by *)
(* one that had it before): a grace period longer than the delay of a tick *)
(* keeps a message from a second worker while the first analyses it.       *)
HeldWhileHandled ==
  \A w \in Worker : config.extender /\ Ticking(w) =>
      \/ owner[msg[w]] = w /\ lease[msg[w]] > 0
      \/ msg[w] \in acked

(* Stop returns only when the goroutine is gone: a message is never        *)
(* extended once it is acked or nacked, and no goroutine outlives its      *)
(* message to extend the next one's.                                       *)
NoExtensionAfterStop ==
  \A w \in Worker : pc[w] \in {"reply", "receive", "exited"} => ext[w] = "none"

(* AnalyzedPackageSaved speaks of the message in hand: while it is set, the *)
(* archive of that message is in the bucket, or there is none to upload.   *)
(* A flag left from another message, or set by a failed upload, would skip *)
(* the upload of this one for good.                                        *)
SavedIsThisArchive ==
  \A w \in Worker : pc[w] # "exited" /\ saved[w] =>
    /\ msg[w] # None
    /\ \/ EntryOf(w) \in Local \cup NoArchive
       \/ Object("archive", EntryOf(w)) \in bucket

(* Every supported entry is analysed in the end, stored and acknowledged,  *)
(* unless the deadline is too short for the extender or the archive store  *)
(* is missing, which bring every worker down on every message.             *)
EveryEntryAnalysed ==
  Deadline > Grace /\ ("archive" \in config.stores \/ ~config.packages) =>
    <>(\A e \in Supported \cap config.announced : \E m \in acked : body[m] = e)
==============================================================================
