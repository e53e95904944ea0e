--------------------------- MODULE DynamicAnalysis ---------------------------
(***************************************************************************)
(* The sandboxed analyses of dynamic-analysis/: RunStaticAnalysis and      *)
(* RunDynamicAnalysis (internal/worker), the podman sandbox they run in    *)
(* (internal/sandbox), and the packet capture that watches a phase         *)
(* (internal/packetcapture), as cmd/analyze and cmd/worker call them.      *)
(*                                                                         *)
(* Two goroutines run: the analysis, and the one packetcapture starts.     *)
(* They meet on two unbuffered channels.  The container is a third actor:  *)
(* it sends packets and exits when it likes.  Every call that can fail     *)
(* may, within a budget.                                                   *)
(***************************************************************************)
EXTENDS Integers, Sequences

CONSTANTS
  Ecosystems,   \* of the packages analysed: "wolfi", "pypi" or another
  MaxAnalyses,  \* packages analysed
  MaxPackets,   \* packets waiting in the capture's channel
  MaxFaults

ASSUME AnalysisConstants == {MaxAnalyses, MaxPackets, MaxFaults} \subseteq Nat

Phase == {"install", "import", "execute"}
Mode == {"static", "dynamic"}
NetworkSteps == 6      \* commands of InitNetwork
Sandbox == 1 .. 2 * MaxAnalyses

dynamicPhases(ecosystem, codeExecution) ==
  (IF ecosystem = "wolfi" THEN <<"install">> ELSE <<"install", "import">>)
    \o (IF codeExecution /\ ecosystem \in {"wolfi", "pypi"} THEN <<"execute">> ELSE <<>>)

VARIABLES
  pc,
  done,        \* packages begun
  todo, mode,  \* analyses still to run for the package, and the current one
  network,     \* how many of InitNetwork's commands have taken effect
  sb,          \* number of the current sandbox
  held,        \* podmanSandbox.container is set
  initialised, \* podmanSandbox.initialised
  containers,  \* what podman knows: the state of each container
  logs,        \* log directories, by sandbox and phase
  results,     \* the sandbox that wrote results.json, 0 when it is empty
  read,        \* what RunStaticAnalysis read from it
  phases,      \* phases of the package not yet begun
  data,        \* status recorded for each phase: StraceSummary and its two siblings
  order,       \* the phases in the order they ended
  last,        \* LastRunPhase
  status,      \* LastStatus
  run,         \* status of the RunResult of the current run
  execLog,     \* Data.ExecutionLog: the sandbox it was copied from
  err,         \* the analysis returns an error
  after,       \* what follows a stop of the container, or a Close
  cap,         \* where the capture's goroutine is
  handle,      \* PacketCapture.handle
  queue,       \* packets in the source's channel
  source,      \* the channel is open
  uncleaned,   \* a clean-up was missed since the last one that succeeded
  faults

podman  == <<containers, uncleaned>>
object  == <<sb, held, initialised>>
files   == <<logs, results>>
outcome == <<read, data, order, last, status, execLog, err>>
capture == <<cap, handle, queue, source>>
plan    == <<done, todo, mode, network, phases>>
vars == <<pc, podman, object, files, outcome, capture, plan, run, after, faults>>

At(loc)  == pc = loc
Goto(to) == pc' = to /\ UNCHANGED faults
Fail(to) == pc' = to /\ faults < MaxFaults /\ faults' = faults + 1

------------------------------------------------------------------------------
(* cmd/analyze: the modes asked for, static first *)

Begin ==
  /\ At("idle") /\ done < MaxAnalyses
  /\ done' = done + 1
  /\ todo' \in SUBSET Mode \ {{}}
  /\ \E e \in Ecosystems, codeExecution \in BOOLEAN :
        phases' = dynamicPhases(e, codeExecution)
  /\ Goto("next")
  /\ UNCHANGED <<podman, object, files, outcome, capture, mode, network, run, after>>

\* An analysis that failed is logged and the next mode is run all the same
NextMode ==
  /\ At("next")
  /\ IF todo = {} THEN Goto("idle") /\ UNCHANGED <<todo, mode>>
     ELSE /\ mode' = IF "static" \in todo THEN "static" ELSE "dynamic"
          /\ todo' = todo \ {mode'}
          /\ Goto("network")
  /\ read' = 0 /\ data' = <<>> /\ order' = <<>> /\ last' = "" /\ status' = ""
  /\ execLog' = 0 /\ err' = FALSE
  /\ UNCHANGED <<podman, object, files, capture, done, network, phases, run, after>>

\* A command that fails ends the process; one that finds its device there
\* does not, so the restarted process takes up where the last one stopped
InitNetwork ==
  /\ At("network")
  /\ \/ network' = NetworkSteps /\ Goto("new") /\ UNCHANGED todo
     \/ /\ \E k \in 0 .. NetworkSteps - 1 : network' = IF k < network THEN network ELSE k
        /\ todo' = {} /\ Fail("next")
  /\ UNCHANGED <<podman, object, files, outcome, capture, done, mode, phases, run, after>>

\* RunStaticAnalysis truncates the results file it will mount
NewSandbox ==
  /\ At("new")
  /\ sb' = sb + 1 /\ held' = FALSE /\ initialised' = FALSE
  /\ results' = IF mode = "static" THEN 0 ELSE results
  /\ Goto("init")
  /\ UNCHANGED <<podman, logs, outcome, capture, plan, run, after>>

------------------------------------------------------------------------------
(* The sandbox *)

Created == containers' = [k \in DOMAIN containers \cup {sb} |->
                            IF k = sb THEN "created" ELSE containers[k]]

\* the container id is kept only when the copies have succeeded
HoldLate ==
  /\ At("init")
  /\ logs' = {}
  /\ \/ Fail("clean") /\ err' = TRUE /\ UNCHANGED <<held, initialised, containers>>
     \/ /\ Created
        /\ \/ /\ held' = TRUE /\ initialised' = TRUE
              /\ Goto(IF mode = "static" THEN "run" ELSE "ssh") /\ UNCHANGED err
           \/ UNCHANGED <<held, initialised>> /\ Fail("clean") /\ err' = TRUE
  /\ UNCHANGED <<uncleaned, sb, results, read, data, order, last, status, execLog,
                 capture, plan, run, after>>

\* the logs of earlier sandboxes stay
KeepLogs ==
  /\ At("init") /\ Created /\ held' = TRUE /\ initialised' = TRUE
  /\ Goto(IF mode = "static" THEN "run" ELSE "ssh")
  /\ UNCHANGED <<uncleaned, sb, files, outcome, capture, plan, run, after>>

\* Init: removes the logs of all sandboxes; the container is held once it is
\* created, whether or not the copies into it succeed
InitSandbox ==
  /\ At("init")
  /\ \/ /\ Fail("clean") /\ err' = TRUE
        /\ logs' \in {logs, {}}
        /\ UNCHANGED <<held, initialised, containers>>
     \/ /\ logs' = {} /\ Created /\ held' = TRUE
        /\ \/ /\ initialised' = TRUE /\ UNCHANGED err
              /\ Goto(IF mode = "static" THEN "run" ELSE "ssh")
           \/ UNCHANGED initialised /\ err' = TRUE /\ Fail("clean")
  /\ UNCHANGED <<uncleaned, sb, results, read, data, order, last, status, execLog,
                 capture, plan, run, after>>

\* addSSHKeysToSandbox: an error is logged and the analysis goes on
AddSSHKeys ==
  /\ At("ssh")
  /\ Goto("phase") \/ Fail("phase")
  /\ UNCHANGED <<podman, object, files, outcome, capture, plan, run, after>>

\* Run returns: dynamicanalysis.Run closes the capture, RunStaticAnalysis
\* reads the results or gives up
Returned(ok) == IF mode = "dynamic" THEN "close" ELSE IF ok THEN "readResults" ELSE "giveUp"
RunFails == Fail(Returned(FALSE)) /\ after' = "failed"

\* A log directory, then podman start and exec.  An exec that cannot start
\* leaves the container running.
Run ==
  /\ At("run")
  /\ run' = "unknown"
  /\ \/ logs' \in {logs, logs \cup {<<sb, last>>}} /\ RunFails /\ UNCHANGED containers
     \/ /\ logs' = logs \cup {<<sb, last>>}
        /\ containers' = [containers EXCEPT ![sb] = "running"]
        /\ \/ Goto("wait") /\ after' = "parse"
           \/ RunFails
  /\ UNCHANGED <<uncleaned, object, results, outcome, capture, plan>>

\* The command ends: exit status 0, another one, or an error of Wait itself
CommandExits ==
  /\ At("wait")
  /\ \/ run' \in {"success", "failure"} /\ Goto("stop") /\ UNCHANGED after
     \/ UNCHANGED run /\ Fail("stop") /\ after' = "failed"
  /\ results' \in IF mode = "static" THEN {results, sb} ELSE {results}
  /\ UNCHANGED <<podman, object, logs, outcome, capture, plan>>

Stopped(k) == containers' = [containers EXCEPT ![k] = "created"]

\* podman stop; "gofer is still running" is not an error
StopContainer ==
  /\ At("stop")
  /\ \/ /\ Stopped(sb) \/ UNCHANGED containers
        /\ Goto(Returned(after # "failed")) /\ UNCHANGED after
     \/ UNCHANGED containers /\ RunFails
  /\ UNCHANGED <<uncleaned, object, files, outcome, capture, plan, run>>

\* Clean, deferred in both analyses: podman stop, then podman rm --all.
\* Without a container id there is nothing to clean; an error is logged.
Clean ==
  /\ At("clean")
  /\ \/ ~held /\ Goto("next") /\ UNCHANGED podman
     \/ held /\ Goto("next") /\ containers' = <<>> /\ uncleaned' = FALSE
     \/ /\ held /\ Fail("next")
        /\ Stopped(sb) \/ UNCHANGED containers
        /\ uncleaned' = TRUE
  /\ after' = ""
  /\ UNCHANGED <<object, files, outcome, capture, plan, run>>

ReadResults ==
  /\ At("readResults")
  /\ \/ read' = results /\ Goto("clean") /\ UNCHANGED err
     \/ UNCHANGED read /\ err' = TRUE /\ Fail("clean")
  /\ UNCHANGED <<podman, object, files, capture, plan, run, after, data, order, last,
                 status, execLog>>

------------------------------------------------------------------------------
(* The phases of RunDynamicAnalysis *)

\* dynamicanalysis.Run up to the start of the capture.  LastRunPhase is set
\* when Run returns; nothing reads it before.
StartPhase ==
  /\ At("phase")
  /\ IF phases = <<>> THEN Goto("clean") /\ UNCHANGED <<phases, last, capture>>
     ELSE /\ phases' = Tail(phases) /\ last' = Head(phases)
          /\ \/ /\ cap' = "select" /\ handle' = TRUE /\ queue' = 0 /\ source' = TRUE
                /\ Goto("run")
             \/ UNCHANGED capture /\ Fail("giveUp")
  /\ UNCHANGED <<podman, object, files, done, todo, mode, network, run, after,
                 read, data, order, status, execLog, err>>

\* the phase is given up and the next one begun
SkipPhase ==
  /\ At("giveUp")
  /\ err' = TRUE /\ status' = ""
  /\ Goto(IF mode = "static" THEN "clean" ELSE "phase")
  /\ UNCHANGED <<podman, object, files, capture, plan, run, after, read, data, order,
                 last, execLog>>

\* An error of our own: nothing is recorded for the phase, no phase follows
GiveUp ==
  /\ At("giveUp")
  /\ err' = TRUE /\ status' = ""
  /\ Goto("clean")
  /\ UNCHANGED <<podman, object, files, capture, plan, run, after, read, data, order,
                 last, execLog>>

\* Opens and parses the strace log, and reads what the receiver collected;
\* then the deferred Close
ParseLog ==
  /\ At("parse")
  /\ \/ <<sb, last>> \in logs /\ Goto("close") /\ after' = "record"
     \/ Fail("close") /\ after' = "failed"
  /\ UNCHANGED <<podman, object, files, outcome, capture, plan, run>>

StatusForRunResult == CASE run = "success" -> "completed"
                        [] run = "failure" -> "error_analysis"
                        [] OTHER -> "error_other"

Recorded == /\ data' = [p \in DOMAIN data \cup {last} |->
                          IF p = last THEN StatusForRunResult ELSE data[p]]
            /\ order' = Append(order, last)
            /\ status' = StatusForRunResult

\* No phase follows one that did not complete
NextPhase == IF status' = "completed" THEN "phase" ELSE "clean"

RecordPhase ==
  /\ At("record")
  /\ Recorded
  /\ Goto(IF last = "execute" THEN "retrieveLog" ELSE NextPhase)
  /\ UNCHANGED <<podman, object, files, capture, plan, run, after, read, last, execLog, err>>

\* The log of the execute phase is copied from the stopped container; a
\* copy that fails is logged and leaves it empty
RetrieveExecutionLog ==
  /\ At("retrieveLog")
  /\ \/ initialised /\ held /\ sb \in DOMAIN containers /\ execLog' = sb
     \/ UNCHANGED execLog
  /\ UNCHANGED status /\ Goto(NextPhase)
  /\ UNCHANGED <<podman, object, files, capture, plan, run, after, read, data, order,
                 last, err>>

------------------------------------------------------------------------------
(* The packet capture *)

\* Close returns without waiting for the goroutine
CloseOnly ==
  /\ At("close")
  /\ handle' = FALSE /\ queue' = 0 /\ source' = FALSE
  /\ Goto("closed")
  /\ UNCHANGED <<podman, object, files, outcome, cap, plan, run, after>>

\* Close: nothing to do without a handle; else pc.stop <- true, which only the
\* goroutine's select receives: once it has returned, Close waits for ever ...
CloseStop ==
  /\ At("close")
  /\ IF handle THEN cap = "select" /\ cap' = "exit" /\ Goto("closeDone")
     ELSE UNCHANGED cap /\ Goto("closed")
  /\ UNCHANGED <<podman, object, files, outcome, handle, queue, source, plan, run, after>>

\* the handle is closed and still set
KeepHandle ==
  /\ At("closeDone") /\ cap = "exit"
  /\ cap' = "off" /\ queue' = 0 /\ source' = FALSE
  /\ Goto("closed")
  /\ UNCHANGED <<podman, object, files, outcome, handle, plan, run, after>>

\* ... the handle is closed and <-pc.done waits for the goroutine's deferred
\* send; packets still in the channel are dropped
CloseDone ==
  /\ At("closeDone") /\ cap = "exit"
  /\ cap' = "off" /\ handle' = FALSE /\ queue' = 0 /\ source' = FALSE
  /\ Goto("closed")
  /\ UNCHANGED <<podman, object, files, outcome, plan, run, after>>

Closed ==
  /\ At("closed")
  /\ Goto(CASE after = "failed" -> "giveUp" [] OTHER -> after)
  /\ UNCHANGED <<podman, object, files, outcome, capture, plan, run, after>>

\* The source delivers a packet of a running container
Packet ==
  /\ handle /\ source /\ ~At("closeDone") /\ queue < MaxPackets
  /\ \E k \in DOMAIN containers : containers[k] = "running"
  /\ queue' = queue + 1
  /\ UNCHANGED <<pc, faults, podman, object, files, outcome, cap, handle, source, plan, run, after>>

\* Its read fails for good, and it closes the channel
SourceEnds ==
  /\ handle /\ source /\ ~At("closeDone")
  /\ source' = FALSE
  /\ faults < MaxFaults /\ faults' = faults + 1
  /\ UNCHANGED <<pc, podman, object, files, outcome, cap, handle, queue, plan, run, after>>

\* The goroutine's select takes a packet, or returns when there is none to come
\* and blocks in its deferred done <- true ...
TakePacket ==
  /\ cap = "select"
  /\ \/ queue > 0 /\ cap' = "handle" /\ queue' = queue - 1
     \/ queue = 0 /\ ~source /\ cap' = "exit" /\ UNCHANGED queue
  /\ UNCHANGED <<pc, faults, podman, object, files, outcome, handle, source, plan, run, after>>

\* ... and hands it to the receivers
HandlePacket ==
  /\ cap = "handle"
  /\ cap' = "select"
  /\ UNCHANGED <<pc, faults, podman, object, files, outcome, handle, queue, source, plan, run, after>>

------------------------------------------------------------------------------
Init ==
  /\ pc = "idle" /\ done = 0 /\ todo = {} /\ mode = "static" /\ network = 0
  /\ sb = 0 /\ held = FALSE /\ initialised = FALSE
  /\ containers = <<>> /\ logs = {} /\ results = 0 /\ read = 0
  /\ phases = <<>> /\ data = <<>> /\ order = <<>> /\ last = "" /\ status = ""
  /\ run = "unknown" /\ execLog = 0 /\ err = FALSE /\ after = ""
  /\ cap = "off" /\ handle = FALSE /\ queue = 0 /\ source = FALSE
  /\ uncleaned = FALSE /\ faults = 0

Analysis ==
  \/ NextMode \/ InitNetwork \/ NewSandbox \/ InitSandbox \/ AddSSHKeys
  \/ Run \/ StopContainer \/ Clean \/ ReadResults
  \/ StartPhase \/ GiveUp \/ ParseLog \/ RecordPhase \/ RetrieveExecutionLog
  \/ CloseStop \/ CloseDone \/ Closed
Receiver == TakePacket \/ HandlePacket

Next == Begin \/ Analysis \/ CommandExits \/ Receiver \/ Packet \/ SourceEnds
Spec == Init /\ [][Next]_vars

\* Both goroutines run, commands end, and the select that a packet and a
\* stop can both end picks at random
FairSpec == /\ Spec
            /\ WF_vars(Analysis) /\ WF_vars(CommandExits) /\ WF_vars(Receiver)
            /\ SF_vars(CloseStop)

------------------------------------------------------------------------------
(* Properties *)

\* The types of the variables
TypeOK ==
  /\ pc \in {"idle", "next", "network", "new", "init", "ssh", "run", "wait", "stop",
             "clean", "readResults", "phase", "giveUp", "parse", "record",
             "retrieveLog", "close", "closeDone", "closed"}
  /\ done \in 0 .. MaxAnalyses /\ todo \subseteq Mode /\ mode \in Mode
  /\ network \in 0 .. NetworkSteps
  /\ sb \in Sandbox \cup {0}
  /\ {held, initialised, err, handle, source, uncleaned} \subseteq BOOLEAN
  /\ DOMAIN containers \subseteq Sandbox
  /\ \A k \in DOMAIN containers : containers[k] \in {"created", "running"}
  /\ logs \subseteq Sandbox \X (Phase \cup {""})
  /\ {results, read, execLog} \subseteq Sandbox \cup {0}
  /\ phases \in Seq(Phase) /\ order \in Seq(Phase) /\ DOMAIN data \subseteq Phase
  /\ last \in Phase \cup {""} /\ run \in {"unknown", "success", "failure"}
  /\ status \in {"", "completed", "error_analysis", "error_other"}
  /\ after \in {"", "parse", "record", "failed"}
  /\ cap \in {"off", "select", "handle", "exit"}
  /\ queue \in 0 .. MaxPackets /\ faults \in 0 .. MaxFaults

\* However an analysis ends (an error of Init after the container was
\* created, of the capture, of podman start, exec or stop, of the parser),
\* it leaves no container behind, unless podman fails to clean up
NoContainerLeft == pc \in {"idle", "next"} /\ ~uncleaned => containers = <<>>

\* The capture's goroutine lives only within a phase, and the maps its
\* receiver fills are read only when it has ended: on no path of
\* dynamicanalysis.Run do setData and Receive run at the same time, and none
\* that returns leaves the goroutine waiting on its channels
CaptureWithinPhase ==
  cap # "off" => mode = "dynamic" /\ pc \in {"run", "wait", "stop", "close", "closeDone"}

\* What RunDynamicAnalysis returns agrees with itself (rundynamic.go, comment
\* on DynamicAnalysisResult): with an error, the last phase has no data and
\* no status; without one the last phase run has both, also when the command
\* failed; every phase before it completed
ResultIsConsistent ==
  At("clean") /\ mode = "dynamic" =>
    /\ DOMAIN data = {order[i] : i \in DOMAIN order}
    /\ \A i \in 1 .. Len(order) - 1 : data[order[i]] = "completed"
    /\ err => status = "" /\ last \notin DOMAIN data
                /\ \A p \in DOMAIN data : data[p] = "completed"
    /\ ~err => /\ order # <<>> /\ last = order[Len(order)]
               /\ status = data[last] /\ status \in {"completed", "error_analysis"}
               /\ status = "completed" => phases = <<>>

\* The strace log that is parsed and the execution log that is saved were
\* written in this sandbox, and by then no log of an earlier one is left
LogsAreOwn ==
  /\ pc \in {"run", "wait", "stop", "parse", "record"} => \A l \in logs : l[1] = sb
  /\ At("record") => <<sb, last>> \in logs
  /\ execLog \in {0, sb} /\ (execLog # 0 /\ pc # "retrieveLog" => "execute" \in DOMAIN data)

\* Close waits for a goroutine that has returned
Stuck == At("close") /\ cap = "exit"

\* Every analysis ends, whatever fails, with a container that sends packets
\* all the time, except in a Close whose goroutine lost its source: in no other
\* way do the two wait for each other for ever
AnalysisEnds == pc # "idle" ~> pc = "idle" \/ Stuck

\* Close waits "for packet processing to be finished" (packetcapture.go:90),
\* and returns
CloseReturns == At("close") ~> At("closed")
==============================================================================
