----------------------------- MODULE AnalysisRun -----------------------------
(***************************************************************************)
(* Requests that run an analysis themselves, on a host they share:         *)
(* analysis_runner.py, services/execution_service.py and file_service.py   *)
(* of web/packamal/package_analysis, behind the pages submit_sample,       *)
(* upload_sample and bandit4mal and the Celery task, and the `analyze`     *)
(* program (dynamic-analysis/cmd/analyze) in the container they start.     *)
(*                                                                         *)
(* All containers mount the same volumes: the results, named after the     *)
(* package; podman's storage; and /tmp with the sandbox logs.  The bandit  *)
(* scans share directories and the package manager object of their        *)
(* process.  Nothing locks any of them.                                    *)
(***************************************************************************)
EXTENDS Naturals

CONSTANTS
  Request, Package, File, Process, None,
  WrittenAs,  \* the file `analyze` saves the result of a package to
  ReadAs,     \* the file the web application reads: in lower case
  ProcessOf,  \* the process that serves a request
  MaxFaults

ASSUME RunConstants ==
  /\ WrittenAs \in [Package -> File] /\ ReadAs \in [Package -> File]
  /\ ProcessOf \in [Request -> Process] /\ MaxFaults \in Nat
  /\ None \notin Request \cup Package

VARIABLES
  req,        \* what each request asks for: the page and the package
  pc,         \* where its handler is
  got,        \* what the handler read: a request's result, or the packages scanned
  uploads,    \* uploaded files in MEDIA_ROOT
  step, code, \* of each request's analysis container
  ok,         \* its analysis was not aborted
  results,    \* the results volume: whose analysis each file holds
  sandboxes, logs, \* podman's containers and the logs in /tmp, by request
  archiveName,\* PkgManager.archive_filename, in each process
  archives,   \* bandit4mal_downloaded
  extracted,  \* bandit4mal_extracted: the packages in each directory
  scans,      \* bandit4mal_json_results: the packages each report is about
  dir, out,   \* the directory and the report a scan uses
  disturbed,  \* requests that met another one, a failure or leftovers
  faults

handler   == <<req, pc, got, uploads>>
container == <<step, code, ok>>
volumes   == <<results, sandboxes, logs>>
bandit    == <<archiveName, archives, extracted, scans, dir, out>>
vars == <<handler, container, volumes, bandit, disturbed, faults>>

Page == {"submit", "upload", "task", "scan"}
Inside == {"resolve", "init", "start", "phases", "clean", "save"}
Running == {r \in Request : step[r] \in Inside}
Analysing == Running \cup {r \in Request : pc[r] \in {"wait", "read"}}
Pkg(r) == req[r].pkg
At(r, loc) == pc[r] = loc
Goto(r, to) == pc' = [pc EXCEPT ![r] = to]
Fault(r) == faults < MaxFaults /\ faults' = faults + 1 /\ disturbed' = disturbed \cup {r}
NoFault == UNCHANGED <<faults, disturbed>>

------------------------------------------------------------------------------
(* The handlers *)

\* A name the upload's url quotes is not found again under MEDIA_ROOT
Receive(r) == \E page \in Page, p \in Package, quoted \in BOOLEAN :
  /\ At(r, "idle")
  /\ quoted => page = "upload"
  /\ req' = [req EXCEPT ![r] = [page |-> page, pkg |-> p, quoted |-> quoted]]
  /\ uploads' = IF page = "upload" THEN uploads \cup {r} ELSE uploads
  /\ Goto(r, IF page = "scan" THEN "download" ELSE "prepare")
  /\ UNCHANGED <<got, container, volumes, bandit, disturbed, faults>>

\* every exit of the container is taken for a success
WaitedAnyhow(r) ==
  /\ At(r, "wait") /\ step[r] = "exited"
  /\ Goto(r, "read")
  /\ UNCHANGED <<req, got, uploads, container, volumes, bandit, disturbed, faults>>

\* docker run: the volumes are there or are created, docker itself may fail
RunAnalysis(r) ==
  /\ At(r, "prepare")
  /\ \/ /\ ~req[r].quoted
        /\ Goto(r, "wait") /\ step' = [step EXCEPT ![r] = "resolve"]
        /\ disturbed' = disturbed \cup (IF Analysing = {} THEN {} ELSE Analysing \cup {r})
        /\ UNCHANGED faults
     \/ req[r].quoted /\ Goto(r, "raised") /\ UNCHANGED step /\ NoFault
     \/ Goto(r, "raised") /\ UNCHANGED step /\ Fault(r)
  /\ UNCHANGED <<req, got, uploads, code, ok, volumes, bandit>>

Waited(r) ==
  /\ At(r, "wait") /\ step[r] = "exited"
  /\ Goto(r, IF code[r] = 0 THEN "read" ELSE "raised")
  /\ UNCHANGED <<req, got, uploads, container, volumes, bandit, disturbed, faults>>

\* cat in a container of its own: whatever the file holds
GetResultFile(r) ==
  /\ At(r, "read")
  /\ LET found == results[ReadAs[Pkg(r)]]
     IN IF found = None THEN Goto(r, "raised") /\ UNCHANGED got
        ELSE Goto(r, "reply") /\ got' = [got EXCEPT ![r] = {found}]
  /\ UNCHANGED <<req, uploads, container, volumes, bandit, disturbed, faults>>

\* A submission has waited for oss-find-squats and oss-find-source as well,
\* and fails when one of them has; an upload is removed after a success only
Reply(r) ==
  /\ \/ At(r, "reply") /\ Goto(r, "replied") /\ uploads' = uploads \ {r} /\ NoFault
     \/ At(r, "reply") /\ Goto(r, "failed") /\ req[r].page = "submit" /\ Fault(r) /\ UNCHANGED uploads
     \/ At(r, "raised") /\ Goto(r, "failed") /\ UNCHANGED uploads /\ NoFault
  /\ UNCHANGED <<req, got, container, volumes, bandit>>

\* the upload is dropped as well
InterruptDropsUpload(r) ==
  /\ pc[r] \notin {"idle", "replied", "failed"}
  /\ Fault(r)
  /\ Goto(r, "failed")
  /\ uploads' = uploads \ {r}
  /\ UNCHANGED <<req, got, container, volumes, bandit>>

\* The soft time limit of a task, or gunicorn's timeout of a worker: the
\* handler is gone, the container runs on
Interrupt(r) ==
  /\ pc[r] \notin {"idle", "replied", "failed"}
  /\ Fault(r)
  /\ Goto(r, "failed")
  /\ UNCHANGED <<req, got, uploads, container, volumes, bandit>>

------------------------------------------------------------------------------
(* `analyze`, in the container *)

Exit(r, c) == step' = [step EXCEPT ![r] = "exited"] /\ code' = [code EXCEPT ![r] = c]
Continue(r, to) == step' = [step EXCEPT ![r] = to] /\ UNCHANGED code
Abort(r) == ok' = [ok EXCEPT ![r] = FALSE]

\* No such package, or no network for the sandboxes: the only failures it
\* exits with
Resolve(r) ==
  /\ step[r] = "resolve"
  /\ \/ Continue(r, "init") /\ NoFault
     \/ Exit(r, 1) /\ Fault(r)
  /\ UNCHANGED <<handler, ok, volumes, bandit>>

\* Sandbox.Init removes all the logs of /tmp and creates the sandbox
InitSandbox(r) ==
  /\ step[r] = "init"
  /\ logs' = {}
  /\ \/ sandboxes' = sandboxes \cup {r} /\ Continue(r, "start") /\ UNCHANGED ok /\ NoFault
     \/ Exit(r, 0) /\ Abort(r) /\ Fault(r) /\ UNCHANGED sandboxes
  /\ UNCHANGED <<handler, results, bandit>>

\* a sandbox that is gone is waited for
StartWaits(r) ==
  /\ step[r] = "start" /\ r \in sandboxes
  /\ logs' = logs \cup {r} /\ Continue(r, "phases")
  /\ UNCHANGED <<handler, ok, results, sandboxes, bandit, disturbed, faults>>

StartSandbox(r) ==
  /\ step[r] = "start"
  /\ IF r \in sandboxes THEN logs' = logs \cup {r} /\ Continue(r, "phases") /\ UNCHANGED ok
     ELSE Continue(r, "clean") /\ Abort(r) /\ UNCHANGED logs
  /\ UNCHANGED <<handler, results, sandboxes, bandit, disturbed, faults>>

\* The phases need the sandbox, and its log to the end
RunPhases(r) ==
  /\ step[r] = "phases"
  /\ Continue(r, "clean")
  /\ \/ /\ IF {r} \subseteq sandboxes \cap logs THEN UNCHANGED ok ELSE Abort(r)
        /\ NoFault
     \/ Abort(r) /\ Fault(r)
  /\ UNCHANGED <<handler, volumes, bandit>>

\* podman rm --all --force: those of other analyses too, where podman can.
\* A sandbox that is gone cannot be stopped, and nothing is removed
Clean(r) ==
  /\ step[r] = "clean"
  /\ IF r \in sandboxes THEN \E kept \in SUBSET (sandboxes \ {r}) : sandboxes' = kept
     ELSE UNCHANGED sandboxes
  /\ (IF ok[r] THEN Continue(r, "save") ELSE Exit(r, 0))
  /\ UNCHANGED <<handler, ok, results, logs, bandit, disturbed, faults>>

\* A result that is there is kept
SaveFirst(r) ==
  /\ step[r] = "save"
  /\ results' = [results EXCEPT ![WrittenAs[Pkg(r)]] = IF @ = None THEN r ELSE @]
  /\ Exit(r, 0)
  /\ UNCHANGED <<handler, ok, sandboxes, logs, bandit, disturbed, faults>>

\* Replaces an earlier result of that name; an upload error is logged, and
\* run() returns nil whether there is a result or not
Save(r) ==
  /\ step[r] = "save"
  /\ \/ results' = [results EXCEPT ![WrittenAs[Pkg(r)]] = r] /\ NoFault
     \/ UNCHANGED results /\ Fault(r)
  /\ Exit(r, 0)
  /\ UNCHANGED <<handler, ok, sandboxes, logs, bandit>>

Kill(r) ==
  /\ r \in Running
  /\ Exit(r, 137) /\ Fault(r)
  /\ UNCHANGED <<handler, ok, volumes, bandit>>

------------------------------------------------------------------------------
(* run_bandit4mal *)

Scanning == {r \in Request : pc[r] \in {"download", "extract", "scan", "load"}}
Meet == {r \in Scanning : \E q \in Scanning : q # r}

\* The manager, one per process, remembers the file of its last download
Download(r) ==
  /\ At(r, "download")
  /\ \/ /\ archives' = archives \cup {Pkg(r)}
        /\ archiveName' = [archiveName EXCEPT ![ProcessOf[r]] = Pkg(r)]
        /\ Goto(r, "extract")
        /\ disturbed' = disturbed \cup Meet /\ UNCHANGED faults
     \/ Goto(r, "raised") /\ UNCHANGED <<archives, archiveName>> /\ Fault(r)
  /\ UNCHANGED <<req, got, uploads, container, volumes, extracted, scans, dir, out>>

\* Whoever ends first removes the archives of all
Extract(r) ==
  /\ At(r, "extract")
  /\ LET target == archiveName[ProcessOf[r]]
     IN IF Pkg(r) \notin archives
        THEN Goto(r, "raised") /\ UNCHANGED <<extracted, dir, out>>
        ELSE /\ extracted' = [extracted EXCEPT ![target] = @ \cup {Pkg(r)}]
             /\ dir' = [dir EXCEPT ![r] = target] /\ out' = [out EXCEPT ![r] = target]
             /\ Goto(r, "scan")
  \* files of a scan that failed may be in the directory
  /\ disturbed' = disturbed \cup Meet
       \cup (IF extracted[archiveName[ProcessOf[r]]] \subseteq {Pkg(r)} THEN {} ELSE {r})
  /\ UNCHANGED <<req, got, uploads, container, volumes, archiveName, archives, scans, faults>>

\* bandit writes the report of what the directory holds by then
Scan(r) ==
  /\ At(r, "scan")
  /\ \/ scans' = [scans EXCEPT ![out[r]] = extracted[dir[r]]]
        /\ Goto(r, "load") /\ disturbed' = disturbed \cup Meet /\ UNCHANGED faults
     \/ Goto(r, "raised") /\ UNCHANGED scans /\ Fault(r)
  /\ UNCHANGED <<req, got, uploads, container, volumes, archiveName, archives, extracted, dir, out>>

\* The report is read, then both directories are removed; not so when bandit failed
Load(r) ==
  /\ At(r, "load")
  /\ got' = [got EXCEPT ![r] = scans[out[r]]]
  /\ extracted' = [extracted EXCEPT ![dir[r]] = {}]
  /\ archives' = {}
  /\ Goto(r, "reply")
  /\ disturbed' = disturbed \cup Meet
  /\ UNCHANGED <<req, uploads, container, volumes, archiveName, scans, dir, out, faults>>

------------------------------------------------------------------------------
Init ==
  /\ req = [r \in Request |-> None] /\ pc = [r \in Request |-> "idle"]
  /\ got = [r \in Request |-> {}]
  /\ uploads = {}
  /\ step = [r \in Request |-> "none"] /\ code = [r \in Request |-> 0]
  /\ ok = [r \in Request |-> TRUE]
  /\ results = [f \in File |-> None] /\ sandboxes = {} /\ logs = {}
  /\ archiveName = [h \in Process |-> None] /\ archives = {}
  /\ extracted = [p \in Package |-> {}] /\ scans = [p \in Package |-> {}]
  /\ dir = [r \in Request |-> None] /\ out = [r \in Request |-> None]
  /\ disturbed = {} /\ faults = 0

Handler(r) ==
  \/ RunAnalysis(r) \/ Waited(r) \/ GetResultFile(r) \/ Reply(r)
  \/ Download(r) \/ Extract(r) \/ Scan(r) \/ Load(r)

Container(r) ==
  \/ Resolve(r) \/ InitSandbox(r) \/ StartSandbox(r) \/ RunPhases(r) \/ Clean(r) \/ Save(r)

Next == \E r \in Request :
  Receive(r) \/ Handler(r) \/ Container(r) \/ Interrupt(r) \/ Kill(r)

Spec == Init /\ [][Next]_vars

\* Threads run, and the programs they wait for end
FairSpec == Spec /\ \A r \in Request : WF_vars(Handler(r)) /\ WF_vars(Container(r))

------------------------------------------------------------------------------
(* Properties *)

\* The types of the variables
TypeOK ==
  /\ pc \in [Request -> {"idle", "prepare", "wait", "read", "reply", "raised", "replied",
                         "failed", "download", "extract", "scan", "load"}]
  /\ step \in [Request -> Inside \cup {"none", "exited"}]
  /\ code \in [Request -> {0, 1, 137}] /\ ok \in [Request -> BOOLEAN]
  /\ results \in [File -> Request \cup {None}]
  /\ sandboxes \cup logs \cup uploads \cup disturbed \subseteq Request
  /\ archives \subseteq Package /\ archiveName \in [Process -> Package \cup {None}]
  /\ extracted \in [Package -> SUBSET Package] /\ scans \in [Package -> SUBSET Package]
  /\ dir \in [Request -> Package \cup {None}] /\ out \in [Request -> Package \cup {None}]

Answered(r) == pc[r] \in {"replied", "failed"}

\* A request that meets no other one and no failure is answered with the
\* analysis of its own package, whatever earlier requests, failed or cut
\* short, have left in the shared volumes and directories
AloneIsOwn == \A r \in Request :
  Answered(r) /\ r \notin disturbed /\ ~req[r].quoted
    => IF req[r].page = "scan" THEN At(r, "replied") /\ got[r] = {Pkg(r)}
       ELSE ReadAs[Pkg(r)] = WrittenAs[Pkg(r)] => At(r, "replied") /\ got[r] = {r}

\* An analysis that reports a failure never gets the result of another one
FailureIsReported == \A r \in Request : code[r] # 0 => got[r] = {}

\* The uploaded file stays while a container that mounts it runs, also when
\* the request is cut short
UploadHeldWhileRunning == \A r \in Request :
  r \in Running /\ req[r].page = "upload" => r \in uploads

\* Every request is answered
EveryRequestAnswered == \A r \in Request : pc[r] = "prepare" \/ pc[r] = "download" ~> Answered(r)
==============================================================================
