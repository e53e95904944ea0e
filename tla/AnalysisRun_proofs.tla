-------------------------- MODULE AnalysisRun_proofs --------------------------
(***************************************************************************)
(* What the shared volumes cannot break, for any number of requests,       *)
(* packages and faults: FailureIsReported, UploadHeldWhileRunning, and     *)
(* AloneIsOwn.                                                             *)
(*                                                                         *)
(* The first two are about how far a handler is and how far its container  *)
(* is.  RunInv relates the two: a handler that reads a result has waited   *)
(* for a container that ended with status 0, and a request's container     *)
(* starts after its upload was stored.  OwnInv adds what a request finds   *)
(* that has met no other one: its container runs alone, the result file    *)
(* holds its analysis when the container has exited, and the directory of  *)
(* its scan holds its package only, at every step it has left.             *)
(***************************************************************************)
EXTENDS AnalysisRun, TLAPS

Asked == [page : Page, pkg : Package, quoted : BOOLEAN]

\* The variables the induction reads
RunTypeOK ==
  /\ req \in [Request -> Asked \cup {None}]
  /\ pc \in [Request -> {"idle", "prepare", "wait", "read", "reply", "raised", "replied",
                         "failed", "download", "extract", "scan", "load"}]
  /\ got = [r \in Request |-> got[r]]
  /\ step \in [Request -> Inside \cup {"none", "exited"}]
  /\ code \in [Request -> {0, 1, 137}]
  /\ uploads \subseteq Request

\* The page a handler serves, by where it is
ServesPage(r) ==
  /\ pc[r] # "idle" => req[r] \in Asked
  /\ pc[r] \in {"download", "extract", "scan", "load"} => req[r].page = "scan"
  /\ pc[r] \in {"prepare", "wait", "read"} => req[r].page # "scan"

\* Its container
HasContainer(r) ==
  /\ pc[r] \in {"idle", "prepare", "download", "extract", "scan", "load"} => step[r] = "none"
  /\ step[r] # "none" => req[r].page # "scan"
  /\ step[r] # "exited" => code[r] = 0
  /\ pc[r] \in {"read", "reply"} /\ req[r].page # "scan" => step[r] = "exited" /\ code[r] = 0

\* What it has read, and the upload
HasRead(r) ==
  /\ got[r] # {} => pc[r] # "idle" /\ code[r] = 0
  /\ got[r] # {} => req[r].page = "scan" \/ step[r] = "exited"

HasUpload(r) ==
  pc[r] # "idle" /\ req[r].page = "upload" /\ (pc[r] = "prepare" \/ r \in Running) => r \in uploads

RunInv ==
  /\ RunTypeOK
  /\ \A r \in Request : ServesPage(r) /\ HasContainer(r) /\ HasRead(r) /\ HasUpload(r)

LEMMA RunInit == Init => RunInv
BY RunConstants
DEF Init, RunInv, RunTypeOK, ServesPage, HasContainer, HasRead, HasUpload, Running, Inside

LEMMA RunNext == RunInv /\ [Next]_vars => RunInv'
<1> SUFFICES ASSUME RunInv, [Next]_vars
             PROVE  RunInv'
  OBVIOUS
<1> USE RunConstants
    DEF RunInv, RunTypeOK, ServesPage, HasContainer, HasRead, HasUpload, Running, Inside,
        Goto, At, Pkg, Asked, Page
<1>1. ASSUME NEW r \in Request, Receive(r)
      PROVE  RunInv'
  <2>1. PICK page \in Page, p \in Package, quoted \in BOOLEAN :
          /\ pc[r] = "idle"
          /\ req' = [req EXCEPT ![r] = [page |-> page, pkg |-> p, quoted |-> quoted]]
          /\ uploads' = (IF page = "upload" THEN uploads \cup {r} ELSE uploads)
          /\ pc' = [pc EXCEPT ![r] = IF page = "scan" THEN "download" ELSE "prepare"]
    BY <1>1 DEF Receive
  <2>2. UNCHANGED <<got, step, code>>
    BY <1>1 DEF Receive, container
  <2>3. RunTypeOK'
    BY <2>1, <2>2
  <2>4. \A q \in Request \ {r} : req'[q] = req[q] /\ pc'[q] = pc[q] /\ (q \in uploads => q \in uploads')
    BY <2>1
  <2>5. \A q \in Request \ {r} : (ServesPage(q) /\ HasContainer(q) /\ HasRead(q) /\ HasUpload(q))'
    BY <2>2, <2>4
  <2>6. /\ req'[r].page = page /\ req'[r] \in Asked
        /\ pc'[r] = (IF page = "scan" THEN "download" ELSE "prepare")
        /\ step[r] = "none" /\ code[r] = 0 /\ got[r] = {}
        /\ page = "upload" => r \in uploads'
    BY <2>1
  <2>7. (ServesPage(r) /\ HasContainer(r) /\ HasRead(r) /\ HasUpload(r))'
    BY <2>2, <2>6
  <2>8. QED
    BY <2>3, <2>5, <2>7
<1>2. ASSUME NEW r \in Request, RunAnalysis(r)
      PROVE  RunInv'
  BY <1>2 DEF RunAnalysis, volumes, bandit
<1>3. ASSUME NEW r \in Request, Waited(r)
      PROVE  RunInv'
  BY <1>3 DEF Waited, container, volumes, bandit
<1>4. ASSUME NEW r \in Request, GetResultFile(r)
      PROVE  RunInv'
  <2>1. pc[r] = "read" /\ UNCHANGED <<req, uploads, step, code>>
    BY <1>4 DEF GetResultFile, container
  <2>2. \/ pc' = [pc EXCEPT ![r] = "raised"] /\ got' = got
        \/ /\ pc' = [pc EXCEPT ![r] = "reply"]
           /\ got' = [got EXCEPT ![r] = {results[ReadAs[Pkg(r)]]}]
    BY <1>4 DEF GetResultFile
  <2>3. \A q \in Request \ {r} : pc'[q] = pc[q] /\ got'[q] = got[q]
    BY <2>2
  <2>4. pc'[r] \in {"raised", "reply"} /\ step[r] = "exited" /\ code[r] = 0 /\ req[r].page # "scan"
    BY <2>1, <2>2
  <2>5. RunTypeOK'
    <3>1. CASE pc' = [pc EXCEPT ![r] = "raised"] /\ got' = got
      BY <2>1, <3>1
    <3>2. CASE /\ pc' = [pc EXCEPT ![r] = "reply"]
               /\ got' = [got EXCEPT ![r] = {results[ReadAs[Pkg(r)]]}]
      <4> DEFINE found == {results[ReadAs[Pkg(r)]]}
      <4>1. got' = [got EXCEPT ![r] = found]
        BY <3>2
      <4> HIDE DEF found
      <4>2. got' = [q \in Request |-> got'[q]]
        BY <4>1
      <4>3. QED
        BY <2>1, <3>2, <4>2
    <3>3. QED
      BY <2>2, <3>1, <3>2
  <2>6. \A q \in Request : (ServesPage(q) /\ HasContainer(q) /\ HasRead(q) /\ HasUpload(q))'
    BY <2>1, <2>3, <2>4
  <2>7. QED
    BY <2>5, <2>6
<1>5. ASSUME NEW r \in Request, Reply(r)
      PROVE  RunInv'
  BY <1>5 DEF Reply, container, volumes, bandit
<1>6. ASSUME NEW r \in Request, Interrupt(r)
      PROVE  RunInv'
  BY <1>6 DEF Interrupt, container, volumes, bandit
<1>7. ASSUME NEW r \in Request, Resolve(r)
      PROVE  RunInv'
  BY <1>7 DEF Resolve, Exit, Continue, handler, volumes, bandit
<1>8. ASSUME NEW r \in Request, InitSandbox(r)
      PROVE  RunInv'
  BY <1>8 DEF InitSandbox, Exit, Continue, handler, bandit
<1>9. ASSUME NEW r \in Request, StartSandbox(r)
      PROVE  RunInv'
  BY <1>9 DEF StartSandbox, Continue, handler, bandit
<1>10. ASSUME NEW r \in Request, RunPhases(r)
       PROVE  RunInv'
  BY <1>10 DEF RunPhases, Continue, handler, volumes, bandit
<1>11. ASSUME NEW r \in Request, Clean(r)
       PROVE  RunInv'
  BY <1>11 DEF Clean, Exit, Continue, handler, bandit
<1>12. ASSUME NEW r \in Request, Save(r)
       PROVE  RunInv'
  BY <1>12 DEF Save, Exit, handler, bandit
<1>13. ASSUME NEW r \in Request, Kill(r)
       PROVE  RunInv'
  BY <1>13 DEF Kill, Exit, handler, volumes, bandit
<1>14. ASSUME NEW r \in Request, Download(r)
       PROVE  RunInv'
  BY <1>14 DEF Download, container, volumes
<1>15. ASSUME NEW r \in Request, Extract(r)
       PROVE  RunInv'
  BY <1>15 DEF Extract, container, volumes
<1>16. ASSUME NEW r \in Request, Scan(r)
       PROVE  RunInv'
  BY <1>16 DEF Scan, container, volumes
<1>17. ASSUME NEW r \in Request, Load(r)
       PROVE  RunInv'
  BY <1>17 DEF Load, container, volumes
<1>18. CASE UNCHANGED vars
  BY <1>18 DEF vars, handler, container, volumes, bandit
<1>19. QED
  BY <1>1, <1>2, <1>3, <1>4, <1>5, <1>6, <1>7, <1>8, <1>9, <1>10, <1>11, <1>12, <1>13,
     <1>14, <1>15, <1>16, <1>17, <1>18
  DEF Next, Handler, Container

\* A failed analysis container never gets its request a result, whatever the
\* results volume holds and whoever else runs
THEOREM FailuresAreReported == Spec => []FailureIsReported
<1>1. RunInv => FailureIsReported
  BY DEF RunInv, HasRead, FailureIsReported
<1>2. QED
  BY RunInit, RunNext, <1>1, PTL DEF Spec

\* An uploaded file stays as long as the container that mounts it runs, also
\* when its request was cut short
THEOREM UploadsAreHeld == Spec => []UploadHeldWhileRunning
<1>1. RunInv => UploadHeldWhileRunning
  BY DEF RunInv, RunTypeOK, HasContainer, HasUpload, Running, Inside, UploadHeldWhileRunning
<1>2. QED
  BY RunInit, RunNext, <1>1, PTL DEF Spec

------------------------------------------------------------------------------
(* The types                                                               *)

\* A scan past its download has a directory to work in
Keyed(r) ==
  /\ pc[r] = "extract" => archiveName[ProcessOf[r]] \in Package
  /\ pc[r] \in {"scan", "load"} => dir[r] \in Package /\ out[r] \in Package

TypeInv == TypeOK /\ \A r \in Request : Keyed(r)

LEMMA TypeInit == Init => TypeInv
BY RunConstants DEF Init, TypeInv, TypeOK, Keyed, Inside

LEMMA AbortTyped == ASSUME NEW r \in Request, ok \in [Request -> BOOLEAN], Abort(r)
                    PROVE  ok' \in [Request -> BOOLEAN]
BY Zenon DEF Abort

LEMMA TypeNext == RunInv /\ TypeInv /\ [Next]_vars => TypeInv'
<1> SUFFICES ASSUME RunInv, TypeInv, [Next]_vars
             PROVE  TypeInv'
  OBVIOUS
<1> USE RunConstants DEF TypeInv, TypeOK, Keyed, Goto, At
<1>a. \A r \in Request : pc[r] # "idle" => Pkg(r) \in Package
  BY DEF RunInv, ServesPage, Asked, Pkg
<1>1. ASSUME NEW r \in Request, Receive(r)
      PROVE  TypeInv'
  BY <1>1 DEF Receive, container, volumes, bandit
<1>2. ASSUME NEW r \in Request, RunAnalysis(r)
      PROVE  TypeInv'
  <2>1. /\ pc' = [pc EXCEPT ![r] = "wait"] \/ pc' = [pc EXCEPT ![r] = "raised"]
        /\ step' = [step EXCEPT ![r] = "resolve"] \/ step' = step
        /\ disturbed' \subseteq Request
        /\ UNCHANGED <<code, ok, uploads, volumes, bandit>>
    BY <1>2 DEF RunAnalysis, Analysing, Running, Fault, NoFault
  <2>2. QED
    BY <2>1 DEF Inside, volumes, bandit
<1>3. ASSUME NEW r \in Request, Waited(r)
      PROVE  TypeInv'
  BY <1>3 DEF Waited, container, volumes, bandit
<1>4. ASSUME NEW r \in Request, GetResultFile(r)
      PROVE  TypeInv'
  BY <1>4 DEF GetResultFile, container, volumes, bandit
<1>5. ASSUME NEW r \in Request, Reply(r)
      PROVE  TypeInv'
  BY <1>5 DEF Reply, container, volumes, bandit, Fault, NoFault
<1>6. ASSUME NEW r \in Request, Interrupt(r)
      PROVE  TypeInv'
  BY <1>6 DEF Interrupt, container, volumes, bandit, Fault
<1>7. ASSUME NEW r \in Request, Resolve(r)
      PROVE  TypeInv'
  BY <1>7 DEF Resolve, Exit, Continue, handler, volumes, bandit, Fault, NoFault, Inside
<1>8. ASSUME NEW r \in Request, InitSandbox(r)
      PROVE  TypeInv'
  <2>1. step' \in [Request -> Inside \cup {"none", "exited"}] /\ code' \in [Request -> {0, 1, 137}]
    BY <1>8 DEF InitSandbox, Exit, Continue, Inside
  <2>2. /\ ok' \in [Request -> BOOLEAN]
        /\ sandboxes' \cup logs' \cup disturbed' \subseteq Request
        /\ UNCHANGED <<handler, results, bandit>>
    BY <1>8, AbortTyped DEF InitSandbox, Fault, NoFault
  <2>3. QED
    BY <2>1, <2>2 DEF handler, bandit
<1>9. ASSUME NEW r \in Request, StartSandbox(r)
      PROVE  TypeInv'
  <2>1. step' \in [Request -> Inside \cup {"none", "exited"}] /\ code' = code
    BY <1>9 DEF StartSandbox, Continue, Inside
  <2>2. ok' \in [Request -> BOOLEAN] /\ logs' \subseteq Request
    BY <1>9, AbortTyped DEF StartSandbox
  <2>3. UNCHANGED <<handler, results, sandboxes, bandit, disturbed>>
    BY <1>9 DEF StartSandbox
  <2>4. QED
    BY <2>1, <2>2, <2>3 DEF handler, bandit
<1>10. ASSUME NEW r \in Request, RunPhases(r)
       PROVE  TypeInv'
  <2>1. step' \in [Request -> Inside \cup {"none", "exited"}] /\ code' = code
    BY <1>10 DEF RunPhases, Continue, Inside
  <2>2. ok' \in [Request -> BOOLEAN] /\ disturbed' \subseteq Request
    BY <1>10, AbortTyped DEF RunPhases, Fault, NoFault
  <2>3. UNCHANGED <<handler, volumes, bandit>>
    BY <1>10 DEF RunPhases
  <2>4. QED
    BY <2>1, <2>2, <2>3 DEF handler, volumes, bandit
<1>11. ASSUME NEW r \in Request, Clean(r)
       PROVE  TypeInv'
  BY <1>11 DEF Clean, Exit, Continue, handler, bandit, Inside
<1>12. ASSUME NEW r \in Request, Save(r)
       PROVE  TypeInv'
  BY <1>12 DEF Save, Exit, handler, bandit, Fault, NoFault, Inside
<1>13. ASSUME NEW r \in Request, Kill(r)
       PROVE  TypeInv'
  BY <1>13 DEF Kill, Exit, handler, volumes, bandit, Fault, Inside
<1>14. ASSUME NEW r \in Request, Download(r)
       PROVE  TypeInv'
  <2>1. Pkg(r) \in Package /\ UNCHANGED <<uploads, container, volumes, extracted, scans, dir, out>>
    BY <1>a, <1>14 DEF Download
  <2>2. /\ archives' \subseteq Package
        /\ disturbed' \subseteq Request
    BY <1>14, <2>1 DEF Download, Fault, Meet, Scanning
  <2>3. \/ /\ archiveName' = [archiveName EXCEPT ![ProcessOf[r]] = Pkg(r)]
           /\ pc' = [pc EXCEPT ![r] = "extract"]
        \/ archiveName' = archiveName /\ pc' = [pc EXCEPT ![r] = "raised"]
    BY <1>14 DEF Download
  <2>4. QED
    BY <2>1, <2>2, <2>3 DEF container, volumes
<1>15. ASSUME NEW r \in Request, Extract(r)
       PROVE  TypeInv'
  BY <1>a, <1>15 DEF Extract, container, volumes, Meet, Scanning
<1>16. ASSUME NEW r \in Request, Scan(r)
       PROVE  TypeInv'
  BY <1>16 DEF Scan, container, volumes, Fault, Meet, Scanning
<1>17. ASSUME NEW r \in Request, Load(r)
       PROVE  TypeInv'
  BY <1>17 DEF Load, container, volumes, Meet, Scanning
<1>18. CASE UNCHANGED vars
  BY <1>18 DEF vars, handler, container, volumes, bandit
<1>19. QED
  BY <1>1, <1>2, <1>3, <1>4, <1>5, <1>6, <1>7, <1>8, <1>9, <1>10, <1>11, <1>12, <1>13,
     <1>14, <1>15, <1>16, <1>17, <1>18
  DEF Next, Handler, Container

\* Every variable keeps its type
THEOREM TypesAreKept == Spec => []TypeOK
<1>1. TypeInv => TypeOK
  BY DEF TypeInv
<1>2. QED
  BY RunInit, RunNext, TypeInit, TypeNext, <1>1, PTL DEF Spec

------------------------------------------------------------------------------
(* A request that has met no other one                                     *)

\* The container that works for it is the only one, and finds what it left
OwnAnalysis(r) ==
  /\ r \in Analysing => \A q \in Analysing : q = r
  /\ pc[r] \in {"wait", "read"} => step[r] # "none"
  /\ step[r] \in Inside => pc[r] = "wait"
  /\ step[r] \in Inside \cup {"none"} => ok[r]
  /\ step[r] \in {"start", "phases"} => r \in sandboxes
  /\ step[r] = "phases" => r \in logs
  /\ pc[r] \in {"wait", "read"} /\ step[r] = "exited"
       => code[r] = 0 /\ results[WrittenAs[Pkg(r)]] = r

\* Its scan works in a directory that holds its package and nothing else
OwnScan(r) ==
  /\ pc[r] = "extract" => archiveName[ProcessOf[r]] = Pkg(r) /\ Pkg(r) \in archives
  /\ pc[r] = "scan" => dir[r] = Pkg(r) /\ out[r] = Pkg(r) /\ extracted[Pkg(r)] = {Pkg(r)}
  /\ pc[r] = "load" => out[r] = Pkg(r) /\ scans[Pkg(r)] = {Pkg(r)}

OwnAnswer(r) ==
  /\ pc[r] \in {"raised", "failed"}
       => req[r].quoted \/ (req[r].page # "scan" /\ ReadAs[Pkg(r)] # WrittenAs[Pkg(r)])
  /\ pc[r] \in {"reply", "replied"}
       => IF req[r].page = "scan" THEN got[r] = {Pkg(r)}
          ELSE ReadAs[Pkg(r)] = WrittenAs[Pkg(r)] => got[r] = {r}

OwnInv == \A r \in Request : r \notin disturbed => OwnAnalysis(r) /\ OwnScan(r) /\ OwnAnswer(r)

LEMMA OwnInit == Init => OwnInv
BY RunConstants
DEF Init, OwnInv, OwnAnalysis, OwnScan, OwnAnswer, Analysing, Running, Inside

LEMMA OwnNext == RunInv /\ TypeInv /\ OwnInv /\ [Next]_vars => OwnInv'
<1> SUFFICES ASSUME RunInv, TypeInv, OwnInv, [Next]_vars,
                    NEW q \in Request, q \notin disturbed'
             PROVE  (OwnAnalysis(q) /\ OwnScan(q) /\ OwnAnswer(q))'
  BY DEF OwnInv
<1> USE RunConstants DEF TypeInv, TypeOK, Goto, At
<1> DEFINE Own == OwnAnalysis(q) /\ OwnScan(q) /\ OwnAnswer(q)
<1>a. \A r \in Request : pc[r] # "idle" => Pkg(r) \in Package
  BY DEF RunInv, ServesPage, Asked, Pkg
<1>b. q \notin disturbed => Own
  BY DEF OwnInv
<1>c. ServesPage(q) /\ HasContainer(q)
  BY DEF RunInv
<1>e. got = [r \in Request |-> got[r]]
  BY DEF RunInv, RunTypeOK
\* whose container runs has the shared volumes for itself
<1>d. \A r \in Request \ {q} : r \in Running /\ q \notin disturbed => q \notin Analysing
  BY <1>b DEF OwnAnalysis, Analysing
<1> USE DEF OwnAnalysis, OwnScan, OwnAnswer, Pkg
<1>1. ASSUME NEW r \in Request, Receive(r)
      PROVE  Own'
  BY <1>1, <1>b, <1>c DEF Receive, container, volumes, bandit, Analysing, Running, Inside, HasContainer
<1>2. ASSUME NEW r \in Request, RunAnalysis(r)
      PROVE  Own'
  BY <1>2, <1>b, <1>c DEF RunAnalysis, Analysing, Running, Fault, NoFault, Inside, HasContainer, ServesPage, volumes, bandit
<1>3. ASSUME NEW r \in Request, Waited(r)
      PROVE  Own'
  BY <1>3, <1>b, <1>c DEF Waited, container, volumes, bandit, Analysing, Running, Inside, ServesPage
<1>4. ASSUME NEW r \in Request, GetResultFile(r)
      PROVE  Own'
  <2>1. /\ pc[r] = "read" /\ q \notin disturbed
        /\ UNCHANGED <<req, container, volumes, bandit, disturbed>>
    BY <1>4 DEF GetResultFile
  <2>2. \/ pc' = [pc EXCEPT ![r] = "raised"] /\ got' = got /\ results[ReadAs[Pkg(r)]] = None
        \/ pc' = [pc EXCEPT ![r] = "reply"] /\ got' = [got EXCEPT ![r] = {results[ReadAs[Pkg(r)]]}]
    BY <1>4 DEF GetResultFile
  <2>3. CASE q # r
    <3>1. pc'[q] = pc[q] /\ got'[q] = got[q]
      BY <2>2, <2>3, <1>e
    <3>2. QED
      BY <2>1, <2>2, <2>3, <3>1, <1>b DEF container, volumes, bandit, Analysing, Running
  <2>4. CASE q = r
    <3>1. step[r] = "exited" /\ results[WrittenAs[Pkg(r)]] = r /\ req[r].page # "scan"
      BY <2>1, <2>4, <1>b, <1>c DEF HasContainer, ServesPage
    <3>2. \/ pc'[r] = "raised" /\ results[ReadAs[Pkg(r)]] = None
          \/ pc'[r] = "reply" /\ got'[r] = {results[ReadAs[Pkg(r)]]}
      BY <2>2, <1>e
    <3>3. QED
      BY <2>1, <2>4, <3>1, <3>2 DEF container, volumes, bandit, Analysing, Running, Inside
  <2>5. QED
    BY <2>3, <2>4
<1>5. ASSUME NEW r \in Request, Reply(r)
      PROVE  Own'
  BY <1>5, <1>b, <1>c DEF Reply, container, volumes, bandit, Analysing, Running, Inside, Fault, NoFault
<1>6. ASSUME NEW r \in Request, Interrupt(r)
      PROVE  Own'
  BY <1>6, <1>b, <1>c DEF Interrupt, container, volumes, bandit, Analysing, Running, Inside, Fault
<1>7. ASSUME NEW r \in Request, Resolve(r)
      PROVE  Own'
  BY <1>7, <1>b, <1>c, <1>d DEF Resolve, Exit, Continue, handler, volumes, bandit, Fault, NoFault, Analysing, Running, Inside
<1>8. ASSUME NEW r \in Request, InitSandbox(r)
      PROVE  Own'
  BY <1>8, <1>b, <1>c, <1>d DEF InitSandbox, Exit, Continue, Abort, handler, bandit, Fault, NoFault, Analysing, Running, Inside
<1>9. ASSUME NEW r \in Request, StartSandbox(r)
      PROVE  Own'
  BY <1>9, <1>b, <1>c, <1>d DEF StartSandbox, Continue, Abort, handler, bandit, Analysing, Running, Inside
<1>10. ASSUME NEW r \in Request, RunPhases(r)
       PROVE  Own'
  BY <1>10, <1>b, <1>c, <1>d DEF RunPhases, Continue, Abort, handler, volumes, bandit, Fault, NoFault, Analysing, Running, Inside
<1>11. ASSUME NEW r \in Request, Clean(r)
       PROVE  Own'
  BY <1>11, <1>b, <1>c, <1>d DEF Clean, Exit, Continue, handler, bandit, Analysing, Running, Inside
<1>12. ASSUME NEW r \in Request, Save(r)
       PROVE  Own'
  BY <1>12, <1>b, <1>c, <1>d, <1>a DEF Save, Exit, handler, bandit, Fault, NoFault, Analysing, Running, Inside, HasContainer
<1>13. ASSUME NEW r \in Request, Kill(r)
       PROVE  Own'
  BY <1>13, <1>b, <1>c, <1>d DEF Kill, Exit, handler, volumes, bandit, Fault, Analysing, Running, Inside
<1>14. ASSUME NEW r \in Request, Download(r)
       PROVE  Own'
  BY <1>14, <1>b, <1>c DEF Download, container, volumes, Fault, Meet, Scanning, Analysing, Running, ServesPage
<1>15. ASSUME NEW r \in Request, Extract(r)
       PROVE  Own'
  BY <1>a, <1>b, <1>c, <1>15 DEF Extract, container, volumes, Meet, Scanning, Analysing, Running, ServesPage
<1>16. ASSUME NEW r \in Request, Scan(r)
       PROVE  Own'
  BY <1>16, <1>b, <1>c, <1>a DEF Scan, container, volumes, Fault, Meet, Scanning, Analysing, Running, ServesPage
<1>17. ASSUME NEW r \in Request, Load(r)
       PROVE  Own'
  <2>1. pc[r] = "load" /\ pc' = [pc EXCEPT ![r] = "reply"]
    BY <1>17 DEF Load
  <2>2. UNCHANGED <<req, container, volumes, archiveName, scans, dir, out>>
    BY <1>17 DEF Load
  <2>3. q \notin disturbed /\ (q # r => q \notin Scanning)
    BY <1>17, <2>1 DEF Load, Meet, Scanning
  <2>4. got' = [got EXCEPT ![r] = scans[out[r]]]
    BY <1>17 DEF Load
  <2>5. CASE q # r
    BY <2>1, <2>2, <2>3, <2>4, <2>5, <1>b, <1>e DEF container, volumes, Scanning, Analysing, Running
  <2>6. CASE q = r
    <3>1. req[r].page = "scan" /\ got'[r] = {Pkg(r)} /\ pc'[r] = "reply"
      BY <2>1, <2>3, <2>4, <2>6, <1>b, <1>c, <1>e DEF ServesPage
    <3>2. step[r] = "none" /\ ok[r]
      BY <2>1, <2>3, <2>6, <1>b, <1>c DEF HasContainer
    <3>3. QED
      BY <2>2, <2>6, <3>1, <3>2 DEF container, volumes, Analysing, Running, Inside
  <2>7. QED
    BY <2>5, <2>6
<1>18. CASE UNCHANGED vars
  BY <1>18, <1>b DEF vars, handler, container, volumes, bandit, Analysing, Running
<1>19. QED
  BY <1>1, <1>2, <1>3, <1>4, <1>5, <1>6, <1>7, <1>8, <1>9, <1>10, <1>11, <1>12, <1>13,
     <1>14, <1>15, <1>16, <1>17, <1>18
  DEF Next, Handler, Container

\* A request that meets no other one is answered with the analysis of its own
\* package, for any number of requests before it and whatever they have left
THEOREM OwnResultWhenAlone == Spec => []AloneIsOwn
<1>1. RunInv /\ OwnInv => AloneIsOwn
  BY DEF RunInv, ServesPage, OwnInv, OwnAnswer, AloneIsOwn, Answered, At
<1>2. QED
  BY RunInit, RunNext, TypeInit, TypeNext, OwnInit, OwnNext, <1>1, PTL DEF Spec
=============================================================================
