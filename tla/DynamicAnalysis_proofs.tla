------------------------ MODULE DynamicAnalysis_proofs ------------------------
(***************************************************************************)
(* CaptureWithinPhase, NoContainerLeft, LogsAreOwn, ResultIsConsistent and *)
(* TypeOK for any number of analyses, packets and faults.                  *)
(*                                                                         *)
(* For the capture the induction relates the goroutine, the handle and the *)
(* place of the analysis: there is a handle exactly while the goroutine    *)
(* lives, and it answers on `done` only after the analysis has sent on     *)
(* `stop`.  For the containers: once Init has succeeded, or has failed     *)
(* after the container was created, the object holds it until Clean.  For  *)
(* the result: what it says of the phases that have ended, and of the one  *)
(* under way, at each place of the loop.                                   *)
(***************************************************************************)
EXTENDS DynamicAnalysis, TLAPS

\* Where only a dynamic analysis, and where any one with a sandbox, can be
DynamicOnly == {"ssh", "phase", "parse", "record", "retrieveLog", "close", "closeDone", "closed"}
WithSandbox == DynamicOnly \cup {"run", "wait", "stop", "readResults", "giveUp"}
Places      == WithSandbox \cup {"idle", "next", "network", "new", "init", "clean"}

Located ==
  /\ pc \in Places /\ mode \in Mode /\ after \in {"", "parse", "record", "failed"}
  /\ pc \in {"wait", "stop"} => after \in {"parse", "failed"}
  /\ pc \in {"parse", "close", "closeDone", "closed"} => after # ""
  /\ pc \in DynamicOnly => mode = "dynamic"

CaptureInv ==
  /\ cap \in {"off", "select", "handle", "exit"} /\ handle \in BOOLEAN /\ source \in BOOLEAN
  /\ handle <=> cap # "off"
  /\ pc = "closeDone" => cap = "exit"
  /\ CaptureWithinPhase

ContainerInv ==
  /\ held \in BOOLEAN
  /\ pc \in WithSandbox => held
  /\ pc = "init" => ~held
  /\ pc \notin WithSandbox \cup {"clean"} /\ ~uncleaned => containers = <<>>
  /\ pc = "clean" /\ ~held /\ ~uncleaned => containers = <<>>

DynamicInv == Located /\ CaptureInv /\ ContainerInv

LEMMA DynamicInit == Init => DynamicInv
BY DEF Init, DynamicInv, Located, CaptureInv, ContainerInv, CaptureWithinPhase, DynamicOnly,
       WithSandbox, Places, Mode

LEMMA DynamicNext == DynamicInv /\ [Next]_vars => DynamicInv'
<1> SUFFICES ASSUME DynamicInv, [Next]_vars
             PROVE  DynamicInv'
  OBVIOUS
<1> USE DEF DynamicInv, Located, CaptureInv, ContainerInv, CaptureWithinPhase, DynamicOnly,
            WithSandbox, Places, Mode, At, Goto, Fail, podman, object, outcome, capture, plan
<1>1. CASE Begin
  BY <1>1 DEF Begin
<1>2. CASE NextMode
  BY <1>2 DEF NextMode
<1>3. CASE InitNetwork
  BY <1>3 DEF InitNetwork
<1>4. CASE NewSandbox
  BY <1>4 DEF NewSandbox
<1>5. CASE InitSandbox
  BY <1>5 DEF InitSandbox
<1>6. CASE AddSSHKeys
  BY <1>6 DEF AddSSHKeys
<1>7. CASE Run
  <2>1. CASE mode = "dynamic"
    BY <1>7, <2>1 DEF Run, RunFails, Returned
  <2>2. CASE mode = "static"
    BY <1>7, <2>2 DEF Run, RunFails, Returned
  <2>3. QED
    BY <2>1, <2>2
<1>8. CASE StopContainer
  BY <1>8 DEF StopContainer, RunFails, Returned
<1>9. CASE Clean
  BY <1>9 DEF Clean
<1>10. CASE ReadResults
  BY <1>10 DEF ReadResults
<1>11. CASE StartPhase
  BY <1>11 DEF StartPhase
<1>12. CASE GiveUp
  BY <1>12 DEF GiveUp
<1>13. CASE ParseLog
  BY <1>13 DEF ParseLog
<1>14. CASE RecordPhase
  BY <1>14 DEF RecordPhase, NextPhase
<1>15. CASE RetrieveExecutionLog
  BY <1>15 DEF RetrieveExecutionLog, NextPhase
<1>16. CASE CloseStop
  BY <1>16 DEF CloseStop
<1>17. CASE CloseDone
  BY <1>17 DEF CloseDone
<1>18. CASE Closed
  BY <1>18 DEF Closed
<1>19. CASE CommandExits
  BY <1>19 DEF CommandExits
<1>20. CASE TakePacket \/ HandlePacket \/ Packet \/ SourceEnds
  BY <1>20 DEF TakePacket, HandlePacket, Packet, SourceEnds
<1>21. CASE UNCHANGED vars
  BY <1>21 DEF vars
<1>22. QED
  BY <1>1, <1>2, <1>3, <1>4, <1>5, <1>6, <1>7, <1>8, <1>9, <1>10, <1>11, <1>12, <1>13,
     <1>14, <1>15, <1>16, <1>17, <1>18, <1>19, <1>20, <1>21
  DEF Next, Analysis, Receiver

\* The goroutine of the packet capture never outlives its phase, and what its
\* receiver collects is never read while it runs, whatever fails in between
THEOREM CaptureEndsWithPhase == Spec => []CaptureWithinPhase
<1>1. DynamicInv => CaptureWithinPhase
  BY DEF DynamicInv, CaptureInv
<1>2. QED
  BY DynamicInit, DynamicNext, <1>1, PTL DEF Spec

\* No analysis leaves a container behind unless a clean-up itself has failed
THEOREM ContainersAreRemoved == Spec => []NoContainerLeft
<1>1. DynamicInv => NoContainerLeft
  BY DEF DynamicInv, ContainerInv, NoContainerLeft, WithSandbox, DynamicOnly
<1>2. QED
  BY DynamicInit, DynamicNext, <1>1, PTL DEF Spec

------------------------------------------------------------------------------
(* The logs: Init of a sandbox removes all there are, and what is recorded   *)
(* or saved comes from a log of the current one                              *)

LogsInv ==
  /\ pc \in WithSandbox => \A l \in logs : l[1] = sb
  /\ pc \in {"close", "closeDone", "closed"} /\ after = "record" => <<sb, last>> \in logs
  /\ pc = "record" => <<sb, last>> \in logs
  /\ execLog \in {0, sb}
  /\ pc \in {"network", "new"} => execLog = 0
  /\ pc = "retrieveLog" => "execute" \in DOMAIN data
  /\ execLog # 0 => "execute" \in DOMAIN data

LEMMA LogsInit == Init => LogsInv
BY DEF Init, LogsInv, DynamicOnly, WithSandbox

LEMMA LogsNext == DynamicInv /\ LogsInv /\ [Next]_vars => LogsInv'
<1> SUFFICES ASSUME DynamicInv, LogsInv, [Next]_vars
             PROVE  LogsInv'
  OBVIOUS
<1> USE DEF DynamicInv, Located, LogsInv, DynamicOnly, WithSandbox, Places, Mode, At, Goto, Fail,
            podman, object, files, outcome, capture, plan
<1>1. CASE Begin
  BY <1>1 DEF Begin
<1>2. CASE NextMode
  BY <1>2 DEF NextMode
<1>3. CASE InitNetwork
  BY <1>3 DEF InitNetwork
<1>4. CASE NewSandbox
  BY <1>4 DEF NewSandbox
<1>5. CASE InitSandbox
  BY <1>5 DEF InitSandbox
<1>6. CASE AddSSHKeys
  BY <1>6 DEF AddSSHKeys
<1>7. CASE Run
  <2>1. /\ pc = "run" /\ pc' \in {"wait", "close", "giveUp"} /\ after' # "record"
        /\ UNCHANGED <<sb, data, execLog>>
    BY <1>7 DEF Run, RunFails, Returned
  <2>2. logs' = logs \/ logs' = logs \cup {<<sb, last>>}
    BY <1>7 DEF Run
  <2>3. \A l \in logs : l[1] = sb
    BY <2>1
  <2>4. <<sb, last>>[1] = sb
    OBVIOUS
  <2>5. \A l \in logs' : l[1] = sb
    BY <2>2, <2>3, <2>4, Zenon
  <2>6. QED
    BY <2>1, <2>5
<1>8. CASE StopContainer
  BY <1>8 DEF StopContainer, RunFails, Returned
<1>9. CASE Clean
  BY <1>9 DEF Clean
<1>10. CASE ReadResults
  BY <1>10 DEF ReadResults
<1>11. CASE StartPhase
  BY <1>11 DEF StartPhase
<1>12. CASE GiveUp
  BY <1>12 DEF GiveUp
<1>13. CASE ParseLog
  BY <1>13 DEF ParseLog
<1>14. CASE RecordPhase
  BY <1>14 DEF RecordPhase, Recorded, NextPhase
<1>15. CASE RetrieveExecutionLog
  BY <1>15 DEF RetrieveExecutionLog, NextPhase
<1>16. CASE CloseStop
  BY <1>16 DEF CloseStop
<1>17. CASE CloseDone
  BY <1>17 DEF CloseDone
<1>18. CASE Closed
  BY <1>18 DEF Closed
<1>19. CASE CommandExits
  BY <1>19 DEF CommandExits
<1>20. CASE TakePacket \/ HandlePacket \/ Packet \/ SourceEnds
  BY <1>20 DEF TakePacket, HandlePacket, Packet, SourceEnds
<1>21. CASE UNCHANGED vars
  BY <1>21 DEF vars
<1>22. QED
  BY <1>1, <1>2, <1>3, <1>4, <1>5, <1>6, <1>7, <1>8, <1>9, <1>10, <1>11, <1>12, <1>13,
     <1>14, <1>15, <1>16, <1>17, <1>18, <1>19, <1>20, <1>21
  DEF Next, Analysis, Receiver

\* No phase is judged by a log of an earlier package, and the execution log
\* that is saved is the one of the package's own execute phase
THEOREM LogsAreOfThisSandbox == Spec => []LogsAreOwn
<1>1. DynamicInv /\ LogsInv => LogsAreOwn
  BY DEF DynamicInv, LogsInv, LogsAreOwn, At, DynamicOnly, WithSandbox
<1>2. QED
  BY DynamicInit, DynamicNext, LogsInit, LogsNext, <1>1, PTL DEF Spec

------------------------------------------------------------------------------
(* The result: a phase is begun once, and what is recorded is recorded for   *)
(* the phases that ended, in their order                                     *)

\* A phase is under way, and nothing is recorded for it
InPhase == {"run", "wait", "stop", "parse", "close", "closeDone", "closed", "record", "giveUp"}

NoStatus == status = ""

AllCompleted == \A p \in DOMAIN data : data[p] = "completed"

Ended == /\ Len(order) > 0 /\ last = order[Len(order)]
         /\ status = data[last] /\ status \in {"completed", "error_analysis"}

PhasesLeft ==
  /\ phases \in Seq(Phase)
  /\ \A i, j \in 1 .. Len(phases) : phases[i] = phases[j] => i = j
  /\ \A i \in 1 .. Len(phases) : phases[i] \notin DOMAIN data

PlanInv ==
  /\ todo \subseteq Mode
  /\ pc = "readResults" => mode = "static"
  /\ "dynamic" \in todo => Len(phases) > 0
  /\ pc \notin {"idle", "next"} /\ mode = "dynamic" => todo = {}
  /\ pc \in {"network", "new", "init", "ssh"} /\ mode = "dynamic" => Len(phases) > 0

RecordsInv ==
  /\ order \in Seq(Phase)
  /\ \A i \in 1 .. Len(order) : order[i] \in DOMAIN data
  /\ \A p \in DOMAIN data : \E i \in 1 .. Len(order) : p = order[i]
  /\ \A i \in 1 .. Len(order) - 1 : data[order[i]] = "completed"
  /\ pc \in {"idle", "network", "new", "init", "ssh"} \/ (mode = "static" /\ pc # "next") =>
       Len(order) = 0 /\ (pc # "clean" => ~err) /\ NoStatus

ResultInv ==
  /\ run \in {"unknown", "success", "failure"}
  /\ pc \in {"parse", "record"} => run \in {"success", "failure"}
  /\ pc \in {"stop", "parse", "close", "closeDone", "closed"} /\ after # "failed" =>
       run \in {"success", "failure"}
  /\ pc \in InPhase /\ mode = "dynamic" =>
       /\ ~err /\ AllCompleted /\ last \in Phase \ DOMAIN data
       /\ \A i \in 1 .. Len(phases) : phases[i] # last
  /\ pc = "phase" => /\ ~err /\ AllCompleted
                     /\ (Len(order) > 0 => Ended)
                     /\ (Len(order) = 0 => Len(phases) > 0)
  /\ pc = "retrieveLog" => ~err /\ Ended
  /\ pc = "clean" /\ mode = "dynamic" =>
       IF err THEN NoStatus /\ last \notin DOMAIN data /\ AllCompleted
       ELSE Ended /\ (status = "completed" => Len(phases) = 0)

RecordInv == PhasesLeft /\ PlanInv /\ RecordsInv /\ ResultInv

LEMMA EmptyLen == ASSUME NEW s \in Seq(Phase) PROVE s = <<>> <=> Len(s) = 0
OBVIOUS

\* The phases of any ecosystem differ, and there is at least one
LEMMA PhasesDiffer ==
  ASSUME NEW e, NEW c \in BOOLEAN
  PROVE  LET s == dynamicPhases(e, c)
         IN  s \in Seq(Phase) /\ Len(s) > 0 /\ \A i, j \in 1 .. Len(s) : s[i] = s[j] => i = j
<1> DEFINE a == IF e = "wolfi" THEN <<"install">> ELSE <<"install", "import">>
           b == IF c /\ e \in {"wolfi", "pypi"} THEN <<"execute">> ELSE <<>>
<1>1. /\ a \in Seq(Phase) /\ Len(a) \in {1, 2} /\ a[1] = "install"
      /\ Len(a) = 2 => a[2] = "import"
  <2>1. <<"install">> \in Seq(Phase) /\ Len(<<"install">>) = 1 /\ <<"install">>[1] = "install"
    BY DEF Phase
  <2>2. /\ <<"install", "import">> \in Seq(Phase) /\ Len(<<"install", "import">>) = 2
        /\ <<"install", "import">>[1] = "install" /\ <<"install", "import">>[2] = "import"
    BY DEF Phase
  <2> QED
    BY <2>1, <2>2
<1>2. b \in Seq(Phase) /\ Len(b) \in {0, 1} /\ (Len(b) = 1 => b[1] = "execute")
  <2>1. <<"execute">> \in Seq(Phase) /\ Len(<<"execute">>) = 1 /\ <<"execute">>[1] = "execute"
    BY DEF Phase
  <2> QED
    BY <2>1
<1>3. dynamicPhases(e, c) = a \o b
  BY DEF dynamicPhases
<1> HIDE DEF a, b
<1>4. /\ a \o b \in Seq(Phase) /\ Len(a \o b) = Len(a) + Len(b)
      /\ \A i \in 1 .. Len(a) + Len(b) : (a \o b)[i] = IF i <= Len(a) THEN a[i] ELSE b[i - Len(a)]
  BY <1>1, <1>2
<1> DEFINE s == a \o b
<1>5. Len(s) \in 1 .. 3 /\ s[1] = "install" /\ (Len(s) >= 2 => s[2] \in {"import", "execute"})
      /\ (Len(s) = 3 => s[2] = "import" /\ s[3] = "execute") /\ s \in Seq(Phase)
  <2>1. CASE Len(a) = 1
    BY <2>1, <1>1, <1>2, <1>4
  <2>2. CASE Len(a) = 2
    BY <2>2, <1>1, <1>2, <1>4
  <2> QED
    BY <2>1, <2>2, <1>1
<1> HIDE DEF s
<1>6. Len(s) > 0
  BY <1>5
<1>7. \A i, j \in 1 .. Len(s) : s[i] = s[j] => i = j
  BY <1>5
<1> QED
  BY <1>3, <1>5, <1>6, <1>7 DEF s

LEMMA NoData == ASSUME RecordsInv, Len(order) = 0 PROVE \A p : p \notin DOMAIN data
BY DEF RecordsInv

LEMMA RecordInit == Init => RecordInv
<1> SUFFICES ASSUME Init PROVE RecordInv
  OBVIOUS
<1>1. /\ pc = "idle" /\ mode = "static" /\ todo = {} /\ phases = <<>> /\ data = <<>> /\ order = <<>>
      /\ NoStatus /\ err = FALSE /\ run = "unknown"
  BY DEF Init, NoStatus
<1>2. phases \in Seq(Phase) /\ Len(phases) = 0 /\ order \in Seq(Phase) /\ Len(order) = 0
  BY <1>1
<1>3. \A p : p \notin DOMAIN data
  BY <1>1
<1> QED
  BY <1>1, <1>2, <1>3 DEF RecordInv, PhasesLeft, PlanInv, RecordsInv, ResultInv, InPhase, Mode

\* The places before the first phase
Start == {"network", "new", "init", "ssh"}

\* A step that neither begins, ends nor records a phase
LEMMA RecordKept ==
  ASSUME DynamicInv, RecordInv, UNCHANGED <<todo, mode, phases, data, order, last, status, err>>,
         pc' \in Start => pc \in Start,
         pc' = "phase" => pc \in {"phase", "ssh"},
         pc' \in InPhase /\ mode = "dynamic" => pc \in InPhase,
         pc' \in {"idle", "retrieveLog"} => pc = pc',
         pc' = "clean" => pc = "clean" \/ mode = "static",
         pc \in {"idle", "next"} => pc = pc',
         pc = "clean" => pc' \in {"clean", "next"},
         pc' \in {"run", "readResults"} /\ pc # pc' => mode = "static",
         run' \in {"unknown", "success", "failure"},
         pc' \in {"parse", "record"} => run' \in {"success", "failure"},
         pc' \in {"stop", "parse", "close", "closeDone", "closed"} /\ after' # "failed" =>
           run' \in {"success", "failure"}
  PROVE  RecordInv'
<1>0. mode \in Mode /\ (pc \in DynamicOnly => mode = "dynamic")
  BY DEF DynamicInv, Located
<1>1. PhasesLeft'
  BY DEF RecordInv, PhasesLeft
<1>4. PlanInv'
  BY DEF RecordInv, PlanInv, Start
<1>2. RecordsInv'
  <2>1. UNCHANGED NoStatus
    BY DEF NoStatus
  <2> QED
    BY <2>1 DEF RecordInv, RecordsInv, Start, DynamicInv, Located, Mode, DynamicOnly
<1>3. ResultInv'
  <2>1. UNCHANGED NoStatus
    BY DEF NoStatus
  <2> QED
    BY <2>1, <1>0 DEF RecordInv, PhasesLeft, PlanInv, RecordsInv, ResultInv, InPhase, Start, AllCompleted,
         Ended, Mode, DynamicOnly
<1> QED
  BY <1>1, <1>2, <1>3, <1>4 DEF RecordInv

LEMMA RecordNext == DynamicInv /\ DynamicInv' /\ RecordInv /\ [Next]_vars => RecordInv'
<1> SUFFICES ASSUME DynamicInv, DynamicInv', RecordInv, [Next]_vars
             PROVE  RecordInv'
  OBVIOUS
<1> DEFINE Locate == /\ pc \in Places /\ mode \in Mode /\ after \in {"", "parse", "record", "failed"}
                     /\ pc \in {"wait", "stop"} => after \in {"parse", "failed"}
                     /\ pc \in {"parse", "close", "closeDone", "closed"} => after # ""
                     /\ pc \in DynamicOnly => mode = "dynamic"
                     /\ run \in {"unknown", "success", "failure"}
                     /\ pc \in {"parse", "record"} => run \in {"success", "failure"}
                     /\ pc \in {"stop", "parse", "close", "closeDone", "closed"} /\ after # "failed" =>
                          run \in {"success", "failure"}
<1>0. Locate
  BY DEF DynamicInv, Located, RecordInv, ResultInv
<1> USE DEF Start, InPhase, At, Goto, Fail, podman, object, files, outcome, capture, plan
<1>1. CASE Begin
  <2>1. PICK e \in Ecosystems, c \in BOOLEAN : phases' = dynamicPhases(e, c)
    BY <1>1 DEF Begin
  <2>2. phases' \in Seq(Phase) /\ Len(phases') > 0 /\ \A i, j \in 1 .. Len(phases') : phases'[i] = phases'[j] => i = j
    BY <2>1, PhasesDiffer
  <2>3. pc = "idle" /\ pc' = "next" /\ UNCHANGED <<outcome, mode, run, after>> /\ todo' \subseteq Mode
    BY <1>1 DEF Begin
  <2>4. Len(order) = 0 /\ \A p : p \notin DOMAIN data
    BY <2>3, NoData DEF RecordInv, RecordsInv
  <2>5. PhasesLeft'
    BY <2>2, <2>3, <2>4 DEF PhasesLeft
  <2>8. PlanInv'
    BY <2>2, <2>3 DEF PlanInv
  <2>6. RecordsInv'
    BY <2>3 DEF RecordInv, RecordsInv
  <2>7. ResultInv'
    BY <2>3 DEF RecordInv, ResultInv, InPhase
  <2> QED
    BY <2>5, <2>6, <2>7, <2>8 DEF RecordInv
<1>2. CASE NextMode
  <2>1. /\ pc = "next" /\ pc' \in {"idle", "network"} /\ UNCHANGED <<phases, run, after>>
        /\ data' = <<>> /\ order' = <<>> /\ NoStatus' /\ err' = FALSE
    BY <1>2 DEF NextMode, NoStatus
  <2>2. /\ todo' \subseteq Mode /\ ("dynamic" \in todo' => "dynamic" \in todo)
        /\ pc' = "network" /\ mode' = "dynamic" => "dynamic" \in todo /\ todo' = {}
    BY <1>2 DEF NextMode, RecordInv, PlanInv, Mode
  <2>3. (\A p : p \notin DOMAIN data') /\ Len(order') = 0 /\ order' \in Seq(Phase)
    BY <2>1
  <2>4. PhasesLeft'
    BY <2>1, <2>3 DEF RecordInv, PhasesLeft
  <2>7. PlanInv'
    BY <2>1, <2>2 DEF RecordInv, PlanInv
  <2>5. RecordsInv'
    BY <2>1, <2>3 DEF RecordInv, RecordsInv
  <2>6. ResultInv'
    BY <2>1 DEF RecordInv, ResultInv, InPhase
  <2> QED
    BY <2>4, <2>5, <2>6, <2>7 DEF RecordInv
<1>3. CASE InitNetwork
  <2>1. CASE pc' = "new" /\ UNCHANGED todo
    BY <1>3, <2>1, <1>0, RecordKept DEF InitNetwork
  <2>2. CASE pc' = "next" /\ todo' = {}
    BY <1>3, <2>2, <1>0 DEF InitNetwork, RecordInv, PhasesLeft, PlanInv, RecordsInv, ResultInv, InPhase
  <2> QED
    BY <1>3, <2>1, <2>2 DEF InitNetwork
<1>4. CASE NewSandbox
  BY <1>4, <1>0, RecordKept DEF NewSandbox
<1>5. CASE InitSandbox
  <2>0. pc = "init" /\ ~err
    BY <1>5 DEF InitSandbox, RecordInv, RecordsInv
  <2>1. CASE pc' # "clean"
    BY <1>5, <2>0, <2>1, <1>0, RecordKept DEF InitSandbox, Mode
  <2>2. CASE pc' = "clean"
    <3>1. /\ pc = "init" /\ Len(order) = 0 /\ NoStatus
          /\ UNCHANGED <<todo, mode, phases, data, order, last, run, NoStatus>> /\ err' = TRUE
      BY <1>5, <2>2 DEF InitSandbox, RecordInv, RecordsInv, NoStatus
    <3>2. \A p : p \notin DOMAIN data
      BY <3>1, NoData DEF RecordInv
    <3> QED
      BY <2>2, <3>1, <3>2 DEF RecordInv, PhasesLeft, PlanInv, RecordsInv, ResultInv, InPhase, AllCompleted
  <2> QED
    BY <2>1, <2>2
<1>6. CASE AddSSHKeys
  BY <1>6, <1>0, RecordKept DEF AddSSHKeys
<1>7. CASE Run
  BY <1>7, <1>0, RecordKept DEF Run, RunFails, Returned
<1>8. CASE StopContainer
  BY <1>8, <1>0, RecordKept DEF StopContainer, RunFails, Returned, Mode
<1>9. CASE Clean
  BY <1>9, <1>0, RecordKept DEF Clean
<1>10. CASE ReadResults
  <2>1. /\ pc = "readResults" /\ mode = "static" /\ pc' = "clean"
        /\ UNCHANGED <<todo, mode, phases, data, order, run, NoStatus>>
    BY <1>10 DEF ReadResults, RecordInv, PlanInv, NoStatus
  <2> QED
    BY <2>1 DEF RecordInv, PhasesLeft, PlanInv, RecordsInv, ResultInv, InPhase
<1>11. CASE StartPhase
  <2>1. CASE Len(phases) = 0
    <3>0. phases = <<>>
      BY <2>1, EmptyLen DEF RecordInv, PhasesLeft
    <3>1. pc = "phase" /\ pc' = "clean" /\ mode = "dynamic"
      BY <1>11, <3>0, <1>0 DEF StartPhase, DynamicOnly
    <3>2. UNCHANGED <<todo, mode, phases, data, order, last, status, err, run, NoStatus>>
      BY <1>11, <3>0 DEF StartPhase, NoStatus
    <3>3. PhasesLeft' /\ PlanInv' /\ RecordsInv'
      BY <3>1, <3>2 DEF RecordInv, PhasesLeft, PlanInv, RecordsInv
    <3>4. ~err /\ Ended /\ UNCHANGED Ended
      BY <2>1, <3>1, <3>2 DEF RecordInv, ResultInv, Ended
    <3>5. ResultInv'
      BY <2>1, <3>1, <3>2, <3>4 DEF RecordInv, ResultInv
    <3> QED
      BY <3>3, <3>5 DEF RecordInv
  <2>2. CASE Len(phases) > 0
    <3>0. phases \in Seq(Phase) /\ phases # <<>>
      BY <2>2 DEF RecordInv, PhasesLeft
    <3>1. /\ pc = "phase" /\ pc' \in {"run", "giveUp"} /\ mode = "dynamic"
          /\ phases' = Tail(phases) /\ last' = Head(phases)
          /\ UNCHANGED <<todo, mode, data, order, err, run, NoStatus, after>>
      BY <1>11, <3>0 DEF StartPhase, DynamicInv, Located, DynamicOnly, NoStatus
    <3>2. /\ phases' \in Seq(Phase) /\ Len(phases') = Len(phases) - 1 /\ last' = phases[1] /\ last' \in Phase
          /\ \A i \in 1 .. Len(phases') : phases'[i] = phases[i + 1]
      BY <3>0, <3>1, <2>2
    <3>3. PhasesLeft' /\ last' \notin DOMAIN data' /\ \A i \in 1 .. Len(phases') : phases'[i] # last'
      BY <3>0, <3>1, <3>2, <2>2 DEF RecordInv, PhasesLeft
    <3>4. PlanInv' /\ RecordsInv'
      BY <3>1 DEF RecordInv, PlanInv, RecordsInv
    <3>5. ResultInv'
      BY <3>1, <3>2, <3>3 DEF RecordInv, ResultInv, AllCompleted
    <3> QED
      BY <3>3, <3>4, <3>5 DEF RecordInv
  <2> QED
    BY <2>1, <2>2 DEF RecordInv, PhasesLeft
<1>12. CASE GiveUp
  <2>1. /\ pc = "giveUp" /\ pc' = "clean" /\ err' /\ NoStatus'
        /\ UNCHANGED <<todo, mode, phases, data, order, last, run>>
    BY <1>12 DEF GiveUp, NoStatus
  <2>2. mode \in {"static", "dynamic"} /\ run' \in {"unknown", "success", "failure"}
    BY <2>1, <1>0 DEF Mode
  <2>3. PhasesLeft' /\ PlanInv'
    BY <2>1 DEF RecordInv, PhasesLeft, PlanInv
  <2>4. RecordsInv'
    BY <2>1, <2>2 DEF RecordInv, RecordsInv
  <2>5. mode = "dynamic" => AllCompleted' /\ last' \notin DOMAIN data'
    BY <2>1 DEF RecordInv, ResultInv, AllCompleted
  <2>6. ResultInv'
    BY <2>1, <2>2, <2>5 DEF ResultInv
  <2> QED
    BY <2>3, <2>4, <2>6 DEF RecordInv
<1>13. CASE ParseLog
  <2>1. /\ pc = "parse" /\ pc' = "close" /\ after' \in {"record", "failed"}
        /\ UNCHANGED <<todo, mode, phases, data, order, last, status, err, run>>
    BY <1>13 DEF ParseLog
  <2>2. run' \in {"unknown", "success", "failure"} /\ (after' # "failed" => run' \in {"success", "failure"})
    <3>1. run \in {"success", "failure"}
      BY <2>1 DEF RecordInv, ResultInv
    <3> QED
      BY <2>1, <3>1, <1>13, <1>0 DEF ParseLog
  <2> QED
    BY <2>1, <2>2, RecordKept
<1>14. CASE RecordPhase
  <2>1. /\ pc = "record" /\ mode = "dynamic" /\ ~err /\ last \in Phase \ DOMAIN data /\ AllCompleted
        /\ run \in {"success", "failure"} /\ order \in Seq(Phase)
        /\ \A i \in 1 .. Len(phases) : phases[i] # last
        /\ \A i \in 1 .. Len(order) : order[i] \in DOMAIN data
        /\ \A p \in DOMAIN data : \E i \in 1 .. Len(order) : p = order[i]
    BY <1>14 DEF RecordPhase, DynamicInv, Located, DynamicOnly, RecordInv, RecordsInv, ResultInv
  <2>2. /\ UNCHANGED <<todo, mode, phases, last, err, run>>
        /\ status' \in {"completed", "error_analysis"}
        /\ data' = [p \in DOMAIN data \cup {last} |-> IF p = last THEN status' ELSE data[p]]
        /\ order' = Append(order, last)
        /\ pc' \in {"retrieveLog", "phase", "clean"}
        /\ pc' = "phase" => status' = "completed"
        /\ pc' = "clean" => status' # "completed"
    BY <1>14, <2>1 DEF RecordPhase, Recorded, NextPhase, StatusForRunResult
  <2>3. /\ order' \in Seq(Phase) /\ Len(order') = Len(order) + 1 /\ order'[Len(order) + 1] = last
        /\ \A i \in 1 .. Len(order) : order'[i] = order[i]
    BY <2>1, <2>2
  <2>4. /\ DOMAIN data' = DOMAIN data \cup {last} /\ data'[last] = status'
        /\ \A p \in DOMAIN data : data'[p] = "completed"
    BY <2>1, <2>2 DEF AllCompleted
  <2>5. PhasesLeft' /\ PlanInv'
    BY <2>1, <2>2, <2>4 DEF RecordInv, PhasesLeft, PlanInv
  <2>6. /\ \A i \in 1 .. Len(order') : order'[i] \in DOMAIN data'
        /\ \A i \in 1 .. Len(order') - 1 : data'[order'[i]] = "completed"
    <3>1. Len(order) \in Nat
      BY <2>1
    <3>2. \A i \in 1 .. Len(order) : order'[i] \in DOMAIN data
      BY <2>1, <2>3
    <3>3. \A i \in 1 .. Len(order') : i \in 1 .. Len(order) \/ i = Len(order) + 1
      BY <2>3, <3>1
    <3>4. 1 .. Len(order') - 1 = 1 .. Len(order)
      BY <2>3, <3>1
    <3> QED
      BY <2>3, <2>4, <3>2, <3>3, <3>4, Zenon
  <2>7. \A p \in DOMAIN data' : \E i \in 1 .. Len(order') : p = order'[i]
    <3>1. Len(order) + 1 \in 1 .. Len(order')
      BY <2>1, <2>3
    <3>2. \A p \in DOMAIN data : \E i \in 1 .. Len(order') : p = order'[i]
      BY <2>1, <2>3
    <3> QED
      BY <2>3, <2>4, <3>1, <3>2
  <2>8. RecordsInv'
    BY <2>1, <2>2, <2>3, <2>6, <2>7 DEF RecordsInv
  <2>9. Ended'
    BY <2>1, <2>2, <2>3, <2>4 DEF Ended
  <2>10. ResultInv'
    BY <2>1, <2>2, <2>4, <2>9, <2>3 DEF ResultInv, AllCompleted
  <2> QED
    BY <2>5, <2>8, <2>10 DEF RecordInv
<1>15. CASE RetrieveExecutionLog
  <2>1. /\ pc = "retrieveLog" /\ mode = "dynamic" /\ ~err /\ Ended
        /\ \A i \in 1 .. Len(order) - 1 : data[order[i]] = "completed"
        /\ \A p \in DOMAIN data : \E i \in 1 .. Len(order) : p = order[i]
        /\ order \in Seq(Phase)
    BY <1>15 DEF RetrieveExecutionLog, DynamicInv, Located, DynamicOnly, RecordInv, RecordsInv, ResultInv
  <2>2. /\ UNCHANGED <<todo, mode, phases, data, order, last, status, err, run>>
        /\ pc' = IF status = "completed" THEN "phase" ELSE "clean"
    BY <1>15 DEF RetrieveExecutionLog, NextPhase
  <2>3. status = "completed" => AllCompleted
    <3> SUFFICES ASSUME status = "completed", NEW p \in DOMAIN data
                 PROVE  data[p] = "completed"
      BY DEF AllCompleted
    <3>1. PICK i \in 1 .. Len(order) : p = order[i]
      BY <2>1
    <3>2. i = Len(order) \/ i \in 1 .. Len(order) - 1
      BY <2>1
    <3>3. data[order[Len(order)]] = "completed"
      BY <2>1 DEF Ended
    <3> QED
      BY <2>1, <3>1, <3>2, <3>3
  <2>4. UNCHANGED <<Ended, AllCompleted>>
    BY <2>2 DEF Ended, AllCompleted
  <2>5. Len(order) > 0
    BY <2>1 DEF Ended
  <2> QED
    BY <2>1, <2>2, <2>3, <2>4, <2>5 DEF RecordInv, PhasesLeft, PlanInv, RecordsInv, ResultInv
<1>16. CASE CloseStop
  BY <1>16, <1>0, RecordKept DEF CloseStop, DynamicOnly
<1>17. CASE CloseDone
  BY <1>17, <1>0, RecordKept DEF CloseDone, DynamicOnly
<1>18. CASE Closed
  BY <1>18, <1>0, RecordKept DEF Closed, DynamicOnly
<1>19. CASE CommandExits
  BY <1>19, <1>0, RecordKept DEF CommandExits
<1>20. CASE TakePacket \/ HandlePacket \/ Packet \/ SourceEnds
  BY <1>20, <1>0, RecordKept DEF TakePacket, HandlePacket, Packet, SourceEnds
<1>21. CASE UNCHANGED vars
  BY <1>21, <1>0, RecordKept DEF vars
<1> QED
  BY <1>1, <1>2, <1>3, <1>4, <1>5, <1>6, <1>7, <1>8, <1>9, <1>10, <1>11, <1>12, <1>13,
     <1>14, <1>15, <1>16, <1>17, <1>18, <1>19, <1>20, <1>21
  DEF Next, Analysis, Receiver

\* What RunDynamicAnalysis returns agrees with itself, whatever fails in the
\* sandbox, the capture, the command or the parser, for packages of any
\* ecosystem: an error of our own leaves no data for the last phase and no
\* status, a result has both, and every phase before the last one completed.
THEOREM ResultAgreesWithItself == Spec => []ResultIsConsistent
<1>1. DynamicInv /\ RecordInv => ResultIsConsistent
  <2> SUFFICES ASSUME RecordInv, pc = "clean", mode = "dynamic"
               PROVE  ResultIsConsistent
    BY DEF ResultIsConsistent, At
  <2>1. /\ order \in Seq(Phase) /\ DOMAIN order = 1 .. Len(order)
        /\ phases \in Seq(Phase)
        /\ \A i \in 1 .. Len(order) : order[i] \in DOMAIN data
        /\ \A p \in DOMAIN data : \E i \in 1 .. Len(order) : p = order[i]
    BY DEF RecordInv, RecordsInv, PhasesLeft
  <2>2. DOMAIN data = {order[i] : i \in DOMAIN order}
    BY <2>1, Zenon
  <2>3. \A i \in 1 .. Len(order) - 1 : data[order[i]] = "completed"
    BY DEF RecordInv, RecordsInv
  <2>4. err => status = "" /\ last \notin DOMAIN data /\ \A p \in DOMAIN data : data[p] = "completed"
    BY DEF RecordInv, ResultInv, NoStatus, AllCompleted
  <2>5. ~err => Ended /\ (status = "completed" => Len(phases) = 0)
    BY DEF RecordInv, ResultInv
  <2>6. Len(phases) = 0 => phases = <<>>
    BY <2>1, EmptyLen
  <2>7. ~err => /\ order # <<>> /\ last = order[Len(order)]
                /\ status = data[last] /\ status \in {"completed", "error_analysis"}
                /\ status = "completed" => phases = <<>>
    BY <2>1, <2>5, <2>6, EmptyLen DEF Ended
  <2> QED
    BY <2>2, <2>3, <2>4, <2>7, Zenon DEF ResultIsConsistent
<1> QED
  BY DynamicInit, DynamicNext, RecordInit, RecordNext, <1>1, PTL DEF Spec


------------------------------------------------------------------------------
(* The types.  Most are part of the invariants above; what is left are the   *)
(* counters, podman's containers and files, and the sandboxes they speak of: *)
(* a package has at most two, one for each mode.                             *)

Left(m) == IF m \in todo THEN 1 ELSE 0
Opening == IF pc \in {"network", "new"} THEN 1 ELSE 0

CountsInv ==
  /\ done \in 0 .. MaxAnalyses /\ network \in 0 .. NetworkSteps
  /\ queue \in 0 .. MaxPackets /\ faults \in 0 .. MaxFaults
  /\ sb \in Nat /\ sb + Left("static") + Left("dynamic") + Opening <= 2 * done
  /\ pc \in WithSandbox \cup {"init"} => sb >= 1

KeptInv ==
  /\ initialised \in BOOLEAN /\ uncleaned \in BOOLEAN /\ err \in BOOLEAN
  /\ DOMAIN containers \subseteq Sandbox
  /\ \A k \in DOMAIN containers : containers[k] \in {"created", "running"}
  /\ logs \subseteq Sandbox \X (Phase \cup {""})
  /\ results \in Sandbox \cup {0} /\ read \in Sandbox \cup {0} /\ execLog \in Sandbox \cup {0}
  /\ last \in Phase \cup {""}
  /\ status \in {"", "completed", "error_analysis", "error_other"}

LEMMA FaultsCount ==
  ASSUME CountsInv, NEW to, Goto(to) \/ Fail(to)
  PROVE  pc' = to /\ faults' \in 0 .. MaxFaults
BY AnalysisConstants DEF CountsInv, Goto, Fail

LEMMA SandboxIsOne == CountsInv => sb \in Sandbox \cup {0} /\ (sb >= 1 => sb \in Sandbox)
<1> SUFFICES ASSUME CountsInv
             PROVE  sb \in Nat /\ sb <= 2 * MaxAnalyses
  BY AnalysisConstants DEF Sandbox
<1>1. sb <= 2 * done /\ done <= MaxAnalyses /\ sb \in Nat /\ done \in Nat /\ MaxAnalyses \in Nat
  BY AnalysisConstants DEF CountsInv, Left, Opening
<1> QED
  BY <1>1

LEMMA NothingIn == ASSUME NEW f, f = <<>> PROVE \A k : k \notin DOMAIN f
OBVIOUS

LEMMA FirstIsOne == ASSUME NEW S, NEW s \in Seq(S), s # <<>> PROVE Head(s) \in S
OBVIOUS

LEMMA CountsInit == Init => CountsInv /\ KeptInv
<1> SUFFICES ASSUME Init
             PROVE  CountsInv /\ KeptInv
  OBVIOUS
<1>1. 0 \in 0 .. MaxAnalyses /\ 0 \in 0 .. MaxPackets /\ 0 \in 0 .. MaxFaults /\ 0 \in 0 .. NetworkSteps
  BY AnalysisConstants DEF NetworkSteps
<1>2. CountsInv
  <2>1. /\ done = 0 /\ network = 0 /\ queue = 0 /\ faults = 0 /\ sb = 0 /\ pc = "idle"
        /\ Left("static") = 0 /\ Left("dynamic") = 0 /\ Opening = 0
    BY DEF Init, Left, Opening
  <2> QED
    BY <1>1, <2>1 DEF CountsInv, DynamicOnly, WithSandbox
<1>3. \A k : k \notin DOMAIN containers
  BY NothingIn DEF Init
<1>4. KeptInv
  BY <1>3 DEF Init, KeptInv
<1> QED
  BY <1>2, <1>4

\* A step that opens no sandbox and takes no mode
LEMMA CountsKept ==
  ASSUME CountsInv, UNCHANGED <<done, todo, network, sb>>,
         queue' \in 0 .. MaxPackets, faults' \in 0 .. MaxFaults,
         pc' \notin {"network", "new"} \/ pc' = pc,
         pc' \in WithSandbox \cup {"init"} => pc \in WithSandbox \cup {"init"}
  PROVE  CountsInv'
BY DEF CountsInv, Left, Opening

LEMMA CountsNext == DynamicInv /\ RecordInv /\ CountsInv /\ [Next]_vars => CountsInv'
<1> SUFFICES ASSUME DynamicInv, RecordInv, CountsInv, [Next]_vars
             PROVE  CountsInv'
  OBVIOUS
<1>a. /\ MaxAnalyses \in Nat /\ MaxPackets \in Nat /\ MaxFaults \in Nat
      /\ todo \subseteq {"static", "dynamic"} /\ queue \in 0 .. MaxPackets /\ 0 \in 0 .. MaxPackets
      /\ faults \in 0 .. MaxFaults
  BY AnalysisConstants DEF CountsInv, RecordInv, PlanInv, Mode
<1> USE DEF At, podman, object, files, outcome, capture, plan
<1>1. CASE Begin
  <2>1. pc' = "next" /\ done < MaxAnalyses /\ done' = done + 1 /\ UNCHANGED <<network, sb, queue, faults>>
    BY <1>1 DEF Begin, Goto
  <2>2. Left("static")' \in {0, 1} /\ Left("dynamic")' \in {0, 1}
    BY DEF Left
  <2>3. done \in Nat /\ done' \in 0 .. MaxAnalyses /\ sb \in Nat /\ sb <= 2 * done
    BY <2>1, <1>a DEF CountsInv, Left, Opening
  <2>4. Opening' = 0
    BY <2>1 DEF Opening
  <2>5. sb' + Left("static")' + Left("dynamic")' + Opening' <= 2 * done'
    BY <2>1, <2>2, <2>3, <2>4
  <2> QED
    BY <2>1, <2>3, <2>5 DEF CountsInv, WithSandbox, DynamicOnly
<1>2. CASE NextMode
  <2>1. pc = "next" /\ UNCHANGED <<done, network, sb, queue, faults>>
    BY <1>2 DEF NextMode, Goto
  <2>2. \/ todo = {} /\ pc' = "idle" /\ todo' = todo
        \/ pc' = "network" /\ \E m \in {"static", "dynamic"} : m \in todo /\ todo' = todo \ {m}
    BY <1>2, <1>a DEF NextMode, Goto
  <2> QED
    BY <2>1, <2>2 DEF CountsInv, Left, Opening, WithSandbox, DynamicOnly
<1>3. CASE InitNetwork
  <2>1. pc = "network" /\ UNCHANGED <<done, sb, queue>> /\ faults' \in 0 .. MaxFaults
    BY <1>3, <1>a DEF InitNetwork, Goto, Fail
  <2>2. network' \in 0 .. NetworkSteps
    BY <1>3 DEF InitNetwork, CountsInv, NetworkSteps
  <2>3. (pc' = "new" /\ todo' = todo) \/ (pc' = "next" /\ todo' = {})
    BY <1>3 DEF InitNetwork, Goto, Fail
  <2> QED
    BY <2>1, <2>2, <2>3, <1>a DEF CountsInv, Left, Opening, WithSandbox, DynamicOnly
<1>4. CASE NewSandbox
  BY <1>4 DEF NewSandbox, Goto, CountsInv, Left, Opening, WithSandbox, DynamicOnly
<1>5. CASE InitSandbox
  BY <1>5, <1>a, CountsKept DEF InitSandbox, Goto, Fail, WithSandbox, DynamicOnly
<1>6. CASE AddSSHKeys
  BY <1>6, <1>a, CountsKept DEF AddSSHKeys, Goto, Fail, WithSandbox, DynamicOnly
<1>7. CASE Run
  <2>1. /\ pc = "run" /\ UNCHANGED <<done, todo, network, sb, queue>>
        /\ \E to \in {"wait", "close", "readResults", "giveUp"} : Goto(to) \/ Fail(to)
    BY <1>7 DEF Run, RunFails, Returned
  <2> QED
    BY <2>1, <1>a, CountsKept DEF Goto, Fail, WithSandbox, DynamicOnly
<1>8. CASE StopContainer
  <2>1. /\ pc = "stop" /\ UNCHANGED <<done, todo, network, sb, queue>>
        /\ \E to \in {"close", "readResults", "giveUp"} : Goto(to) \/ Fail(to)
    BY <1>8 DEF StopContainer, RunFails, Returned
  <2> QED
    BY <2>1, <1>a, CountsKept DEF Goto, Fail, WithSandbox, DynamicOnly
<1>9. CASE Clean
  <2>1. /\ pc = "clean" /\ UNCHANGED <<done, todo, network, sb, queue>> /\ (Goto("next") \/ Fail("next"))
    BY <1>9 DEF Clean
  <2> QED
    BY <2>1, <1>a, CountsKept DEF Goto, Fail, WithSandbox, DynamicOnly
<1>10. CASE ReadResults
  BY <1>10, <1>a, CountsKept DEF ReadResults, Goto, Fail, WithSandbox, DynamicOnly
<1>11. CASE StartPhase
  <2>1. /\ pc = "phase" /\ UNCHANGED <<done, todo, network, sb>> /\ queue' \in {queue, 0}
        /\ \E to \in {"clean", "run", "giveUp"} : Goto(to) \/ Fail(to)
    BY <1>11 DEF StartPhase
  <2> QED
    BY <2>1, <1>a, CountsKept DEF Goto, Fail, WithSandbox, DynamicOnly
<1>12. CASE GiveUp
  BY <1>12, <1>a, CountsKept DEF GiveUp, Goto, WithSandbox, DynamicOnly
<1>13. CASE ParseLog
  BY <1>13, <1>a, CountsKept DEF ParseLog, Goto, Fail, WithSandbox, DynamicOnly
<1>14. CASE RecordPhase \/ RetrieveExecutionLog
  <2>1. /\ pc \in {"record", "retrieveLog"} /\ UNCHANGED <<done, todo, network, sb, queue>>
        /\ \E to \in {"retrieveLog", "phase", "clean"} : Goto(to)
    BY <1>14 DEF RecordPhase, RetrieveExecutionLog, NextPhase
  <2> QED
    BY <2>1, <1>a, CountsKept DEF Goto, WithSandbox, DynamicOnly
<1>15. CASE CloseStop \/ CloseDone
  <2>1. /\ pc \in {"close", "closeDone"} /\ UNCHANGED <<done, todo, network, sb>> /\ queue' \in {queue, 0}
        /\ \E to \in {"closeDone", "closed"} : Goto(to)
    BY <1>15 DEF CloseStop, CloseDone
  <2> QED
    BY <2>1, <1>a, CountsKept DEF Goto, WithSandbox, DynamicOnly
<1>16. CASE Closed
  <2>1. /\ pc = "closed" /\ UNCHANGED <<done, todo, network, sb, queue>>
        /\ \E to \in {"giveUp", "parse", "record"} : Goto(to)
    BY <1>16 DEF Closed, DynamicInv, Located
  <2> QED
    BY <2>1, <1>a, CountsKept DEF Goto, WithSandbox, DynamicOnly
<1>17. CASE CommandExits
  <2>1. /\ pc = "wait" /\ UNCHANGED <<done, todo, network, sb, queue>> /\ (Goto("stop") \/ Fail("stop"))
    BY <1>17 DEF CommandExits
  <2> QED
    BY <2>1, <1>a, CountsKept DEF Goto, Fail, WithSandbox, DynamicOnly
<1>18. CASE TakePacket \/ HandlePacket \/ Packet \/ SourceEnds
  <2>1. UNCHANGED <<done, todo, network, sb, pc>> /\ faults' \in 0 .. MaxFaults
    BY <1>18, <1>a DEF CountsInv, TakePacket, HandlePacket, Packet, SourceEnds
  <2>2. queue' \in 0 .. MaxPackets
    BY <1>18, <1>a DEF TakePacket, HandlePacket, Packet, SourceEnds
  <2> QED
    BY <2>1, <2>2, <1>a, CountsKept
<1>19. CASE UNCHANGED vars
  BY <1>19, <1>a, CountsKept DEF vars
<1> QED
  BY <1>1, <1>2, <1>3, <1>4, <1>5, <1>6, <1>7, <1>8, <1>9, <1>10, <1>11, <1>12, <1>13,
     <1>14, <1>15, <1>16, <1>17, <1>18, <1>19
  DEF Next, Analysis, Receiver

LEMMA KeptNext == DynamicInv /\ RecordInv /\ CountsInv /\ KeptInv /\ [Next]_vars => KeptInv'
<1> SUFFICES ASSUME DynamicInv, RecordInv, CountsInv, KeptInv, [Next]_vars
             PROVE  KeptInv'
  OBVIOUS
<1>a. sb \in Sandbox \cup {0} /\ (pc \in WithSandbox \cup {"init"} => sb \in Sandbox)
  BY SandboxIsOne DEF CountsInv
<1>b. \A s \in Sandbox, p \in Phase \cup {""} : <<s, p>> \in Sandbox \X (Phase \cup {""})
  OBVIOUS
<1> USE DEF KeptInv, At, podman, object, files, outcome, capture, plan
<1>1. CASE Begin \/ InitNetwork \/ AddSSHKeys \/ ParseLog \/ CloseStop \/ CloseDone \/ Closed
           \/ TakePacket \/ HandlePacket \/ Packet \/ SourceEnds \/ UNCHANGED vars
  BY <1>1
  DEF Begin, InitNetwork, AddSSHKeys, ParseLog, CloseStop, CloseDone, Closed, TakePacket, HandlePacket,
      Packet, SourceEnds, vars
<1>2. CASE NextMode
  BY <1>2 DEF NextMode
<1>3. CASE NewSandbox
  BY <1>3 DEF NewSandbox
<1>4. CASE InitSandbox
  <2>1. /\ sb \in Sandbox /\ initialised' \in BOOLEAN /\ err' \in BOOLEAN /\ logs' \subseteq logs
        /\ containers' = containers \/ Created
        /\ UNCHANGED <<uncleaned, results, read, execLog, last, status>>
    BY <1>4, <1>a DEF InitSandbox
  <2>2. /\ DOMAIN containers' \subseteq Sandbox
        /\ \A k \in DOMAIN containers' : containers'[k] \in {"created", "running"}
    BY <2>1 DEF Created
  <2> QED
    BY <2>1, <2>2
<1>5. CASE Run
  <2>1. /\ sb \in Sandbox /\ (logs' = logs \/ logs' = logs \cup {<<sb, last>>})
        /\ containers' = containers \/ containers' = [containers EXCEPT ![sb] = "running"]
    BY <1>5, <1>a DEF Run, WithSandbox
  <2>2. UNCHANGED <<initialised, uncleaned, results, read, execLog, err, last, status>>
    BY <1>5 DEF Run
  <2>3. /\ DOMAIN containers' \subseteq Sandbox
        /\ \A k \in DOMAIN containers' : containers'[k] \in {"created", "running"}
    BY <2>1
  <2>4. logs' \subseteq Sandbox \X (Phase \cup {""})
    BY <2>1, <1>b
  <2> QED
    BY <2>2, <2>3, <2>4
<1>6. CASE CommandExits
  BY <1>6, <1>a DEF CommandExits
<1>7. CASE StopContainer \/ Clean
  <2>1. /\ \/ containers' = containers \/ containers' = <<>>
           \/ containers' = [containers EXCEPT ![sb] = "created"]
        /\ UNCHANGED <<initialised, err, logs, results, read, execLog, last, status>>
        /\ uncleaned' \in BOOLEAN
    BY <1>7 DEF StopContainer, Clean, Stopped
  <2>2. /\ DOMAIN containers' \subseteq Sandbox
        /\ \A k \in DOMAIN containers' : containers'[k] \in {"created", "running"}
    <3>1. CASE containers' = <<>>
      <4>1. \A k : k \notin DOMAIN containers'
        BY <3>1, NothingIn
      <4> QED
        BY <4>1
    <3>2. CASE containers' = containers
      BY <3>2
    <3>3. CASE containers' = [containers EXCEPT ![sb] = "created"]
      BY <3>3
    <3> QED
      BY <2>1, <3>1, <3>2, <3>3
  <2> QED
    BY <2>1, <2>2
<1>8. CASE ReadResults
  BY <1>8 DEF ReadResults
<1>9. CASE StartPhase
  <2>1. last' = last \/ (phases # <<>> /\ last' = Head(phases))
    BY <1>9 DEF StartPhase
  <2>2. phases \in Seq(Phase)
    BY DEF RecordInv, PhasesLeft
  <2>3. phases # <<>> => Head(phases) \in Phase
    BY <2>2, FirstIsOne
  <2>4. last' \in Phase \cup {""}
    BY <2>1, <2>3
  <2> QED
    BY <1>9, <2>4 DEF StartPhase
<1>10. CASE GiveUp
  BY <1>10 DEF GiveUp
<1>11. CASE RecordPhase
  BY <1>11 DEF RecordPhase, Recorded, StatusForRunResult
<1>12. CASE RetrieveExecutionLog
  BY <1>12, <1>a DEF RetrieveExecutionLog
<1> QED
  BY <1>1, <1>2, <1>3, <1>4, <1>5, <1>6, <1>7, <1>8, <1>9, <1>10, <1>11, <1>12
  DEF Next, Analysis, Receiver

\* Every variable keeps its type, whatever fails: a package takes at most two
\* sandboxes, and podman and the results never speak of any other
THEOREM TypesAreKept == Spec => []TypeOK
<1>1. DynamicInv /\ RecordInv /\ CountsInv /\ KeptInv => TypeOK
  <2> SUFFICES ASSUME DynamicInv, RecordInv, CountsInv, KeptInv
               PROVE  TypeOK
    OBVIOUS
  <2>1. DOMAIN data \subseteq Phase
    BY DEF RecordInv, RecordsInv
  <2>2. /\ phases \in Seq(Phase) /\ order \in Seq(Phase) /\ todo \subseteq Mode
        /\ run \in {"unknown", "success", "failure"}
    BY DEF RecordInv, PhasesLeft, PlanInv, RecordsInv, ResultInv
  <2>3. /\ pc \in Places /\ mode \in Mode /\ after \in {"", "parse", "record", "failed"}
        /\ cap \in {"off", "select", "handle", "exit"}
        /\ handle \in BOOLEAN /\ source \in BOOLEAN /\ held \in BOOLEAN
    BY DEF DynamicInv, Located, CaptureInv, ContainerInv
  <2>4. {held, initialised, err, handle, source, uncleaned} \subseteq BOOLEAN
    BY <2>3 DEF KeptInv
  <2>5. /\ pc \in {"idle", "next", "network", "new", "init", "ssh", "run", "wait", "stop",
                  "clean", "readResults", "phase", "giveUp", "parse", "record",
                  "retrieveLog", "close", "closeDone", "closed"}
        /\ mode \in Mode /\ after \in {"", "parse", "record", "failed"}
        /\ cap \in {"off", "select", "handle", "exit"}
    BY <2>3 DEF Places, WithSandbox, DynamicOnly
  <2>6. /\ done \in 0 .. MaxAnalyses /\ network \in 0 .. NetworkSteps /\ sb \in Sandbox \cup {0}
        /\ queue \in 0 .. MaxPackets /\ faults \in 0 .. MaxFaults
    BY SandboxIsOne DEF CountsInv
  <2>7. /\ DOMAIN containers \subseteq Sandbox
        /\ \A k \in DOMAIN containers : containers[k] \in {"created", "running"}
        /\ logs \subseteq Sandbox \X (Phase \cup {""})
        /\ {results, read, execLog} \subseteq Sandbox \cup {0}
        /\ last \in Phase \cup {""} /\ status \in {"", "completed", "error_analysis", "error_other"}
    BY DEF KeptInv
  <2> QED
    BY <2>1, <2>2, <2>4, <2>5, <2>6, <2>7, Zenon DEF TypeOK
<1>2. DynamicInv /\ DynamicInv' /\ RecordInv /\ CountsInv /\ KeptInv /\ [Next]_vars =>
        RecordInv' /\ CountsInv' /\ KeptInv'
  BY RecordNext, CountsNext, KeptNext
<1>3. QED
  BY DynamicInit, DynamicNext, RecordInit, CountsInit, <1>1, <1>2, PTL DEF Spec
=============================================================================
