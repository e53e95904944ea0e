---------------------------- MODULE TaskLifecycle ----------------------------
(***************************************************************************)
(* What the two queues together keep of the lifecycle of README.md ("Task  *)
(* Lifecycle & Management"), without brokers, workers, threads and         *)
(* messages.  A task is created, queued and, from then on, has one of four *)
(* statuses until it is removed, which happens to one that has ended only. *)
(* It is completed only when a container has analysed its package, and it  *)
(* has only reports of analyses.  An end may be taken back, as both queues *)
(* save rows they read before.                                             *)
(***************************************************************************)
CONSTANTS
  Task,
  Purl,       \* what can be analyzed
  ResultOf,   \* the result an analysis of a purl has
  None

VARIABLES
  status,     \* of each task
  purl,       \* what each task analyzes
  result,     \* the result of each task
  analysed    \* the results containers gave

vars == <<status, purl, result, analysed>>

Live  == {"queued", "running", "completed", "failed"}
Ended == {"completed", "failed"}

Init ==
  /\ status = [t \in Task |-> "absent"]
  /\ purl = [t \in Task |-> None]
  /\ result = [t \in Task |-> None]
  /\ analysed = {}

Become(t, from, to) ==
  /\ status[t] \in from
  /\ status' = [status EXCEPT ![t] = to]

Create(t) ==
  /\ Become(t, {"absent"}, "pending")
  /\ \E p \in Purl : purl' = [purl EXCEPT ![t] = p]
  /\ UNCHANGED <<result, analysed>>

Queue(t) == Become(t, {"pending"}, "queued") /\ UNCHANGED <<purl, result, analysed>>

Analyse(t) ==
  /\ status[t] \in Live
  /\ analysed' = analysed \cup {ResultOf[purl[t]]}
  /\ UNCHANGED <<status, purl, result>>

(* A worker or a thread saves its task                                     *)
Save(t) ==
  /\ \/ Become(t, Live, "running")
     \/ Become(t, Live, "completed") /\ ResultOf[purl[t]] \in analysed
     \/ Become(t, Live, "failed")
  /\ \E r \in analysed \cup {None} : result' = [result EXCEPT ![t] = r]
  /\ UNCHANGED <<purl, analysed>>

(* Those that timed out fail together, and a thread that numbers the queue *)
(* saves the tasks it found in it, which have no result                    *)
SaveMany(late, queue) ==
  /\ late \cup queue # {} /\ late \cap queue = {}
  /\ \A t \in late \cup queue : status[t] \in Live
  /\ status' = [t \in Task |-> IF t \in late THEN "failed"
                               ELSE IF t \in queue THEN "queued" ELSE status[t]]
  /\ \E r \in [late -> analysed \cup {None}] :
       result' = [t \in Task |-> IF t \in late THEN r[t]
                                 ELSE IF t \in queue THEN None ELSE result[t]]
  /\ UNCHANGED <<purl, analysed>>

Remove(t) ==
  /\ Become(t, Ended, "deleted")
  /\ purl' = [purl EXCEPT ![t] = None]
  /\ result' = [result EXCEPT ![t] = None]
  /\ UNCHANGED analysed

Next ==
  \/ \E t \in Task : Create(t) \/ Queue(t) \/ Analyse(t) \/ Save(t) \/ Remove(t)
  \/ \E late, queue \in SUBSET Task : SaveMany(late, queue)

Spec == Init /\ [][Next]_vars

==============================================================================
