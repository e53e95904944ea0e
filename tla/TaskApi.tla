------------------------------- MODULE TaskApi -------------------------------
(***************************************************************************)
(* The endpoints of package_analysis/views.py that tell clients about many *)
(* tasks: list_tasks_api, queue_status_api, timeout_status_api and         *)
(* check_timeouts_api.  Each answer is made of several queries, which see  *)
(* the rows at different moments (READ COMMITTED), and a client that walks *)
(* the list sends a request per page, while the queue goes on as           *)
(* TaskLifecycle promises.  One call, or one walk, at a time.              *)
(***************************************************************************)
EXTENDS Naturals, FiniteSets

CONSTANTS
  Id,
  NoResult,
  PageSize, \* of the walk
  MaxPages  \* of a walk; a list that long ends it

ASSUME PageConstants == PageSize \in Nat \ {0} /\ MaxPages \in Nat

VARIABLES
  status,   \* of each task
  created,  \* of each task: the how manieth it is
  overdue,  \* running tasks past started_at + timeout_minutes
  checking, \* a check_timeouts message waits for a worker
  call      \* what is asked for, and what has been answered so far

apiVars == <<status, created, overdue, checking, call>>

Statuses == {"pending", "queued", "running", "completed", "failed"}
Rows(scope) == {t \in Id : status[t] \in scope}

Purls == [t \in Id |-> IF status[t] \in Statuses THEN "purl" ELSE NoResult]
Results == [t \in Id |-> IF status[t] = "completed" THEN "result" ELSE NoResult]
Lifecycle == INSTANCE TaskLifecycle WITH
  Task <- Id,
  purl <- Purls, result <- Results, analysed <- {"result"}, None <- NoResult,
  Purl <- {"purl"}, ResultOf <- [p \in {"purl"} |-> "result"]

------------------------------------------------------------------------------
(* The queue, and what a call that is going on must know of it: the tasks    *)
(* it is about that have been so since it began, and if one no longer is     *)

Watch ==
  LET still == {t \in Id : status'[t] \in call.scope}
  IN call' = [call EXCEPT !.stayed = @ \cap still,
                          !.left   = @ \/ ~(Rows(call.scope) \subseteq still)]

Ever == {t \in Id : status[t] # "absent"}

Evolve ==
  /\ Lifecycle!Next
  /\ created' = [t \in Id |-> IF status[t] = "absent" /\ status'[t] = "pending"
                               THEN Cardinality(Ever) + 1 ELSE created[t]]
  /\ overdue' = overdue \cap {t \in Id : status'[t] = "running"}
  /\ Watch /\ UNCHANGED checking

TimePasses ==
  /\ overdue' = Rows({"running"}) /\ overdue' # overdue
  /\ UNCHANGED <<status, created, checking, call>>

\* check_timeouts, on a worker
Check ==
  /\ checking /\ checking' = FALSE
  /\ IF overdue = {} THEN UNCHANGED <<status, call>>
     ELSE Lifecycle!SaveMany(overdue, {}) /\ Watch
  /\ overdue' = {} /\ UNCHANGED created

------------------------------------------------------------------------------
(* The calls *)

Begin(op, scope) ==
  call' = [op |-> op, scope |-> scope, page |-> 1, seen |-> {},
           stayed |-> Rows(scope), left |-> FALSE]

Idle == call.op = "none"
End  == call' = [call EXCEPT !.op = "none", !.scope = {}, !.stayed = {}, !.seen = {},
                             !.page = 1, !.left = FALSE]

\* Without a status, or with one
AskForList ==
  /\ Idle /\ \E scope \in {Statuses} \cup {{s} : s \in Statuses} : Begin("list", scope)
  /\ UNCHANGED <<status, created, overdue, checking>>

\* The newest first
Place(t)   == Cardinality({u \in Rows(call.scope) : created[u] >= created[t]})
Page(from) == {t \in Rows(call.scope) : Place(t) \in from .. from + PageSize - 1}

\* Pages that are counted from 0
PageFromZero ==
  /\ call.op = "list" /\ call.page <= MaxPages
  /\ LET items == Page(call.page * PageSize + 1)
     IN call' = [call EXCEPT !.seen = @ \cup items, !.page = @ + 1,
                   !.op = IF Cardinality(items) < PageSize THEN "listed" ELSE "list"]
  /\ UNCHANGED <<status, created, overdue, checking>>

\* list_tasks_api for one page; the last one is not full
ListPage ==
  /\ call.op = "list" /\ call.page <= MaxPages
  /\ LET items == Page((call.page - 1) * PageSize + 1)
     IN call' = [call EXCEPT !.seen = @ \cup items, !.page = @ + 1,
                   !.op = IF Cardinality(items) < PageSize THEN "listed" ELSE "list"]
  /\ UNCHANGED <<status, created, overdue, checking>>

\* queue_status_api: two lists.  Of the tasks counted before, the number of
\* the running ones is lost, as their list has the same key
AskForQueue ==
  /\ Idle /\ Begin("queued", {"queued", "running"})
  /\ UNCHANGED <<status, created, overdue, checking>>

ListByStatus ==
  /\ call.op \in {"queued", "running"}
  /\ call' = [call EXCEPT !.op = IF @ = "queued" THEN "running" ELSE "answered",
                !.seen = @ \cup Rows({call.op})]
  /\ UNCHANGED <<status, created, overdue, checking>>

\* timeout_status_api, and check_timeouts_api, which only queues the check
\* and answers before a worker has made it
AskForTimeouts ==
  /\ Idle /\ checking' \in {checking, TRUE}
  /\ Begin("timeouts", {"running"}) /\ UNCHANGED <<status, created, overdue>>

\* The rows that are running and, for is_timed_out, overdue
TellTimeouts ==
  /\ call.op = "timeouts"
  /\ call' = [call EXCEPT !.op = "told", !.seen = overdue]
  /\ UNCHANGED <<status, created, overdue, checking>>

Answer ==
  /\ call.op \in {"listed", "answered", "told"} \/ call.page > MaxPages
  /\ End /\ UNCHANGED <<status, created, overdue, checking>>

ApiInit ==
  /\ status = [t \in Id |-> "absent"] /\ created = [t \in Id |-> 0] /\ overdue = {} /\ checking = FALSE
  /\ call = [op |-> "none", scope |-> {}, page |-> 1, seen |-> {},
             stayed |-> {}, left |-> FALSE]

ApiNext ==
  \/ Evolve \/ TimePasses \/ Check
  \/ AskForList \/ ListPage \/ AskForQueue \/ ListByStatus
  \/ AskForTimeouts \/ TellTimeouts \/ Answer

ApiSpec == ApiInit /\ [][ApiNext]_apiVars

------------------------------------------------------------------------------
(* Properties *)

\* A client that asks for page after page until one is not full has seen every
\* task that was in the list all the time, though tasks were added or changed
\* in between, unless one left the list
WalkMissesNothing == call.op = "listed" /\ ~call.left => call.stayed \subseteq call.seen
==============================================================================
