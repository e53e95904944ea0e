------------------------------ MODULE RateLimit ------------------------------
(***************************************************************************)
(* The rate limit of one API key: require_api_key and check_rate_limit of  *)
(* web/packamal/package_analysis/auth.py.                                  *)
(*                                                                         *)
(* The number of requests is in Django's cache.  No cache is configured in *)
(* settings.py, so it is in the memory of the process that serves the      *)
(* request, and each process of the web server counts for itself.  One of  *)
(* gunicorn's serves one request at a time, runserver's several at once.   *)
(***************************************************************************)
EXTENDS Naturals, FiniteSets

CONSTANTS
  Process,    \* the web server's processes
  Request,    \* requests with the key at a time
  ServedBy,   \* the process that serves each of them
  Limit,      \* rate_limit_per_hour
  MaxRequests \* requests a process lets through before its counter is gone

ASSUME LimitConstants ==
  ServedBy \in [Request -> Process] /\ Limit \in Nat /\ MaxRequests \in Nat

VARIABLES
  checked,  \* requests between the check and the count
  count,    \* the cached number of requests, in each process
  idle,     \* it was not set for the hour it is kept
  seen,     \* the count each request read
  admitted  \* requests a process let through since its counter was last gone

limitVars == <<checked, count, idle, seen, admitted>>

\* a refused request keeps the counter alive
RefuseRenews(c) == LET p == ServedBy[c] IN
  /\ c \notin checked
  /\ IF count[p] < Limit
     THEN /\ admitted[p] < MaxRequests
          /\ seen' = [seen EXCEPT ![c] = count[p]] /\ checked' = checked \cup {c}
          /\ UNCHANGED idle
     ELSE idle' = [idle EXCEPT ![p] = FALSE] /\ UNCHANGED <<seen, checked>>
  /\ UNCHANGED <<count, admitted>>

\* A refused request, with a count of Limit, changes nothing.  None is made
\* beyond MaxRequests
CheckLimit(c) == LET p == ServedBy[c] IN
  /\ c \notin checked
  /\ count[p] < Limit /\ admitted[p] < MaxRequests
  /\ seen' = [seen EXCEPT ![c] = count[p]]
  /\ checked' = checked \cup {c}
  /\ UNCHANGED <<count, idle, admitted>>

\* the counter is set to what was read
CountSeen(c) == LET p == ServedBy[c] IN
  /\ c \in checked
  /\ count' = [count EXCEPT ![p] = seen[c]] /\ idle' = [idle EXCEPT ![p] = FALSE]
  /\ admitted' = [admitted EXCEPT ![p] = @ + 1]
  /\ seen' = [seen EXCEPT ![c] = 0] /\ checked' = checked \ {c}

\* The hour begins anew, and the request is let through
Count(c) == LET p == ServedBy[c] IN
  /\ c \in checked
  /\ count' = [count EXCEPT ![p] = seen[c] + 1] /\ idle' = [idle EXCEPT ![p] = FALSE]
  /\ admitted' = [admitted EXCEPT ![p] = @ + 1]
  /\ seen' = [seen EXCEPT ![c] = 0] /\ checked' = checked \ {c}

HourPasses(p) ==
  /\ count[p] # 0 /\ ~idle[p]
  /\ idle' = [idle EXCEPT ![p] = TRUE]
  /\ UNCHANGED <<checked, count, seen, admitted>>

CounterExpires(p) ==
  /\ count[p] # 0 /\ idle[p]
  /\ count' = [count EXCEPT ![p] = 0] /\ idle' = [idle EXCEPT ![p] = FALSE]
  /\ admitted' = [admitted EXCEPT ![p] = 0]
  /\ UNCHANGED <<checked, seen>>

------------------------------------------------------------------------------
LimitInit ==
  /\ checked = {} /\ seen = [c \in Request |-> 0]
  /\ count = [p \in Process |-> 0] /\ idle = [p \in Process |-> FALSE]
  /\ admitted = [p \in Process |-> 0]

LimitNext ==
  \/ \E c \in Request : CheckLimit(c) \/ Count(c)
  \/ \E p \in Process : HourPasses(p) \/ CounterExpires(p)

\* Time passes, and an expired key is gone
LimitFairness == \A p \in Process : WF_limitVars(HourPasses(p)) /\ WF_limitVars(CounterExpires(p))

LimitSpec == LimitInit /\ [][LimitNext]_limitVars
FairLimitSpec == LimitSpec /\ LimitFairness

------------------------------------------------------------------------------
(* Properties *)

LimitTypes ==
  /\ checked \subseteq Request /\ seen \in [Request -> Nat]
  /\ count \in [Process -> Nat] /\ idle \in [Process -> BOOLEAN]
  /\ admitted \in [Process -> Nat]

Served(p) == {c \in Request : ServedBy[c] = p}

\* A process lets through the limit, when it serves one request with the key
\* at a time.  The count is read and set without a lock: two requests at a
\* time can pass as many as the slower one can set the counter back, and no
\* more (auth.py:62-76)
AdmittedBound == \A p \in Process :
  /\ Cardinality(Served(p)) <= 1 => admitted[p] <= Limit
  /\ Cardinality(Served(p)) = 2 => admitted[p] <= (Limit * (Limit + 3)) \div 2

\* "Maximum ... requests per hour" (auth.py:48): no two processes together let
\* more through than the limit
RateIsLimited == \A p, q \in Process : p # q => admitted[p] + admitted[q] <= Limit

\* A key that a process refuses it lets through again, however often it asks
ServedAgain == \A p \in Process : count[p] >= Limit ~> count[p] < Limit

==============================================================================
