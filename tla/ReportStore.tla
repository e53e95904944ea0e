----------------------------- MODULE ReportStore -----------------------------
(***************************************************************************)
(* Where the reports of web/packamal/package_analysis are kept and how     *)
(* they are asked for: save_report and the end of run_dynamic_analysis,    *)
(* save_professional_report, download_professional_report, get_report and  *)
(* the completed branch of analyze_api (views.py, tasks.py).               *)
(*                                                                         *)
(* A report is a row of the database, one for each package.  Above 200 MB  *)
(* the row is a summary and the report is in Redis, for seven days; what   *)
(* is downloaded is a copy in Redis, for a day.  Both are under a key made *)
(* of the package's name, with '/' and '\' replaced by '_'.  Every call to *)
(* Redis or the database is a step of its own.                             *)
(*                                                                         *)
(* A package has one completed task with a report at most, as a second     *)
(* analysis of it cannot save its report.  The report of that task need    *)
(* not be the package's: it is the newest one.                             *)
(***************************************************************************)
EXTENDS Naturals, FiniteSets

CONSTANTS
  Package,
  Key,
  KeyOf,       \* _safe_package_name and the version
  Large,       \* packages with a report above MAX_DB_SIZE
  Task,        \* Celery tasks that save a report at a time
  Client,      \* requests for a report at a time
  None,
  MaxAnalyses, \* analyses that end, in all
  MaxFaults    \* calls to Redis that fail

ASSUME StoreConstants ==
  /\ KeyOf \in [Package -> Key] /\ Large \subseteq Package /\ Task \cap Client = {}
  /\ {MaxAnalyses, MaxFaults} \subseteq Nat
  /\ None \notin Package \cup [of : Package, n : Nat]

VARIABLES
  report,    \* ReportDynamicAnalysis: the analysis in a package's row, or None
  newest,    \* the package of the row with the highest id
  linked,    \* the package whose report a package's completed task has
  large,     \* db_report:* in Redis, None when there is none
  copy,      \* ecosystem:* in Redis
  pc, pkg,   \* of each task and client, and the package it is about
  link,      \* the report it has in hand, by its package
  data,      \* what it read
  analyses, faults

rows  == <<report, newest, linked>>
redis == <<large, copy>>
local == <<pc, pkg, link, data>>
vars  == <<rows, redis, local, analyses, faults>>

Actor == Task \cup Client
\* The number of an analysis, or 0 for a summary of it
Summary == 0
Contents == [of : Package, n : 0 .. MaxAnalyses]

At(a, loc) == pc[a] = loc
Goto(a, to) == pc' = [pc EXCEPT ![a] = to]
\* The call returns or raises: its variables are gone
Return(a) == /\ Goto(a, "idle")
             /\ pkg' = [pkg EXCEPT ![a] = None] /\ link' = [link EXCEPT ![a] = None]
             /\ data' = [data EXCEPT ![a] = None]
Fault == faults < MaxFaults /\ faults' = faults + 1
KeyFor(a) == KeyOf[pkg[a]]

------------------------------------------------------------------------------
(* save_report, in a task whose analysis has ended *)

EndAnalysis(t) == \E p \in Package :
  /\ At(t, "idle") /\ analyses < MaxAnalyses
  /\ analyses' = analyses + 1
  /\ pkg' = [pkg EXCEPT ![t] = p]
  /\ data' = [data EXCEPT ![t] = [of |-> p, n |-> analyses']]
  /\ Goto(t, IF p \in Large THEN "store" ELSE "save")
  /\ UNCHANGED <<rows, redis, link, faults>>

\* Of packages that share a key the last one is kept.  An error is only logged
StoreLarge(t) ==
  /\ At(t, "store")
  /\ \/ large' = [large EXCEPT ![KeyFor(t)] = data[t]] /\ UNCHANGED faults
     \/ Fault /\ UNCHANGED large
  /\ Goto(t, "save")
  /\ UNCHANGED <<rows, copy, pkg, link, data, analyses>>

\* A package has one report: a second one raises and the task fails
SaveReport(t) ==
  /\ At(t, "save")
  /\ IF report[pkg[t]] # None THEN Return(t) /\ UNCHANGED rows
     ELSE /\ report' = [report EXCEPT ![pkg[t]] =
                IF pkg[t] \in Large THEN [of |-> pkg[t], n |-> Summary] ELSE data[t]]
          /\ newest' = pkg[t]
          /\ Goto(t, "latest") /\ UNCHANGED <<linked, pkg, link, data>>
  /\ UNCHANGED <<redis, analyses, faults>>

\* ReportDynamicAnalysis.objects.latest('id'), whichever package it is of
Latest(t) ==
  /\ At(t, "latest")
  /\ link' = [link EXCEPT ![t] = newest]
  /\ Goto(t, "complete")
  /\ UNCHANGED <<rows, redis, pkg, data, analyses, faults>>

\* A report has one task: a second one raises and the task fails
Complete(t) ==
  /\ At(t, "complete")
  /\ IF \E p \in Package : linked[p] = link[t] THEN Return(t) /\ UNCHANGED linked
     ELSE /\ linked' = [linked EXCEPT ![pkg[t]] = link[t]]
          /\ Goto(t, "fetch") /\ UNCHANGED <<pkg, link, data>>
  /\ UNCHANGED <<report, newest, redis, analyses, faults>>

------------------------------------------------------------------------------
(* save_professional_report, in a task or in analyze_api *)

\* analyze_api finds a completed task of the package
RequestReport(c) == \E p \in Package :
  /\ At(c, "idle") /\ linked[p] # None
  /\ pkg' = [pkg EXCEPT ![c] = p] /\ link' = [link EXCEPT ![c] = linked[p]]
  /\ Goto(c, "fetch")
  /\ UNCHANGED <<rows, redis, data, analyses, faults>>

\* What can be read of the report of p.  get_report reads the same way
Read(p) == LET row == report[p]
           IN IF row.n = Summary /\ large[KeyOf[p]] # None THEN large[KeyOf[p]] ELSE row

\* the newest report is read
FetchLatest(a) ==
  /\ At(a, "fetch")
  /\ data' = [data EXCEPT ![a] = Read(newest)] /\ Goto(a, "look")
  /\ UNCHANGED <<rows, redis, pkg, link, analyses, faults>>

\* Redis may fail here or in Look: the request fails, the task only warns
Fetch(a) ==
  /\ At(a, "fetch")
  /\ \/ /\ data' = [data EXCEPT ![a] = Read(link[a])] /\ Goto(a, "look")
        /\ UNCHANGED <<pkg, link, faults>>
     \/ Return(a) /\ Fault
  /\ UNCHANGED <<rows, redis, analyses>>

\* A copy that is there is used as it is
Look(a) ==
  /\ At(a, "look")
  /\ IF copy[KeyFor(a)] # None THEN Return(a) ELSE Goto(a, "copy") /\ UNCHANGED <<pkg, link, data>>
  /\ UNCHANGED <<rows, redis, analyses, faults>>

SetCopy(a) ==
  /\ At(a, "copy")
  /\ \/ copy' = [copy EXCEPT ![KeyFor(a)] = data[a]] /\ UNCHANGED faults
     \/ Fault /\ UNCHANGED copy
  /\ Return(a)
  /\ UNCHANGED <<rows, large, analyses>>

Expire(k) ==
  /\ \/ large[k] # None /\ large' = [large EXCEPT ![k] = None] /\ UNCHANGED copy
     \/ copy[k] # None /\ copy' = [copy EXCEPT ![k] = None] /\ UNCHANGED large
  /\ UNCHANGED <<rows, local, analyses, faults>>

------------------------------------------------------------------------------
Init ==
  /\ report = [p \in Package |-> None] /\ newest = None /\ linked = [p \in Package |-> None]
  /\ large = [k \in Key |-> None] /\ copy = [k \in Key |-> None]
  /\ pc = [a \in Actor |-> "idle"] /\ pkg = [a \in Actor |-> None]
  /\ link = [a \in Actor |-> None] /\ data = [a \in Actor |-> None]
  /\ analyses = 0 /\ faults = 0

Publish(a) == Fetch(a) \/ Look(a) \/ SetCopy(a)
Work(t) == StoreLarge(t) \/ SaveReport(t) \/ Latest(t) \/ Complete(t) \/ Publish(t)

Next ==
  \/ \E t \in Task : EndAnalysis(t) \/ Work(t)
  \/ \E c \in Client : RequestReport(c) \/ Publish(c)
  \/ \E k \in Key : Expire(k)

Spec == Init /\ [][Next]_vars

------------------------------------------------------------------------------
(* Properties *)

\* The types of the variables
TypeOK ==
  /\ report \in [Package -> Contents \cup {None}] /\ newest \in Package \cup {None}
  /\ linked \in [Package -> Package \cup {None}]
  /\ large \in [Key -> Contents \cup {None}] /\ copy \in [Key -> Contents \cup {None}]
  /\ pc \in [Actor -> {"idle", "store", "save", "latest", "complete", "fetch", "look", "copy"}]
  /\ pkg \in [Actor -> Package \cup {None}] /\ link \in [Actor -> Package \cup {None}]
  /\ data \in [Actor -> Contents \cup {None}]
  /\ analyses \in 0 .. MaxAnalyses /\ faults \in 0 .. MaxFaults

\* What is downloaded under a key is what the completed task of a package with
\* that key links to: the report in the linked row or, when that row is only
\* a summary, what Redis had under its key.  Whether the link is right is
\* TaskQueue's; here nothing on the way from the link to the copy mixes two
\* reports up, whoever publishes and whatever is saved meanwhile
DownloadIsLinked == \A k \in Key : copy[k] # None =>
  \E p \in Package :
    /\ KeyOf[p] = k /\ linked[p] # None
    /\ KeyOf[copy[k].of] = KeyOf[linked[p]]
    /\ linked[p] \notin Large => copy[k] = report[linked[p]]
==============================================================================
