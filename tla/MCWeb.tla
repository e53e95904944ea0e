-------------------------------- MODULE MCWeb --------------------------------
(***************************************************************************)
(* A TLC instance of the modules about the web application's services.     *)
(* They share no state here: a behaviour is one of the part it is about,   *)
(* and the other parts stay as they start.                                 *)
(***************************************************************************)
EXTENDS LastPyMile, PackageLists, ReportStore, RateLimit, TaskApi, TLC

CONSTANTS
  Parts,                           \* the parts a run is about
  slash, underscore, other, k1, k2, \* packages and their keys
  g1, g2, r1, r2, r3               \* web processes and requests

\* Two packages whose names differ in '/' and '_' only, and a third one
SharedKey == (slash :> k1) @@ (underscore :> k1) @@ (other :> k2)

\* A process with threads and one without
Mixed == (r1 :> g1) @@ (r2 :> g1) @@ (r3 :> g2)
\* Two of gunicorn's
Synchronous == (r2 :> g1) @@ (r3 :> g2)

VARIABLE part
allVars == <<part, lpmVars, listVars, vars, limitVars, apiVars>>

WebInit ==
  /\ part \in Parts
  /\ IF part = "lastpymile" THEN LpmInit
     ELSE LpmInit /\ Len(commits) = 1 /\ commits[1].tree = TreeOf(0)
  /\ ListsInit /\ (part # "lists" => ecosystem = "npm")
  /\ Init /\ LimitInit /\ ApiInit

InLimit(A) == part = "limit" /\ A /\ UNCHANGED <<part, lpmVars, listVars, vars, apiVars>>

Phantoms == part = "lastpymile" /\ LpmNext /\ UNCHANGED <<part, listVars, vars, limitVars, apiVars>>
Lists    == part = "lists"   /\ ListsNext /\ UNCHANGED <<part, lpmVars, vars, limitVars, apiVars>>
Store    == part = "reports" /\ Next /\ UNCHANGED <<part, lpmVars, listVars, limitVars, apiVars>>
Limits   == InLimit(LimitNext)
Api      == part = "api"     /\ ApiNext /\ UNCHANGED <<part, lpmVars, listVars, vars, limitVars>>

WebNext == Phantoms \/ Lists \/ Store \/ Limits \/ Api

\* LimitFairness in its part
WebFairness == \A p \in Process :
  WF_allVars(InLimit(HourPasses(p))) /\ WF_allVars(InLimit(CounterExpires(p)))

WebSpec == WebInit /\ [][WebNext]_allVars /\ WebFairness
==============================================================================
