--------------------------- MODULE MCAnalysisWorker ---------------------------
(* A small instance of AnalysisWorker for TLC.                             *)
EXTENDS AnalysisWorker, TLC

CONSTANTS w1, w2, e1, e2, e3, e4, n1, n2

\* e1 and e2 are two versions of a package, e3 has no name, e4 no supported type
TwoVersions == (e1 :> n1) @@ (e2 :> n1) @@ (e3 :> n2) @@ (e4 :> n2)

\* Two workers for one entry, or one worker and two entries; every feature and
\* store is on in one of them and off in another
TwoWorkers == [replicas |-> Worker, announced |-> {e1}, stores |-> Store \ {"log"}, files |-> TRUE,
               packages |-> TRUE, notify |-> FALSE, nackable |-> TRUE, extender |-> TRUE]
OneWorker == [TwoWorkers EXCEPT !.replicas = {w1}, !.announced = {e1, e2}]
Deployments ==
  {TwoWorkers,
   [TwoWorkers EXCEPT !.extender = FALSE, !.nackable = FALSE, !.packages = FALSE,
                      !.stores = {"dynamic", "writes"}],
   [OneWorker EXCEPT !.files = FALSE, !.notify = TRUE, !.stores = {"static", "dynamic", "archive"}],
   [OneWorker EXCEPT !.stores = {"dynamic", "log", "archive"}],
   [OneWorker EXCEPT !.files = FALSE, !.stores = {"static", "dynamic"}, !.announced = {e1, e3, e4}]}
==============================================================================
